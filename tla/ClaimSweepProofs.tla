-------------------------- MODULE ClaimSweepProofs --------------------------
(***************************************************************************)
(* What ClaimLease's sweeps keep to, for every number of handlers and      *)
(* claims: how often they dispatch a ticket again, and that they leave an  *)
(* escalated one alone.                                                    *)
(*                                                                         *)
(*   1. next to a detector that writes nothing, the reconcile sweep keeps  *)
(*      to the retry budget, whatever sweeps overlap;                      *)
(*   2. so do both sweeps, in every mode, while they do not overlap;       *)
(*   3. no reconcile sweep takes a ticket that was escalated.              *)
(***************************************************************************)
EXTENDS ClaimLeaseProofs

-------------------------------------------------------------------------------
(* 1. The retry budget of the reconcile sweep, next to a detector that writes nothing *)

\* Turned off, or in shadow mode where no session ends by exhausting its retries.
DetectorSilent == DetectorMode = "off" \/ (DetectorMode = "shadow" /\ "exhausted" \notin Endings)

\* A sweep before its steal, and one that has stolen and not yet counted it.
SweepSteps == {"reconcile", "rc_recheck", "rc_steal"}
CommittedSteps == {"rc_redo", "check", "send", "release", "park_ticket", "count"}
DetectorSteps == {"stamp", "recheck", "clear", "steal", "decide", "redo"}
Sweeping(j) == j.role = "reconcile" /\ j.pc \in SweepSteps
Committed(j) == j.role = "reconcile" /\ j.pc \in CommittedSteps
Uncounted == {w \in Handlers : Committed(job[w]) /\ job[w].pc # "rc_redo"}

RightRole(j) ==
  /\ j.pc \notin DetectorSteps
  /\ j.pc = "detect" => DetectorMode # "off"
  /\ j.pc \in SweepSteps \cup {"rc_redo", "count"} => j.role = "reconcile"
  /\ j.role = "reconcile" =>
       j.pc \in SweepSteps \cup CommittedSteps \cup {"error", "block", "page"}

Live(t) == t.status \in LiveStatuses

\* The claim of generation g was there when j began.
Old(j, g) == age[g] > IF j.late THEN 1 ELSE 0

\* The one that has stolen: nothing is counted, nobody else has, and a live claim is newer.
Alone(w) ==
  /\ retries = 0
  /\ \A v \in Handlers : Committed(job[v]) => v = w
  /\ Live(task) => ~Old(job[w], task.gen)

\* A sweep that saw nothing counted is right, and alone, as long as the claim it saw lives.
Watch(j) ==
  /\ j.snap.gen <= task.gen /\ (Live(j.snap) => j.snap.gen # 0)
  /\ Live(task) /\ task.gen = j.snap.gen => Live(j.snap)
  /\ j.retries = 0 /\ Live(task) /\ task.gen = j.snap.gen /\ Old(j, task.gen) =>
       retries = 0 /\ \A v \in Handlers : ~Committed(job[v])
  /\ j.pc # "reconcile" => j.retries = 0
  /\ j.pc = "rc_steal" /\ Live(j.snap) => age[j.snap.gen] >= LEASE_TTL

Budgeted == auto <= retries + faults + IF Uncounted = {} THEN 0 ELSE 1

Account ==
  /\ Live(task) => task.gen # 0
  /\ "exhausted" \notin Endings => \A g \in Gens : sess[g] # "exhausted"
  /\ retries <= 1
  /\ Budgeted
  /\ \A w \in Handlers : RightRole(job[w])
  /\ \A w \in Handlers : Committed(job[w]) => Alone(w)
  /\ \A w \in Handlers : Sweeping(job[w]) => Watch(job[w])

\* What a step leaves of the claim: its generation does not go back, a live claim was live
\* or is new, and only a new one's clock is set.
Steady ==
  /\ task'.gen >= task.gen
  /\ Live(task') => task'.gen # 0 /\ (task'.gen = task.gen => Live(task))
  /\ \A g \in Gens : g <= task.gen => age'[g] = age[g]
  /\ task'.gen # task.gen => age'[task'.gen] = 0
  /\ \A g \in Gens : sess'[g] = "exhausted" => sess[g] = "exhausted" \/ "exhausted" \in Endings

\* Every step but the tick leaves the sessions, the clocks and the claims as Steady allows.
LEMMA StepsSteady ==
  ASSUME DataOK, Live(task) => task.gen # 0, StepKinds, ~Tick
  PROVE  Steady
<1>0. task \in Tasks /\ task.gen \in Nat /\ (\A g \in Gens : g \in Nat) /\ sess \in [Gens -> Sessions]
  BY ClaimsAssumption DEF DataOK, Tasks, GensOrNone, Gens
<1>1. CASE UNCHANGED lockView
  BY <1>0, <1>1 DEF lockView, Steady, Live
<1>2. CASE Wins
  <2>1. /\ task'.gen = task.gen + 1 /\ task.gen + 1 \in Gens /\ UNCHANGED sess
        /\ age' = [age EXCEPT ![task.gen + 1] = 0]
    BY <1>0, <1>2, NextClaim DEF Wins, WinClaim
  <2>2. age \in [Gens -> Nat]
    BY DEF DataOK
  <2> QED
    BY <1>0, <2>1, <2>2 DEF Steady
<1>3. CASE Frees
  <2>1. PICK s \in TaskStatuses \ {"running"} : task' = [task EXCEPT !.status = s]
    BY <1>3 DEF Frees
  <2>2. task'.gen = task.gen /\ task'.status \notin LiveStatuses
    BY <1>0, <2>1 DEF Tasks, TaskStatuses, LiveStatuses
  <2> QED
    BY <1>0, <1>3, <2>2 DEF Frees, Steady, Live
<1>4. CASE Stamps
  <2>1. task'.gen = task.gen /\ task'.status = task.status
    BY <1>0, <1>4 DEF Stamps, Tasks
  <2> QED
    BY <1>0, <1>4, <2>1 DEF Stamps, Steady, Live
<1>5. CASE Starts
  <2>1. \A g \in Gens : sess'[g] \in {sess[g], "alive"}
    BY <1>0, <1>5 DEF Starts, StartSession
  <2> QED
    BY <1>0, <1>5, <2>1 DEF Starts, Steady, Live
<1>6. CASE Ends
  <2>1. \A g \in Gens : sess'[g] = sess[g] \/ sess'[g] \in Endings
    BY <1>0, <1>6 DEF Ends
  <2> QED
    BY <1>0, <1>6, <2>1 DEF Ends, Steady, Live
<1>7. CASE CloseRun
  BY <1>0, <1>7 DEF CloseRun, Steady, Live, clockVars, worldVars
<1> QED
  BY <1>1, <1>2, <1>3, <1>4, <1>5, <1>6, <1>7 DEF StepKinds

\* No handler commits itself.
NoneCommits == \A v \in Handlers : Committed(job'[v]) => Committed(job[v])

\* The account's numbers, for the arithmetic.
LEMMA Numbers ==
  ASSUME DataOK, JobsOK
  PROVE  /\ task.gen \in Nat /\ task.gen \in GensOrNone
         /\ retries \in Nat /\ auto \in Nat /\ faults \in Nat
         /\ \A g \in Gens : g \in Nat /\ age[g] \in Nat
         /\ \A g \in GensOrNone : g \in Nat /\ (g # 0 => g \in Gens)
         /\ \A v \in Handlers : /\ job[v] \in Jobs /\ job[v].snap \in Tasks
                                /\ job[v].snap.gen \in GensOrNone /\ job[v].retries \in Nat
  BY ClaimsAssumption DEF DataOK, JobsOK, Tasks, GensOrNone, Gens, Jobs

\* What a sweep has seen stays so.
LEMMA WatchStays ==
  ASSUME DataOK, JobsOK, Steady, NEW v \in Handlers, Watch(job[v]), job'[v] = job[v],
         retries' \in {0, retries}, NoneCommits, task'.gen \in GensOrNone
  PROVE  Watch(job[v])'
<1>0. task'.gen \in Nat /\ (task'.gen # 0 => task'.gen \in Gens)
  BY ClaimsAssumption DEF GensOrNone, Gens
<1> DEFINE g == job[v].snap.gen
<1>1. g \in GensOrNone /\ g <= task.gen /\ task.gen <= task'.gen /\ g \in Nat /\ task.gen \in Nat
  BY <1>0, Numbers DEF Watch, Steady
<1>2. g # 0 => g \in Gens /\ age'[g] = age[g]
  BY <1>1, Numbers DEF Steady
<1>3. CASE Live(task') /\ task'.gen = g
  <2>1. task.gen = g /\ Live(task) /\ g # 0
    BY <1>0, <1>1, <1>3 DEF Steady
  <2>2. Old(job[v], task.gen)' => Old(job[v], task.gen)
    BY <1>2, <1>3, <2>1 DEF Old
  <2>3. /\ Live(job[v].snap)
        /\ job[v].retries = 0 /\ Old(job[v], task.gen) =>
             retries = 0 /\ \A u \in Handlers : ~Committed(job[u])
    BY <2>1 DEF Watch
  <2> QED
    BY <1>0, <1>1, <1>2, <1>3, <2>1, <2>2, <2>3 DEF Watch, NoneCommits
<1>4. CASE ~(Live(task') /\ task'.gen = g)
  BY <1>0, <1>1, <1>2, <1>4 DEF Watch
<1> QED
  BY <1>3, <1>4

\* The one that has stolen stays alone.
LEMMA AloneStays ==
  ASSUME DataOK, JobsOK, Steady, NEW w \in Handlers, Alone(w), job'[w].late = job[w].late,
         retries' \in {0, retries}, NoneCommits, task'.gen \in GensOrNone
  PROVE  Alone(w)'
<1>1. retries' = 0 /\ \A v \in Handlers : Committed(job'[v]) => v = w
  BY DEF Alone, NoneCommits
<1>2. ASSUME Live(task') PROVE ~Old(job[w], task.gen)'
  <2>1. CASE task'.gen = task.gen
    <3>1. Live(task) /\ task.gen # 0
      BY <1>2, <2>1 DEF Steady
    <3>2. task.gen \in Gens /\ task.gen <= task.gen
      BY <3>1, Numbers
    <3>3. age'[task.gen] = age[task.gen]
      BY <3>2 DEF Steady
    <3> QED
      BY <2>1, <3>1, <3>3 DEF Alone, Old
  <2>2. CASE task'.gen # task.gen
    <3>1. age'[task'.gen] = 0
      BY <2>2 DEF Steady
    <3> QED
      BY <3>1 DEF Old
  <2> QED
    BY <2>1, <2>2
<1> QED
  BY <1>1, <1>2 DEF Alone

\* The account of a step after which a handler knows what it knew, or has been accounted
\* for: it leaves the sweep, keeps its commitment, or watches rightly.
LEMMA QuietAccount ==
  ASSUME DataOK, JobsOK, Account, Steady, retries' \in {0, retries}, NoneCommits,
         task'.gen \in GensOrNone, Budgeted',
         \A v \in Handlers :
           \/ job'[v] = job[v]
           \/ /\ RightRole(job'[v])
              /\ Sweeping(job'[v]) => Watch(job[v])'
              /\ Committed(job'[v]) => job'[v].late = job[v].late
  PROVE  Account'
<1>1. \A v \in Handlers : RightRole(job'[v])
  BY DEF Account
<1>2. ASSUME NEW v \in Handlers, Sweeping(job'[v]) PROVE Watch(job[v])'
  BY <1>2, WatchStays DEF Account
<1>3. ASSUME NEW w \in Handlers, Committed(job'[w]) PROVE Alone(w)'
  <2>1. Committed(job[w]) /\ job'[w].late = job[w].late
    BY <1>3 DEF NoneCommits
  <2> QED
    BY <2>1, AloneStays DEF Account
<1>4. retries' <= 1 /\ (Live(task') => task'.gen # 0)
  BY Numbers DEF Account, Steady
<1>5. "exhausted" \notin Endings => \A g \in Gens : sess'[g] # "exhausted"
  BY DEF Account, Steady
<1> QED
  BY <1>1, <1>2, <1>3, <1>4, <1>5 DEF Account

\* What one handler does, for the account.  It stays or steps outside the sweep, perhaps
\* after a person's decision...
Plain(j) == RightRole(j) /\ ~Sweeping(j) /\ ~Committed(j)
Aside(w) ==
  /\ OthersStay(w) /\ ~Committed(job[w]) /\ Plain(job'[w])
  /\ faults' >= faults
  /\ UNCHANGED <<retries, auto>> \/ (retries' = 0 /\ auto' = 0)

\* ...goes on with its dispatch towards the count...
Carries(w) ==
  /\ OthersStay(w)
  /\ \A pc \in {job[w].pc, job'[w].pc} : pc \in CommittedSteps \ {"rc_redo"}
  /\ job[w].role = "reconcile" /\ job'[w].role = "reconcile" /\ job'[w].late = job[w].late
  /\ faults' >= faults /\ UNCHANGED <<retries, auto>>

\* ...dies before it...
GivesUp(w) == Committed(job[w]) /\ Crash(w)

\* ...goes on in its sweep, with nothing counted in what it saw, and finds the lease dead
\* before the steal...
Looks(w) ==
  /\ OthersStay(w) /\ Sweeping(job[w]) /\ Sweeping(job'[w])
  /\ job'[w].snap = job[w].snap /\ job'[w].retries = job[w].retries
  /\ job'[w].late = job[w].late /\ job'[w].pc # "reconcile"
  /\ job[w].pc # "reconcile" \/ job[w].retries = 0
  /\ job'[w].pc = "rc_steal" => ~IsLeaseLive(job[w].snap)
  /\ UNCHANGED <<task, age, silence, retries, auto, faults>>

\* ...steals...
Takes(w) ==
  /\ OthersStay(w) /\ job[w].role = "reconcile" /\ job[w].pc = "rc_steal"
  /\ job'[w].role = "reconcile" /\ job'[w].pc = "rc_redo" /\ job'[w].late = job[w].late
  /\ CanSteal(job[w].snap) /\ task' = [task EXCEPT !.status = "ready"]
  /\ UNCHANGED <<age, sess, retries, auto, faults>>

\* ...or dispatches again, and counts.
Again(w) == job[w].pc = "rc_redo" /\ Redispatch(w)

Shapes(w) == \/ Aside(w) \/ Carries(w) \/ GivesUp(w) \/ ReconcileScan(w) \/ Looks(w)
             \/ Takes(w) \/ Again(w) \/ CountRetry(w)

\* A handler at rest is outside the sweep.
LEMMA IdlePlain == Plain(Idle)
  BY DEF Plain, RightRole, Sweeping, Committed, Idle, DetectorSteps, SweepSteps

\* A step outside the sweep leads outside it.
LEMMA PlainJob ==
  ASSUME NEW j, j.pc \notin DetectorSteps \cup SweepSteps \cup {"rc_redo", "count", "detect"},
         j.role = "reconcile" => j.pc \in {"error", "block", "page"}
  PROVE  Plain(j)
  BY DEF Plain, RightRole, Sweeping, Committed, CommittedSteps, SweepSteps

\* One that is not the sweep's is at none of its steps.
LEMMA NotOfSweep ==
  ASSUME NEW j, RightRole(j)
  PROVE  /\ j.pc \notin SweepSteps \cup CommittedSteps \cup {"error", "block", "page"} =>
              j.role # "reconcile"
         /\ j.role # "reconcile" => ~Committed(j) /\ ~Sweeping(j)
         /\ j.pc \notin CommittedSteps => ~Committed(j)
  BY DEF RightRole, Committed, Sweeping

\* Back from invokeAgent the sweep goes on to its count.
LEMMA InvokedShape ==
  ASSUME JobsOK, NEW w \in Handlers, RightRole(job[w]), AfterInvoke(w),
         job[w].pc \in CommittedSteps \ {"rc_redo"},
         faults' >= faults, UNCHANGED <<retries, auto>>
  PROVE  Aside(w) \/ Carries(w)
<1>1. CASE job[w].role = "reconcile"
  BY <1>1, AfterInvokeMoves DEF Carries, CommittedSteps
<1>2. CASE job[w].role # "reconcile"
  BY <1>2, AfterInvokeMoves, IdlePlain, NotOfSweep DEF Aside
<1> QED
  BY <1>1, <1>2

\* So does a dispatch on its way.
LEMMA OnwardShape ==
  ASSUME JobsOK, NEW w \in Handlers, RightRole(job[w]),
         NEW pc \in {"send", "release", "park_ticket"}, Go(w, pc),
         job[w].pc \in CommittedSteps \ {"rc_redo"},
         faults' >= faults, UNCHANGED <<retries, auto>>
  PROVE  Aside(w) \/ Carries(w)
<1>0. job'[w].pc = pc /\ job'[w].role = job[w].role /\ job'[w].late = job[w].late /\ OthersStay(w)
  BY GoMoves
<1>1. CASE job[w].role = "reconcile"
  BY <1>0, <1>1 DEF Carries, CommittedSteps
<1>2. CASE job[w].role # "reconcile"
  <2>1. Plain(job'[w])
    BY <1>0, <1>2, PlainJob DEF DetectorSteps, SweepSteps
  <2> QED
    BY <1>0, <1>2, <2>1, NotOfSweep DEF Aside
<1> QED
  BY <1>1, <1>2

\* A handler that returns without a commitment.
LEMMA FinishShape ==
  ASSUME JobsOK, NEW w \in Handlers, RightRole(job[w]), Finish(w),
         job[w].pc \notin CommittedSteps \/ job[w].role # "reconcile",
         faults' >= faults, UNCHANGED <<retries, auto>>
  PROVE  Aside(w)
  BY FinishMoves, IdlePlain, NotOfSweep DEF Aside

\* One that goes on outside the sweep.
LEMMA OutsideShape ==
  ASSUME JobsOK, NEW w \in Handlers, RightRole(job[w]), NEW pc, Go(w, pc),
         job[w].pc \notin CommittedSteps \/ job[w].role # "reconcile",
         pc \notin DetectorSteps \cup SweepSteps \cup {"rc_redo", "count", "detect"},
         job[w].role = "reconcile" => pc \in {"error", "block", "page"},
         faults' >= faults, UNCHANGED <<retries, auto>>
  PROVE  Aside(w)
  BY GoMoves, PlainJob, NotOfSweep DEF Aside

\* A detector that writes nothing goes no further than its look at the candidate.
LEMMA SilentDetector ==
  ASSUME DetectorSilent, DataOK, JobsOK, NEW w \in Handlers, RightRole(job[w]),
         "exhausted" \notin Endings => \A g \in Gens : sess[g] # "exhausted"
  PROVE  ~RedriveStalled(w) /\ ~FindResidue(w) /\ ~FindDead(w)
<1>1. SUFFICES ASSUME job[w].pc = "detect" PROVE ~Enforced(job[w].snap) /\ DetectorMode # "enforce"
  BY DEF RedriveStalled, FindResidue, FindDead, Fires
<1>2. DetectorMode = "shadow" /\ "exhausted" \notin Endings
  BY <1>1 DEF RightRole, DetectorSilent
<1>3. job[w].snap.gen # 0 => sess[job[w].snap.gen] # "exhausted"
  BY <1>2, Numbers
<1> QED
  BY <1>2, <1>3 DEF Enforced, Exhausted

\* A handler that begins takes one of the shapes of a step.
LEMMA BeginShapes ==
  ASSUME DataOK, JobsOK, NEW w \in Handlers, Begin(w)
  PROVE  Shapes(w)
<1>1. OthersStay(w) /\ job[w] = Idle /\ ~Committed(job[w])
  BY BeginMoves, IdlePlain DEF Plain
<1>2. CASE ReconcileScan(w)
  BY <1>2 DEF Shapes
<1>3. CASE ~ReconcileScan(w)
  <2>1. Plain(job'[w])
    <3>1. CASE job'[w] = job[w]
      BY <1>1, <3>1, IdlePlain
    <3>2. CASE job'[w] # job[w]
      BY <1>3, <3>2, BeginMoves
      DEF Plain, RightRole, Sweeping, Committed, DetectorSteps, SweepSteps
    <3> QED
      BY <3>1, <3>2
  <2>2. faults' >= faults
    BY <1>3, Numbers
    DEF Begin, StartReady, DetectorScan, Scan, WakeAfterDecision, ReceiveDone, ReceivePark,
        Deliver, Fault
  <2>3. UNCHANGED <<retries, auto>> \/ (retries' = 0 /\ auto' = 0)
    BY <1>3
    DEF Begin, StartReady, DetectorScan, Scan, WakeAfterDecision, ReceiveDone, ReceivePark
  <2> QED
    BY <1>1, <2>1, <2>2, <2>3 DEF Shapes, Aside
<1> QED
  BY <1>2, <1>3

\* The dispatch.
LEMMA DispatchShapes ==
  ASSUME DataOK, JobsOK, NEW w \in Handlers, RightRole(job[w])
  PROVE  /\ ReadyClaim(w) \/ MoveInProgress(w) \/ MoveRefused(w) \/ MoveUnavailable(w) => Aside(w)
         /\ CheckStillLive(w) \/ Send(w) \/ SendFails(w) => Aside(w) \/ Carries(w)
         /\ ReleaseOnFailure(w) \/ ParkAfterFailure(w) => Aside(w) \/ Carries(w)
         /\ Redispatch(w) => Again(w)
<1>0. Fault \/ UNCHANGED faults => faults' >= faults
  BY Numbers DEF Fault
<1> USE DEF DetectorSteps, SweepSteps, CommittedSteps
<1>1. ASSUME ReadyClaim(w) PROVE Aside(w)
  <2>1. job[w].role # "reconcile" /\ faults' >= faults /\ UNCHANGED <<retries, auto>>
    BY <1>0, <1>1, NotOfSweep DEF ReadyClaim
  <2>2. CASE Finish(w)
    BY <2>1, <2>2, FinishShape
  <2>3. CASE WinClaim(w, "board")
    BY <2>1, <2>3, WinMoves, PlainJob, NotOfSweep DEF Aside
  <2> QED
    BY <1>1, <2>2, <2>3 DEF ReadyClaim
<1>2. ASSUME MoveInProgress(w) PROVE Aside(w)
  <2>1. job[w].role # "reconcile"
    BY <1>2, NotOfSweep DEF MoveInProgress
  <2> QED
    BY <1>0, <1>2, <2>1, OutsideShape DEF MoveInProgress
<1>3. ASSUME MoveRefused(w) PROVE Aside(w)
  BY <1>0, <1>3, FinishShape DEF MoveRefused
<1>4. ASSUME MoveUnavailable(w) PROVE Aside(w)
  <2>1. job[w].role # "reconcile" /\ faults' >= faults /\ UNCHANGED <<retries, auto>>
    BY <1>0, <1>4, NotOfSweep DEF MoveUnavailable
  <2>2. Finish(w) \/ Go(w, "check")
    BY <1>4 DEF MoveUnavailable
  <2> QED
    BY <2>1, <2>2, FinishShape, OutsideShape
<1>5. ASSUME CheckStillLive(w) PROVE Aside(w) \/ Carries(w)
  <2>1. job[w].pc = "check" /\ faults' >= faults /\ UNCHANGED <<retries, auto>>
    BY <1>0, <1>5 DEF CheckStillLive
  <2>2. Go(w, "send") \/ AfterInvoke(w)
    BY <1>5 DEF CheckStillLive
  <2> QED
    BY <2>1, <2>2, OnwardShape, InvokedShape
<1>6. ASSUME Send(w) PROVE Aside(w) \/ Carries(w)
  BY <1>0, <1>6, InvokedShape DEF Send
<1>7. ASSUME SendFails(w) PROVE Aside(w) \/ Carries(w)
  BY <1>0, <1>7, OnwardShape DEF SendFails
<1>8. ASSUME ReleaseOnFailure(w) PROVE Aside(w) \/ Carries(w)
  BY <1>0, <1>8, OnwardShape DEF ReleaseOnFailure
<1>9. ASSUME ParkAfterFailure(w) PROVE Aside(w) \/ Carries(w)
  <2>1. faults' >= faults
    BY <1>0, <1>9 DEF ParkAfterFailure, ParkOnBoard
  <2> QED
    BY <1>9, <2>1, InvokedShape DEF ParkAfterFailure
<1>10. Redispatch(w) => Again(w)
  BY DEF Redispatch, Again, RightRole
<1> QED
  BY <1>1, <1>2, <1>3, <1>4, <1>5, <1>6, <1>7, <1>8, <1>9, <1>10

\* The sweep.
LEMMA SweepShapes ==
  ASSUME DataOK, JobsOK, NEW w \in Handlers, RightRole(job[w])
  PROVE  Reconcile(w) \/ ReconcileRecheck(w) \/ ReconcileSteal(w) =>
           Aside(w) \/ Looks(w) \/ Takes(w)
<1>0. faults' = faults => faults' >= faults
  BY Numbers
<1>1. ASSUME Reconcile(w) PROVE Aside(w) \/ Looks(w)
  <2>1. /\ job[w].pc = "reconcile" /\ job[w].role = "reconcile"
        /\ UNCHANGED <<task, age, silence, retries, auto, faults>>
    BY <1>1 DEF Reconcile, RightRole, SweepSteps, unchangedByDetect, clockVars
  <2>2. \/ Finish(w)
        \/ \E j : j.pc = "claim" /\ j.role = "redrive" /\ job' = [job EXCEPT ![w] = j]
        \/ Go(w, "error")
        \/ job[w].retries = 0 /\ Go(w, "rc_recheck")
    <3> DEFINE j == [job[w] EXCEPT !.pc = "claim", !.role = "redrive",
                                   !.recovery = board \in {"todo", "blocked"}]
    <3>1. j.pc = "claim" /\ j.role = "redrive"
      BY DEF JobsOK, Jobs
    <3>2. CASE ~Recoverable(w)
      BY <1>1, <3>2 DEF Reconcile
    <3>3. CASE Recoverable(w) /\ board # "in_progress"
      <4>1. job' = [job EXCEPT ![w] = j]
        BY <1>1, <3>3 DEF Reconcile
      <4> QED
        BY <3>1, <4>1
    <3>4. CASE Recoverable(w) /\ board = "in_progress"
      <4>1. Go(w, IF job[w].retries = 0 THEN "rc_recheck" ELSE "error")
        BY <1>1, <3>4 DEF Reconcile
      <4>2. CASE job[w].retries = 0
        BY <4>1, <4>2
      <4>3. CASE job[w].retries # 0
        BY <4>1, <4>3
      <4> QED
        BY <4>2, <4>3
    <3> QED
      BY <3>2, <3>3, <3>4
  <2>3. CASE Finish(w)
    BY <1>0, <2>1, <2>3, FinishShape DEF CommittedSteps
  <2>4. CASE \E j : j.pc = "claim" /\ j.role = "redrive" /\ job' = [job EXCEPT ![w] = j]
    BY <1>0, <2>1, <2>4, ReplacedMoves, PlainJob, NotOfSweep
    DEF Aside, DetectorSteps, SweepSteps, CommittedSteps
  <2>5. CASE Go(w, "error")
    BY <1>0, <2>1, <2>5, OutsideShape DEF DetectorSteps, SweepSteps, CommittedSteps
  <2>6. CASE job[w].retries = 0 /\ Go(w, "rc_recheck")
    BY <2>1, <2>6, GoMoves DEF Looks, Sweeping, SweepSteps
  <2> QED
    BY <2>2, <2>3, <2>4, <2>5, <2>6
<1>2. ASSUME ReconcileRecheck(w) PROVE Aside(w) \/ Looks(w)
  <2>1. /\ job[w].pc = "rc_recheck" /\ job[w].role = "reconcile"
        /\ UNCHANGED <<task, age, silence, retries, auto, faults>>
    BY <1>2 DEF ReconcileRecheck, RightRole, SweepSteps, unchangedByDetect, clockVars
  <2>2. CASE Finish(w)
    BY <1>0, <2>1, <2>2, FinishShape DEF CommittedSteps
  <2>3. CASE ~IsLeaseLive(job[w].snap) /\ Go(w, "rc_steal")
    BY <2>1, <2>3, GoMoves DEF Looks, Sweeping, SweepSteps
  <2> QED
    BY <1>2, <2>2, <2>3 DEF ReconcileRecheck
<1>3. ASSUME ReconcileSteal(w) PROVE Aside(w) \/ Takes(w)
  <2>1. /\ job[w].pc = "rc_steal" /\ job[w].role = "reconcile"
        /\ UNCHANGED <<age, sess, retries, auto, faults>>
    BY <1>3 DEF ReconcileSteal, RightRole, SweepSteps, clockVars, worldVars
  <2>2. CASE Finish(w)
    BY <1>0, <2>1, <2>2, FinishShape DEF CommittedSteps
  <2>3. CASE ~Finish(w)
    <3>1. CanSteal(job[w].snap) /\ task' = [task EXCEPT !.status = "ready"] /\ Go(w, "rc_redo")
      BY <1>3, <2>3 DEF ReconcileSteal, Steal
    <3> QED
      BY <2>1, <3>1, GoMoves DEF Takes
  <2> QED
    BY <2>2, <2>3
<1> QED
  BY <1>1, <1>2, <1>3

\* The other steps of a handler.
LEMMA OtherShapes ==
  ASSUME DataOK, JobsOK, NEW w \in Handlers, RightRole(job[w])
  PROVE  /\ SkipCandidate(w) \/ ReleaseParked(w) \/ AnnounceDone(w) => Aside(w)
         /\ WakeCheck(w) \/ WakeSteal(w) => Aside(w)
         /\ EscalateError(w) \/ EscalateBlock(w) \/ EscalatePage(w) => Aside(w)
         /\ ~Stamp(w) /\ ~Recheck(w) /\ ~ClearStamp(w) /\ ~DetectorSteal(w) /\ ~Decide(w)
         /\ Crash(w) => Aside(w) \/ GivesUp(w)
<1>0. Fault \/ UNCHANGED faults => faults' >= faults
  BY Numbers DEF Fault
<1>1. SkipCandidate(w) => Aside(w)
  BY <1>0, FinishShape DEF SkipCandidate, unchangedByDetect, CommittedSteps
<1>2. ReleaseParked(w) \/ AnnounceDone(w) => Aside(w)
  BY <1>0, FinishShape DEF ReleaseParked, AnnounceDone, CommittedSteps
<1>3. ASSUME WakeCheck(w) PROVE Aside(w)
  <2>1. job[w].role # "reconcile"
    BY <1>3, NotOfSweep DEF WakeCheck, CommittedSteps, SweepSteps
  <2>2. Finish(w) \/ Go(w, "wake_steal")
    BY <1>3 DEF WakeCheck
  <2> QED
    BY <1>0, <1>3, <2>1, <2>2, FinishShape, OutsideShape
    DEF WakeCheck, unchangedByDetect, DetectorSteps, SweepSteps
<1>4. ASSUME WakeSteal(w) PROVE Aside(w)
  <2>1. job[w].role # "reconcile" /\ faults' >= faults /\ UNCHANGED <<retries, auto>>
    BY <1>0, <1>4, NotOfSweep DEF WakeSteal, CommittedSteps, SweepSteps
  <2>2. \/ Finish(w)
        \/ \E j : j.pc = "claim" /\ j.role = job[w].role /\ job' = [job EXCEPT ![w] = j]
    <3>1. /\ [job[w] EXCEPT !.pc = "claim", !.recovery = board \in {"todo", "blocked"}].pc = "claim"
          /\ [job[w] EXCEPT !.pc = "claim",
                            !.recovery = board \in {"todo", "blocked"}].role = job[w].role
      BY DEF JobsOK, Jobs
    <3> QED
      BY <1>4, <3>1 DEF WakeSteal
  <2>3. CASE Finish(w)
    BY <2>1, <2>3, FinishShape
  <2>4. CASE \E j : j.pc = "claim" /\ j.role = job[w].role /\ job' = [job EXCEPT ![w] = j]
    BY <2>1, <2>4, ReplacedMoves, PlainJob, NotOfSweep DEF Aside, DetectorSteps, SweepSteps
  <2> QED
    BY <2>2, <2>3, <2>4
<1>5. EscalateError(w) => Aside(w)
  BY <1>0, OutsideShape DEF EscalateError, DetectorSteps, SweepSteps, CommittedSteps
<1>6. ASSUME EscalateBlock(w) PROVE Aside(w)
  <2>1. faults' >= faults
    BY <1>0, <1>6 DEF EscalateBlock, ParkOnBoard
  <2> QED
    BY <1>6, <2>1, OutsideShape DEF EscalateBlock, DetectorSteps, SweepSteps, CommittedSteps
<1>7. EscalatePage(w) => Aside(w)
  BY <1>0, FinishShape DEF EscalatePage, CommittedSteps
<1>8. ~Stamp(w) /\ ~Recheck(w) /\ ~ClearStamp(w) /\ ~DetectorSteal(w) /\ ~Decide(w)
  BY DEF RightRole, DetectorSteps, Stamp, Recheck, ClearStamp, DetectorSteal, Decide
<1>9. ASSUME Crash(w) PROVE Aside(w) \/ GivesUp(w)
  <2>1. CASE Committed(job[w])
    BY <1>9, <2>1 DEF GivesUp
  <2>2. CASE ~Committed(job[w])
    BY <1>0, <1>9, <2>2, FinishMoves, IdlePlain DEF Crash, Aside
  <2> QED
    BY <2>1, <2>2
<1> QED
  BY <1>1, <1>2, <1>3, <1>4, <1>5, <1>6, <1>7, <1>8, <1>9

\* Where the detector writes nothing, every step of a handler has one of the shapes.
LEMMA HandlerShapes ==
  ASSUME DetectorSilent, DataOK, JobsOK, Account, NEW w \in Handlers,
         Begin(w) \/ Continue(w) \/ Crash(w)
  PROVE  Shapes(w)
<1>1. RightRole(job[w]) /\ ("exhausted" \notin Endings => \A g \in Gens : sess[g] # "exhausted")
  BY DEF Account
<1>2. ~RedriveStalled(w) /\ ~FindResidue(w) /\ ~FindDead(w)
  BY <1>1, SilentDetector
<1>3. CASE Begin(w)
  BY <1>3, BeginShapes
<1>4. CASE Continue(w)
  BY <1>1, <1>2, <1>4, DispatchShapes, SweepShapes, OtherShapes DEF Continue, Shapes
<1>5. CASE Crash(w)
  BY <1>1, <1>5, OtherShapes DEF Shapes
<1> QED
  BY <1>3, <1>4, <1>5

\* Nobody but w joins the uncounted or leaves them.
LEMMA UncountedBut ==
  ASSUME NEW w \in Handlers, OthersStay(w)
  PROVE  /\ Uncounted' \ {w} = Uncounted \ {w}
         /\ w \in Uncounted <=> Committed(job[w]) /\ job[w].pc # "rc_redo"
         /\ w \in Uncounted' <=> Committed(job'[w]) /\ job'[w].pc # "rc_redo"
  BY DEF Uncounted, OthersStay

\* The budget holds on when nothing is added to what it bounds.
LEMMA StillBudgeted ==
  ASSUME Budgeted, Uncounted' = Uncounted, faults' >= faults, faults' \in Nat, faults \in Nat,
         auto \in Nat, retries \in Nat,
         UNCHANGED <<retries, auto>> \/ (retries' = 0 /\ auto' = 0)
  PROVE  Budgeted'
<1> DEFINE pending == IF Uncounted = {} THEN 0 ELSE 1
<1>1. pending \in 0 .. 1 /\ pending' = pending
  OBVIOUS
<1>2. auto <= retries + faults + pending
  BY DEF Budgeted
<1> HIDE DEF pending
<1>3. auto' <= retries' + faults' + pending
  BY <1>1, <1>2
<1> QED
  BY <1>1, <1>3 DEF Budgeted, pending

\* A step aside, one towards the count, and a death before it keep the account of the budget.
LEMMA AsideAccount ==
  ASSUME DataOK, JobsOK, Account, Steady, task'.gen \in GensOrNone, NEW w \in Handlers,
         Aside(w) \/ Carries(w) \/ GivesUp(w), faults' \in Nat
  PROVE  Account'
<1>0. auto \in Nat /\ retries \in Nat /\ faults \in Nat
  BY Numbers
<1>1. CASE Aside(w)
  <2>1. ~Committed(job'[w]) /\ ~Sweeping(job'[w]) /\ RightRole(job'[w])
    BY <1>1 DEF Aside, Plain
  <2>2. NoneCommits
    BY <1>1, <2>1 DEF Aside, OthersStay, NoneCommits
  <2>3. Uncounted' = Uncounted
    BY <1>1, <2>1, UncountedBut DEF Aside
  <2>4. Budgeted'
    BY <1>0, <1>1, <2>3, StillBudgeted DEF Aside, Account
  <2>5. retries' \in {0, retries}
    BY <1>1 DEF Aside
  <2> QED
    BY <1>1, <2>1, <2>2, <2>4, <2>5, QuietAccount DEF Aside, OthersStay
<1>2. CASE Carries(w)
  <2>1. Committed(job[w]) /\ Committed(job'[w]) /\ job[w].pc # "rc_redo" /\ job'[w].pc # "rc_redo"
    BY <1>2 DEF Carries, Committed
  <2>2. RightRole(job'[w]) /\ ~Sweeping(job'[w])
    BY <1>2 DEF Carries, RightRole, Sweeping, CommittedSteps, DetectorSteps, SweepSteps
  <2>3. NoneCommits
    BY <1>2, <2>1 DEF Carries, OthersStay, NoneCommits
  <2>4. Uncounted' = Uncounted
    BY <1>2, <2>1, UncountedBut DEF Carries
  <2>5. Budgeted'
    BY <1>0, <1>2, <2>4, StillBudgeted DEF Carries, Account
  <2> QED
    BY <1>2, <2>2, <2>3, <2>5, QuietAccount DEF Carries, OthersStay
<1>3. CASE GivesUp(w)
  <2>1. OthersStay(w) /\ job'[w] = Idle
    BY <1>3, FinishMoves DEF GivesUp, Crash
  <2>2. UNCHANGED <<retries, auto>> /\ faults' = faults + 1
    BY <1>3 DEF GivesUp, Crash, Fault
  <2>3. NoneCommits
    BY <2>1, IdlePlain DEF OthersStay, NoneCommits, Plain
  <2>4. Uncounted = {} => Uncounted' = {}
    BY <1>3, <2>1, UncountedBut, IdlePlain DEF Plain
  <2>5. Budgeted'
    BY <1>0, <2>2, <2>4 DEF Account, Budgeted
  <2> QED
    BY <2>1, <2>2, <2>3, <2>5, QuietAccount, IdlePlain DEF OthersStay, Plain
<1> QED
  BY <1>1, <1>2, <1>3

\* A sweep begins, and has seen the truth; if the claim it saw is live and old, nobody is
\* committed, since a live claim is newer than whoever is.
LEMMA ScanAccount ==
  ASSUME DataOK, JobsOK, Account, Steady, NEW w \in Handlers, ReconcileScan(w)
  PROVE  Account'
<1>0. UNCHANGED <<task, age, retries, auto, faults>>
  BY DEF ReconcileScan, Scan, clockVars
<1>1. /\ OthersStay(w) /\ job[w] = Idle
      /\ job'[w].pc = "reconcile" /\ job'[w].role = "reconcile"
      /\ job'[w].snap = task /\ job'[w].retries = retries
      /\ job'[w].late = \E v \in Handlers : job[v].late
  <2>1. Fresh \in Jobs /\ Fresh.late = \E v \in Handlers : job[v].late
    BY FreshJob, IdleJob DEF Fresh, Jobs
  <2>2. \E j : /\ j.pc = "reconcile" /\ j.role = "reconcile" /\ j.snap = task
               /\ j.retries = retries /\ j.late = Fresh.late
               /\ job' = [job EXCEPT ![w] = j]
    BY <2>1 DEF ReconcileScan, Scan, Jobs
  <2> QED
    BY <2>1, <2>2, ReplacedMoves DEF ReconcileScan, Scan
<1>2. RightRole(job'[w]) /\ ~Committed(job'[w]) /\ ~Committed(job[w])
  BY <1>1, IdlePlain
  DEF RightRole, Committed, CommittedSteps, SweepSteps, DetectorSteps, Plain
<1>3. NoneCommits
  BY <1>1, <1>2 DEF OthersStay, NoneCommits
<1>4. Uncounted' = Uncounted
  BY <1>1, <1>2, UncountedBut
<1>5. Budgeted'
  BY <1>0, <1>4 DEF Account, Budgeted
<1>6. ASSUME Live(task), Old(job'[w], task.gen) PROVE \A v \in Handlers : ~Committed(job'[v])
  <2> SUFFICES ASSUME NEW v \in Handlers, Committed(job[v]) PROVE FALSE
    BY <1>3 DEF NoneCommits
  <2>1. ~Old(job[v], task.gen)
    BY <1>6 DEF Account, Alone
  <2>2. job[v].late => job'[w].late
    BY <1>1
  <2>3. task.gen \in Gens /\ age[task.gen] \in Nat
    BY <1>6, Numbers DEF Account
  <2> QED
    BY <1>6, <2>1, <2>2, <2>3 DEF Old
<1>7. Watch(job[w])'
  <2>1. Old(job[w], task.gen)' <=> Old(job'[w], task.gen)
    BY <1>0 DEF Old
  <2>2. (Live(task) => task.gen # 0) /\ task.gen <= task.gen
    BY Numbers DEF Account
  <2> QED
    BY <1>0, <1>1, <1>6, <2>1, <2>2 DEF Watch
<1>8. task'.gen \in GensOrNone
  BY <1>0, Numbers
<1> QED
  BY <1>0, <1>1, <1>2, <1>3, <1>5, <1>7, <1>8, QuietAccount DEF OthersStay

\* A sweep goes on.
LEMMA LooksAccount ==
  ASSUME DataOK, JobsOK, Account, Steady, NEW w \in Handlers, Looks(w)
  PROVE  Account'
<1>0. UNCHANGED <<task, age, retries, auto, faults>> /\ OthersStay(w)
  BY DEF Looks
<1>1. Watch(job[w]) /\ Sweeping(job[w]) /\ Sweeping(job'[w])
  BY DEF Looks, Account
<1>2. RightRole(job'[w]) /\ ~Committed(job'[w]) /\ ~Committed(job[w])
  BY <1>1 DEF Sweeping, RightRole, Committed, CommittedSteps, SweepSteps, DetectorSteps
<1>3. NoneCommits
  BY <1>0, <1>2 DEF OthersStay, NoneCommits
<1>4. Uncounted' = Uncounted
  BY <1>0, <1>2, UncountedBut
<1>5. Budgeted'
  BY <1>0, <1>4 DEF Account, Budgeted
<1>6. /\ job'[w].snap = job[w].snap /\ job'[w].retries = job[w].retries
      /\ job'[w].late = job[w].late /\ job'[w].pc # "reconcile"
      /\ job[w].pc # "reconcile" \/ job[w].retries = 0
  BY DEF Looks
<1>7. job'[w].pc = "rc_steal" /\ Live(job[w].snap) => age[job[w].snap.gen] >= LEASE_TTL
  <2> SUFFICES ASSUME job'[w].pc = "rc_steal", Live(job[w].snap)
               PROVE  age[job[w].snap.gen] >= LEASE_TTL
    OBVIOUS
  <2>1. ~IsLeaseLive(job[w].snap) /\ job[w].snap.gen # 0
    BY <1>1 DEF Looks, Watch
  <2>2. age[job[w].snap.gen] \in Nat
    BY <2>1, Numbers
  <2> QED
    BY <2>1, <2>2, TimeAssumption DEF IsLeaseLive, Live
<1>8. Watch(job[w])'
  <2>1. Old(job[w], task.gen)' <=> Old(job[w], task.gen)
    BY <1>0, <1>6 DEF Old
  <2> QED
    BY <1>0, <1>1, <1>3, <1>6, <1>7, <2>1 DEF Watch, NoneCommits
<1>9. task'.gen \in GensOrNone
  BY <1>0, Numbers
<1> QED
  BY <1>0, <1>2, <1>3, <1>5, <1>8, <1>9, QuietAccount DEF OthersStay

\* A steal goes through on a live claim that the sweep found dead, so an old one: nothing
\* is counted, nobody is committed, and the thief is alone.
LEMMA TakesAccount ==
  ASSUME DataOK, JobsOK, Account, Steady, NEW w \in Handlers, Takes(w)
  PROVE  Account'
<1> DEFINE g == task.gen
<1>0. /\ OthersStay(w) /\ UNCHANGED <<age, sess, retries, auto, faults>>
      /\ job[w].role = "reconcile" /\ job[w].pc = "rc_steal"
      /\ job'[w].role = "reconcile" /\ job'[w].pc = "rc_redo" /\ job'[w].late = job[w].late
  BY DEF Takes
<1>1. Live(task) /\ job[w].snap.gen = g
  BY DEF Takes, CanSteal, Live
<1>2. Watch(job[w])
  BY <1>0 DEF Account, Sweeping, SweepSteps
<1>3. g # 0 /\ g \in Gens /\ age[g] \in Nat
  BY <1>1, Numbers DEF Account
<1>4. Old(job[w], g) /\ job[w].retries = 0
  BY <1>0, <1>1, <1>2, <1>3, TimeAssumption DEF Watch, Old
<1>5. retries = 0 /\ \A v \in Handlers : ~Committed(job[v])
  BY <1>1, <1>2, <1>4 DEF Watch
<1>6. task'.gen = g /\ ~Live(task')
  BY DEF Takes, DataOK, Tasks, Live, LiveStatuses
<1>7. \A v \in Handlers : Committed(job'[v]) => v = w
  BY <1>0, <1>5 DEF OthersStay
<1>8. Uncounted = {} /\ Uncounted' = {}
  BY <1>0, <1>5, <1>7 DEF Uncounted
<1>9. Budgeted'
  <2>1. Budgeted
    BY DEF Account
  <2> QED
    BY <1>0, <1>8, <2>1 DEF Budgeted
<1>10. Alone(w)'
  BY <1>0, <1>5, <1>6, <1>7 DEF Alone
<1>11. RightRole(job'[w]) /\ ~Sweeping(job'[w])
  BY <1>0 DEF RightRole, Sweeping, CommittedSteps, SweepSteps, DetectorSteps
<1>12. ASSUME NEW v \in Handlers \ {w}, Sweeping(job'[v]) PROVE Watch(job[v])'
  <2>1. Watch(job[v]) /\ job'[v] = job[v]
    BY <1>0, <1>12 DEF Account, OthersStay
  <2> QED
    BY <1>0, <1>6, <2>1 DEF Watch
<1> QED
  BY <1>0, <1>6, <1>7, <1>9, <1>10, <1>11, <1>12 DEF Account, OthersStay

\* The sweep dispatches again: the one re-dispatch that is not counted yet.
LEMMA AgainAccount ==
  ASSUME DataOK, JobsOK, Account, Steady, task'.gen \in GensOrNone, NEW w \in Handlers, Again(w)
  PROVE  Account'
<1>0. auto \in Nat /\ retries \in Nat /\ faults \in Nat
  BY Numbers
<1>1. job[w].role = "reconcile" /\ job[w].pc = "rc_redo" /\ Committed(job[w])
  BY DEF Again, Account, RightRole, Committed, CommittedSteps
<1>2. retries' = retries /\ faults' = faults /\ (auto' = auto + 1 \/ auto' = auto)
  BY DEF Again, Redispatch
<1>3. /\ OthersStay(w) /\ job'[w].role = "reconcile" /\ job'[w].late = job[w].late
      /\ job'[w].pc \in {"check", "count"}
  <2>1. WinClaim(w, "check") \/ AfterInvoke(w)
    BY DEF Again, Redispatch
  <2> QED
    BY <1>1, <2>1, WinMoves, AfterInvokeMoves
<1>4. Committed(job'[w]) /\ RightRole(job'[w]) /\ ~Sweeping(job'[w])
  BY <1>3 DEF Committed, RightRole, Sweeping, CommittedSteps, SweepSteps, DetectorSteps
<1>5. NoneCommits
  BY <1>1, <1>3 DEF OthersStay, NoneCommits
<1>6. Uncounted = {} /\ Uncounted' # {}
  <2>1. \A v \in Handlers : Committed(job[v]) => v = w
    BY <1>1 DEF Account, Alone
  <2>2. w \in Uncounted'
    BY <1>3, <1>4 DEF Uncounted
  <2> QED
    BY <1>1, <2>1, <2>2 DEF Uncounted
<1>7. Budgeted'
  <2>1. Budgeted
    BY DEF Account
  <2> QED
    BY <1>0, <1>2, <1>6, <2>1 DEF Budgeted
<1> QED
  BY <1>2, <1>3, <1>4, <1>5, <1>7, QuietAccount DEF OthersStay

\* The count takes the place of what was uncounted; whoever watches an old live claim
\* would have known that nobody was to count.
LEMMA CountAccount ==
  ASSUME DataOK, JobsOK, Account, Steady, NEW w \in Handlers, CountRetry(w)
  PROVE  Account'
<1>0. auto \in Nat /\ retries \in Nat /\ faults \in Nat /\ task.gen \in Nat
  BY Numbers
<1>1. /\ retries' = retries + 1 /\ UNCHANGED <<task, age, sess, auto, faults>>
      /\ job[w].pc = "count" /\ job[w].role = "reconcile"
  BY DEF CountRetry, clockVars, worldVars, Account, RightRole
<1>2. OthersStay(w) /\ job'[w] = Idle
  BY FinishMoves DEF CountRetry
<1>3. Committed(job[w]) /\ w \in Uncounted
  BY <1>1 DEF Committed, CommittedSteps, Uncounted
<1>4. retries = 0 /\ \A v \in Handlers : Committed(job[v]) => v = w
  BY <1>3 DEF Account, Alone
<1>5. \A v \in Handlers : ~Committed(job'[v])
  BY <1>2, <1>4, IdlePlain DEF OthersStay, Plain
<1>6. Uncounted # {} /\ Uncounted' = {}
  BY <1>3, <1>5 DEF Uncounted
<1>7. Budgeted'
  <2>1. Budgeted
    BY DEF Account
  <2> QED
    BY <1>0, <1>1, <1>6, <2>1 DEF Budgeted
<1>8. ASSUME NEW v \in Handlers, Sweeping(job'[v]) PROVE Watch(job[v])'
  <2>1. v # w /\ job'[v] = job[v]
    BY <1>2, <1>8, IdlePlain DEF OthersStay, Plain
  <2>2. Watch(job[v])
    BY <1>8, <2>1 DEF Account
  <2>3. Old(job[v], task.gen)' <=> Old(job[v], task.gen)
    BY <1>1, <2>1 DEF Old
  <2>4. ~(job[v].retries = 0 /\ Live(task) /\ task.gen = job[v].snap.gen /\ Old(job[v], task.gen))
    BY <1>3, <2>2 DEF Watch
  <2> QED
    BY <1>1, <2>1, <2>2, <2>3, <2>4 DEF Watch
<1>9. RightRole(Idle)
  BY IdlePlain DEF Plain
<1>10. \A v \in Handlers : RightRole(job'[v])
  BY <1>2, <1>9 DEF Account, OthersStay
<1>11. retries' <= 1
  BY <1>1, <1>4
<1> QED
  BY <1>1, <1>5, <1>7, <1>8, <1>10, <1>11 DEF Account

\* Time passes when nobody is late: whoever was there then is late, and what was old for
\* it still is.
LEMMA TickAccount ==
  ASSUME DataOK, JobsOK, Account, Tick
  PROVE  Account'
<1>0. /\ UNCHANGED <<task, retries, auto, faults, sess>>
      /\ \A w \in Handlers : ~job[w].late
      /\ \A g \in Gens : age'[g] = IF g <= task.gen THEN Saturate(age[g], AgeCap) ELSE age[g]
  BY DEF Tick, worldVars
<1>1. \A w \in Handlers :
        /\ job'[w].pc = job[w].pc /\ job'[w].role = job[w].role
        /\ job'[w].snap = job[w].snap /\ job'[w].retries = job[w].retries
        /\ job[w] = Idle \/ job'[w].late
  BY DEF Tick, JobsOK, Jobs
<1>2. \A w \in Handlers : /\ Committed(job'[w]) <=> Committed(job[w])
                          /\ Sweeping(job'[w]) <=> Sweeping(job[w])
                          /\ RightRole(job'[w]) <=> RightRole(job[w])
  BY <1>1 DEF Committed, Sweeping, RightRole
<1>3. AgeCap \in Nat /\ AgeCap >= 2
  BY TimeAssumption DEF AgeCap, StaleAge, STALE_CLAIM_MULTIPLIER
<1>4. \A g \in Gens : age[g] \in Nat /\ age'[g] >= age[g] /\ age'[g] \in Nat
                      /\ (g <= task.gen => (age'[g] > 1 <=> age[g] > 0))
  BY <1>0, <1>3, Numbers DEF Saturate
<1>5. Uncounted' = Uncounted
  BY <1>1, <1>2 DEF Uncounted
<1>6. Budgeted'
  BY <1>0, <1>5 DEF Account, Budgeted
<1>7. ASSUME NEW w \in Handlers, job[w] # Idle, Live(task)
      PROVE  Old(job[w], task.gen)' <=> Old(job[w], task.gen)
  <2>1. task.gen \in Gens /\ task.gen <= task.gen
    BY <1>7, Numbers DEF Account
  <2> QED
    BY <1>0, <1>1, <1>4, <1>7, <2>1 DEF Old
<1>8. ASSUME NEW w \in Handlers, Committed(job'[w]) PROVE Alone(w)'
  <2>1. Alone(w) /\ job[w] # Idle
    BY <1>2, <1>8, IdlePlain DEF Account, Plain
  <2> QED
    BY <1>0, <1>2, <1>7, <2>1 DEF Alone
<1>9. ASSUME NEW w \in Handlers, Sweeping(job'[w]) PROVE Watch(job[w])'
  <2>1. Watch(job[w]) /\ job[w] # Idle
    BY <1>2, <1>9, IdlePlain DEF Account, Plain
  <2>2. Live(job[w].snap) => job[w].snap.gen \in Gens
    BY <2>1, Numbers DEF Watch
  <2>3. job'[w].pc = "rc_steal" /\ Live(job[w].snap) => age'[job[w].snap.gen] >= LEASE_TTL
    BY <1>1, <1>4, <2>1, <2>2, TimeAssumption DEF Watch
  <2> QED
    BY <1>0, <1>1, <1>2, <1>7, <2>1, <2>3 DEF Watch
<1> QED
  BY <1>0, <1>2, <1>6, <1>8, <1>9 DEF Account

\* Sessions, people and the end of the run leave the handlers and the counters alone.
LEMMA WorldAccount ==
  ASSUME DataOK, JobsOK, Account, Steady, task'.gen \in GensOrNone, World \/ UNCHANGED vars
  PROVE  Account'
<1>1. UNCHANGED <<job, retries, auto, faults>>
  <2>1. CASE BlockerCloses \/ PersonReadies \/ CloseRun
    BY <2>1 DEF BlockerCloses, PersonReadies, CloseRun
  <2>2. CASE \E g \in Gens : Beat(g) \/ SessionDies(g) \/ SessionCompletes(g) \/ SessionParks(g)
    BY <2>2 DEF Beat, SessionDies, SessionCompletes, SessionParks
  <2> QED
    BY <2>1, <2>2 DEF World, vars
<1>2. NoneCommits
  BY <1>1 DEF NoneCommits
<1>3. Uncounted' = Uncounted
  BY <1>1 DEF Uncounted
<1>4. Budgeted'
  BY <1>1, <1>3 DEF Account, Budgeted
<1> QED
  BY <1>1, <1>2, <1>4, QuietAccount

\* Every step keeps the account.
LEMMA AccountInductive ==
  ASSUME DetectorSilent
  PROVE  TypeOK /\ TypeOK' /\ Account /\ [Next]_vars => Account'
<1> SUFFICES ASSUME TypeOK, TypeOK', Account, [Next]_vars PROVE Account'
  OBVIOUS
<1>1. /\ DataOK /\ JobsOK /\ faults' \in Nat /\ task'.gen \in GensOrNone
      /\ Live(task) => task.gen # 0
  BY TypeParts DEF TypeOK, Tasks, Account
<1>2. CASE Tick
  BY <1>1, <1>2, TickAccount
<1>3. CASE ~Tick
  <2>1. Steady
    BY <1>1, <1>3, Kinds, StepsSteady
  <2>2. CASE World \/ UNCHANGED vars
    BY <1>1, <2>1, <2>2, WorldAccount
  <2>3. CASE \E w \in Handlers : Begin(w) \/ Continue(w) \/ Crash(w)
    <3>1. PICK w \in Handlers : Begin(w) \/ Continue(w) \/ Crash(w)
      BY <2>3
    <3>2. Shapes(w)
      BY <1>1, <3>1, HandlerShapes
    <3> QED
      BY <1>1, <2>1, <3>2, AsideAccount, ScanAccount, LooksAccount, TakesAccount,
         AgainAccount, CountAccount DEF Shapes
  <2> QED
    BY <1>3, <2>2, <2>3 DEF Next
<1> QED
  BY <1>2, <1>3

\* The initial states satisfy the account.
LEMMA AccountInit == Init => Account
<1> SUFFICES ASSUME Init PROVE Account
  OBVIOUS
<1>1. \A w \in Handlers : RightRole(job[w]) /\ ~Committed(job[w]) /\ ~Sweeping(job[w])
  BY IdlePlain DEF Init, Plain
<1>2. Uncounted = {}
  BY <1>1 DEF Uncounted
<1>3. retries = 0 /\ auto = 0 /\ faults = 0 /\ ~Live(task) /\ \A g \in Gens : sess[g] # "exhausted"
  BY DEF Init, Live, LiveStatuses
<1>4. Budgeted
  BY <1>2, <1>3 DEF Budgeted
<1> QED
  BY <1>1, <1>3, <1>4 DEF Account

\* The reconcile sweep's budget, next to a detector that writes nothing: whatever sweeps
\* overlap, a ticket is re-dispatched automatically at most twice between two decisions of
\* a person, plus once for every handler that dies or fails on the way.  Two sweeps that
\* saw the same claim before anything was counted cannot both go through, since whoever
\* stole it makes every later claim younger than a sweep may be late.
THEOREM BudgetCorrect ==
    ASSUME DetectorSilent PROVE Spec => []RetryBudget
<1>1. TypeOK /\ Account => RetryBudget
  <2> SUFFICES ASSUME TypeOK, Account PROVE RetryBudget
    OBVIOUS
  <2>1. auto \in Nat /\ retries \in Nat /\ faults \in Nat
    BY DEF TypeOK
  <2>2. Budgeted /\ retries <= 1
    BY DEF Account
  <2> QED
    BY <2>1, <2>2 DEF Budgeted, RetryBudget
<1>2. TypeOK /\ TypeOK' /\ Account /\ [Next]_vars => Account'
  BY AccountInductive
<1> QED
  BY <1>1, <1>2, AccountInit, TypeCorrect, PTL DEF Spec

-------------------------------------------------------------------------------
(* 2. The retry budget in every mode, while sweeps do not overlap *)

\* No two sweeps of the ticket are in flight at once, nor a sweep and the wake that a
\* person's decision starts.  Everybody else may be.
SweepRoles == {"detector", "reconcile"}
SweepsApart ==
  \A w \in Handlers : job[w].role \in SweepRoles =>
    \A v \in Handlers \ {w} : job[v].role \notin SweepRoles /\ job[v].pc # "wake"

DetectingSteps == {"detect", "stamp", "recheck", "clear", "steal", "decide"}
InvokingSteps == {"check", "send", "release", "park_ticket"}
EscalatingSteps == {"error", "block", "page"}

\* Whose steps are whose.
KnownRole(j) ==
  /\ j.pc \in DetectingSteps \cup {"redo"} => j.role = "detector"
  /\ j.pc \in SweepSteps \cup {"rc_redo", "count"} => j.role = "reconcile"
  /\ j.role = "detector" =>
       j.pc \in DetectingSteps \cup {"redo"} \cup InvokingSteps \cup EscalatingSteps
  /\ j.role = "reconcile" => j.pc \in SweepSteps \cup CommittedSteps \cup EscalatingSteps

\* A sweep that has yet to decide has read the counter as it is; the reconcile sweep goes
\* on to its steal, its dispatch and its count only when nothing is counted.
ReadsRight(j, n) ==
  /\ KnownRole(j)
  /\ j.pc \in DetectingSteps \cup SweepSteps => j.retries = n
  /\ j.role = "reconcile" /\ j.pc \in {"rc_recheck", "rc_steal"} \cup CommittedSteps => n = 0

\* Counted and not yet dispatched, for the detector; dispatched and not yet counted, for
\* the reconcile sweep.
Owing(w) == job[w].pc = "redo"
Owed(w) == Committed(job[w]) /\ job[w].pc # "rc_redo"

Ledger ==
  /\ retries <= 2
  /\ \A w \in Handlers : ReadsRight(job[w], retries)
  /\ auto + (IF \E w \in Handlers : Owing(w) THEN 1 ELSE 0)
       <= retries + faults + (IF \E w \in Handlers : Owed(w) THEN 1 ELSE 0)

\* A step that decides, dispatches and counts nothing: it keeps what is owed, or dies.
Passes(w) ==
  /\ OthersStay(w) /\ UNCHANGED <<retries, auto>> /\ faults' \in {faults, faults + 1}
  /\ ReadsRight(job'[w], retries) /\ job'[w].pc # "redo"
  /\ Owed(w) => Owed(w)' \/ faults' = faults + 1
  /\ Owed(w)' => Owed(w)

\* What each step has to show: where it leads, the handler reads right.
LEMMA PassesBy ==
  ASSUME NEW w \in Handlers, OthersStay(w), UNCHANGED <<retries, auto>>,
         faults' \in {faults, faults + 1}, ReadsRight(job'[w], retries), job'[w].pc # "redo",
         Owed(w) => Owed(w)' \/ faults' = faults + 1, Owed(w)' => Owed(w)
  PROVE  Passes(w)
  BY DEF Passes

\* A handler at rest has read nothing that could be wrong.
LEMMA ReadsIdle == ASSUME NEW n PROVE ReadsRight(Idle, n)
  BY DEF ReadsRight, KnownRole, Idle, DetectingSteps, SweepSteps

\* Returning is all right where nothing is owed.
LEMMA FinishPasses ==
  ASSUME JobsOK, NEW w \in Handlers, Finish(w), ~Owed(w) \/ faults' = faults + 1,
         UNCHANGED <<retries, auto>>, faults' \in {faults, faults + 1}
  PROVE  Passes(w)
<1>1. OthersStay(w) /\ job'[w] = Idle /\ Idle.pc = "idle" /\ Idle.role = "none"
  BY FinishMoves
<1>2. ~Owed(w)'
  BY <1>1 DEF Owed, Committed
<1> QED
  BY <1>1, <1>2, ReadsIdle, PassesBy

\* A dispatch goes on, or is over: for the reconcile sweep, not before its count.
LEMMA InvokePasses ==
  ASSUME JobsOK, NEW w \in Handlers, ReadsRight(job[w], retries), job[w].pc \in InvokingSteps,
         AfterInvoke(w) \/ \E pc \in InvokingSteps : Go(w, pc),
         UNCHANGED <<retries, auto>>, faults' \in {faults, faults + 1}
  PROVE  Passes(w)
<1>1. \/ /\ OthersStay(w) /\ job'[w].pc \in InvokingSteps \cup {"count"}
         /\ job'[w].role = job[w].role
         /\ job'[w].pc = "count" => job[w].role = "reconcile"
      \/ OthersStay(w) /\ job'[w] = Idle /\ job[w].role # "reconcile"
  <2>1. CASE AfterInvoke(w) /\ job[w].role = "reconcile"
    BY <2>1, AfterInvokeMoves
  <2>2. CASE AfterInvoke(w) /\ job[w].role # "reconcile"
    BY <2>2, AfterInvokeMoves
  <2>3. ASSUME NEW pc \in InvokingSteps, Go(w, pc)
        PROVE  OthersStay(w) /\ job'[w].pc \in InvokingSteps /\ job'[w].role = job[w].role
    BY <2>3, GoMoves
  <2> QED
    BY <2>1, <2>2, <2>3 DEF InvokingSteps
<1>2. CASE OthersStay(w) /\ job'[w] = Idle /\ job[w].role # "reconcile"
  <2>1. ~Owed(w) /\ ~Owed(w)' /\ job'[w].pc # "redo"
    BY <1>2, IdlePlain DEF Owed, Committed, Plain, Idle
  <2> QED
    BY <1>2, <2>1, ReadsIdle, PassesBy
<1>3. CASE /\ OthersStay(w) /\ job'[w].pc \in InvokingSteps \cup {"count"}
           /\ job'[w].role = job[w].role
           /\ job'[w].pc = "count" => job[w].role = "reconcile"
  <2>1. Owed(w) <=> Owed(w)'
    BY <1>3 DEF Owed, Committed, CommittedSteps, InvokingSteps
  <2>2. ReadsRight(job'[w], retries)
    BY <1>3
    DEF ReadsRight, KnownRole, CommittedSteps, InvokingSteps, DetectingSteps, SweepSteps,
        EscalatingSteps
  <2> QED
    BY <1>3, <2>1, <2>2, PassesBy DEF InvokingSteps
<1> QED
  BY <1>1, <1>2, <1>3

\* Other steps on: nothing is owed before or after.
LEMMA GoPasses ==
  ASSUME JobsOK, NEW w \in Handlers, ReadsRight(job[w], retries), NEW pc, Go(w, pc),
         job[w].pc \notin CommittedSteps, pc # "redo",
         \/ pc \in {"stamp", "recheck", "clear", "steal", "decide"} /\ job[w].pc \in DetectingSteps
         \/ pc \in {"rc_recheck", "rc_steal"} /\ job[w].pc \in SweepSteps /\ job[w].retries = 0
         \/ pc = "rc_redo" /\ job[w].pc = "rc_steal"
         \/ pc \in EscalatingSteps /\ job[w].role \in SweepRoles
         \/ pc \in EscalatingSteps /\ job[w].pc \in EscalatingSteps
         \/ pc \in {"check", "wake_steal"} /\ job[w].role \notin SweepRoles,
         UNCHANGED <<retries, auto>>, faults' \in {faults, faults + 1}
  PROVE  Passes(w)
<1>1. /\ OthersStay(w) /\ job'[w].pc = pc /\ job'[w].role = job[w].role
      /\ job'[w].retries = job[w].retries
  BY GoMoves
<1>2. ~Owed(w)
  BY DEF Owed, Committed
<1>3. ~Owed(w)'
  BY <1>1
  DEF Owed, Committed, ReadsRight, KnownRole, CommittedSteps, SweepRoles, EscalatingSteps,
      DetectingSteps, SweepSteps
<1>4. ReadsRight(job'[w], retries)
  BY <1>1
  DEF ReadsRight, KnownRole, CommittedSteps, SweepRoles, EscalatingSteps, DetectingSteps,
      SweepSteps, InvokingSteps
<1> QED
  BY <1>1, <1>2, <1>3, <1>4, PassesBy

\* A new invocation has read what there is.
LEMMA BeginPasses ==
  ASSUME DataOK, JobsOK, NEW w \in Handlers, Begin(w), ~WakeAfterDecision(w)
  PROVE  Passes(w)
<1>0. Fresh \in Jobs
  BY FreshJob
<1>1. job[w] = Idle /\ ~Owed(w)
  BY BeginMoves, IdlePlain DEF Owed, Plain
<1>2. ASSUME NEW j, job' = [job EXCEPT ![w] = j], UNCHANGED <<retries, auto>>,
             faults' \in {faults, faults + 1},
             \/ j.pc \in {"claim", "announce", "park_steal"} /\ j.role \notin SweepRoles
             \/ j.pc = "detect" /\ j.role = "detector" /\ j.retries = retries
             \/ j.pc = "reconcile" /\ j.role = "reconcile" /\ j.retries = retries
      PROVE  Passes(w)
  <2>1. OthersStay(w) /\ job'[w] = j
    BY <1>2, ReplacedMoves
  <2>2. ReadsRight(j, retries) /\ j.pc # "redo"
    BY <1>2
    DEF ReadsRight, KnownRole, CommittedSteps, SweepRoles, DetectingSteps, SweepSteps
  <2>3. ~Owed(w)'
    BY <1>2, <2>1 DEF Owed, Committed, CommittedSteps
  <2> QED
    BY <1>1, <1>2, <2>1, <2>2, <2>3, PassesBy
<1>3. ASSUME UNCHANGED <<job, retries, auto>>, faults' \in {faults, faults + 1} PROVE Passes(w)
  BY <1>1, <1>3, ReadsIdle, PassesBy DEF OthersStay, Owed, Idle
<1>4. CASE StartReady(w)
  <2>1. \E j : j.pc = "claim" /\ j.role = "ready" /\ job' = [job EXCEPT ![w] = j]
    BY <1>0, <1>4 DEF StartReady, Jobs
  <2> QED
    BY <1>2, <1>4, <2>1 DEF StartReady, Deliver, Fault, SweepRoles
<1>5. CASE DetectorScan(w)
  <2>1. \E j : /\ j.pc = "detect" /\ j.role = "detector" /\ j.retries = retries
               /\ job' = [job EXCEPT ![w] = j]
    BY <1>0, <1>5 DEF DetectorScan, Scan, Jobs
  <2> QED
    BY <1>2, <1>5, <2>1 DEF DetectorScan, Scan
<1>6. CASE ReconcileScan(w)
  <2>1. \E j : /\ j.pc = "reconcile" /\ j.role = "reconcile" /\ j.retries = retries
               /\ job' = [job EXCEPT ![w] = j]
    BY <1>0, <1>6 DEF ReconcileScan, Scan, Jobs
  <2> QED
    BY <1>2, <1>6, <2>1 DEF ReconcileScan, Scan
<1>7. CASE ReceiveDone(w)
  <2>1. \/ UNCHANGED job
        \/ \E j : j.pc = "announce" /\ j.role = "done" /\ job' = [job EXCEPT ![w] = j]
    BY <1>0, <1>7 DEF ReceiveDone, Jobs
  <2>2. UNCHANGED <<retries, auto>> /\ faults' \in {faults, faults + 1}
    BY <1>7 DEF ReceiveDone, Deliver, Fault
  <2> QED
    BY <1>2, <1>3, <2>1, <2>2 DEF SweepRoles
<1>8. CASE \E g \in Gens : ReceivePark(w, g)
  <2>1. \/ UNCHANGED job
        \/ \E j : j.pc = "park_steal" /\ j.role = "park" /\ job' = [job EXCEPT ![w] = j]
    BY <1>0, <1>8 DEF ReceivePark, Jobs
  <2>2. UNCHANGED <<retries, auto>> /\ faults' \in {faults, faults + 1}
    BY <1>8 DEF ReceivePark, Deliver, Fault
  <2> QED
    BY <1>2, <1>3, <2>1, <2>2 DEF SweepRoles
<1> QED
  BY <1>4, <1>5, <1>6, <1>7, <1>8 DEF Begin

\* The dispatch, up to its end.
LEMMA DispatchPasses ==
  ASSUME DataOK, JobsOK, NEW w \in Handlers, ReadsRight(job[w], retries)
  PROVE  /\ ReadyClaim(w) \/ MoveInProgress(w) \/ MoveRefused(w) \/ MoveUnavailable(w) => Passes(w)
         /\ CheckStillLive(w) \/ Send(w) \/ SendFails(w) => Passes(w)
         /\ ReleaseOnFailure(w) \/ ParkAfterFailure(w) => Passes(w)
<1>0. /\ Fault \/ UNCHANGED faults => faults' \in {faults, faults + 1}
      /\ job[w].pc \in {"claim", "board"} => ~Owed(w) /\ job[w].role \notin SweepRoles
  BY DEF Fault, Owed, Committed, CommittedSteps, ReadsRight, KnownRole, SweepRoles,
         DetectingSteps, InvokingSteps, EscalatingSteps, SweepSteps
<1>1. ASSUME ReadyClaim(w) PROVE Passes(w)
  <2>1. /\ job[w].pc = "claim" /\ UNCHANGED <<retries, auto>> /\ faults' \in {faults, faults + 1}
        /\ ~Owed(w) /\ job[w].role \notin SweepRoles
    BY <1>0, <1>1 DEF ReadyClaim
  <2>2. CASE Finish(w)
    BY <2>1, <2>2, FinishPasses
  <2>3. CASE WinClaim(w, "board")
    <3>1. OthersStay(w) /\ job'[w].pc = "board" /\ job'[w].role = job[w].role
      BY <2>3, WinMoves
    <3>2. ReadsRight(job'[w], retries) /\ ~Owed(w)'
      BY <2>1, <3>1
      DEF ReadsRight, KnownRole, SweepRoles, Owed, Committed, CommittedSteps, DetectingSteps,
          SweepSteps
    <3> QED
      BY <2>1, <3>1, <3>2, PassesBy
  <2> QED
    BY <1>1, <2>2, <2>3 DEF ReadyClaim
<1>2. ASSUME MoveInProgress(w) PROVE Passes(w)
  <2>1. /\ job[w].pc = "board" /\ job[w].role \notin SweepRoles /\ Go(w, "check")
        /\ UNCHANGED <<retries, auto>> /\ faults' \in {faults, faults + 1}
    BY <1>0, <1>2 DEF MoveInProgress
  <2> QED
    BY <2>1, GoPasses DEF CommittedSteps
<1>3. ASSUME MoveRefused(w) PROVE Passes(w)
  BY <1>0, <1>3, FinishPasses DEF MoveRefused
<1>4. ASSUME MoveUnavailable(w) PROVE Passes(w)
  <2>1. /\ job[w].pc = "board" /\ ~Owed(w) /\ job[w].role \notin SweepRoles
        /\ UNCHANGED <<retries, auto>> /\ faults' \in {faults, faults + 1}
    BY <1>0, <1>4 DEF MoveUnavailable
  <2>2. Finish(w) \/ Go(w, "check")
    BY <1>4 DEF MoveUnavailable
  <2> QED
    BY <2>1, <2>2, FinishPasses, GoPasses DEF CommittedSteps
<1>5. ASSUME CheckStillLive(w) PROVE Passes(w)
  <2>1. /\ job[w].pc = "check" /\ UNCHANGED <<retries, auto>>
        /\ faults' \in {faults, faults + 1} /\ (Go(w, "send") \/ AfterInvoke(w))
    BY <1>0, <1>5 DEF CheckStillLive
  <2> QED
    BY <2>1, InvokePasses DEF InvokingSteps
<1>6. ASSUME Send(w) PROVE Passes(w)
  BY <1>6, InvokePasses DEF Send, InvokingSteps
<1>7. ASSUME SendFails(w) PROVE Passes(w)
  BY <1>0, <1>7, InvokePasses DEF SendFails, InvokingSteps
<1>8. ASSUME ReleaseOnFailure(w) PROVE Passes(w)
  BY <1>8, InvokePasses DEF ReleaseOnFailure, InvokingSteps
<1>9. ASSUME ParkAfterFailure(w) PROVE Passes(w)
  <2>1. faults' \in {faults, faults + 1}
    BY <1>0, <1>9 DEF ParkAfterFailure, ParkOnBoard
  <2> QED
    BY <1>9, <2>1, InvokePasses DEF ParkAfterFailure, InvokingSteps
<1> QED
  BY <1>1, <1>2, <1>3, <1>4, <1>5, <1>6, <1>7, <1>8, <1>9

\* The detector, up to its decision.
LEMMA DetectorPasses ==
  ASSUME DataOK, JobsOK, NEW w \in Handlers, ReadsRight(job[w], retries)
  PROVE  /\ RedriveStalled(w) \/ FindResidue(w) \/ FindDead(w) \/ SkipCandidate(w) => Passes(w)
         /\ Stamp(w) \/ Recheck(w) \/ ClearStamp(w) \/ DetectorSteal(w) => Passes(w)
         /\ EscalateError(w) \/ EscalateBlock(w) \/ EscalatePage(w) => Passes(w)
<1>0. /\ Fault \/ UNCHANGED faults => faults' \in {faults, faults + 1}
      /\ job[w].pc \in DetectingSteps \cup EscalatingSteps =>
           ~Owed(w) /\ job[w].pc \notin CommittedSteps
  BY DEF Fault, Owed, Committed, CommittedSteps, DetectingSteps, EscalatingSteps
<1>1. ASSUME RedriveStalled(w) PROVE Passes(w)
  <2>1. /\ OthersStay(w) /\ job'[w].pc = "decide" /\ job'[w].role = job[w].role
        /\ job'[w].retries = retries
    BY <1>1 DEF RedriveStalled, JobsOK, Jobs, OthersStay
  <2>2. job[w].pc = "detect" /\ UNCHANGED <<retries, auto, faults>>
    BY <1>1 DEF RedriveStalled, unchangedByDetect
  <2>3. ReadsRight(job'[w], retries) /\ ~Owed(w) /\ ~Owed(w)'
    BY <1>0, <2>1, <2>2
    DEF ReadsRight, KnownRole, Owed, Committed, CommittedSteps, DetectingSteps, SweepSteps
  <2> QED
    BY <2>1, <2>2, <2>3, PassesBy
<1>2. ASSUME FindDead(w) PROVE Passes(w)
  <2>1. /\ OthersStay(w) /\ job'[w].pc \in {"recheck", "stamp"} /\ job'[w].role = job[w].role
        /\ job'[w].retries = job[w].retries
    BY <1>2 DEF FindDead, JobsOK, Jobs, OthersStay
  <2>2. job[w].pc = "detect" /\ UNCHANGED <<retries, auto, faults>>
    BY <1>2 DEF FindDead, unchangedByDetect
  <2>3. ReadsRight(job'[w], retries) /\ ~Owed(w) /\ ~Owed(w)'
    BY <1>0, <2>1, <2>2
    DEF ReadsRight, KnownRole, Owed, Committed, CommittedSteps, DetectingSteps, SweepSteps
  <2> QED
    BY <2>1, <2>2, <2>3, PassesBy
<1>3. ASSUME FindResidue(w) PROVE Passes(w)
  BY <1>0, <1>3, GoPasses DEF FindResidue, unchangedByDetect, DetectingSteps
<1>4. ASSUME SkipCandidate(w) PROVE Passes(w)
  BY <1>0, <1>4, FinishPasses DEF SkipCandidate, unchangedByDetect, DetectingSteps
<1>5. ASSUME Stamp(w) PROVE Passes(w)
  <2>1. job[w].pc = "stamp" /\ UNCHANGED <<retries, auto, faults>> /\ (Finish(w) \/ Go(w, "recheck"))
    BY <1>5 DEF Stamp
  <2> QED
    BY <1>0, <2>1, FinishPasses, GoPasses DEF DetectingSteps
<1>6. ASSUME Recheck(w) PROVE Passes(w)
  <2>1. /\ job[w].pc = "recheck" /\ UNCHANGED <<retries, auto, faults>>
        /\ Go(w, "clear") \/ Go(w, "steal")
    BY <1>6 DEF Recheck, unchangedByDetect
  <2> QED
    BY <1>0, <2>1, GoPasses DEF DetectingSteps
<1>7. ASSUME ClearStamp(w) PROVE Passes(w)
  BY <1>0, <1>7, FinishPasses DEF ClearStamp, DetectingSteps
<1>8. ASSUME DetectorSteal(w) PROVE Passes(w)
  <2>1. job[w].pc = "steal" /\ UNCHANGED <<retries, auto, faults>> /\ (Finish(w) \/ Go(w, "decide"))
    BY <1>8 DEF DetectorSteal, Steal
  <2> QED
    BY <1>0, <2>1, FinishPasses, GoPasses DEF DetectingSteps
<1>9. ASSUME EscalateError(w) PROVE Passes(w)
  BY <1>0, <1>9, GoPasses DEF EscalateError, EscalatingSteps
<1>10. ASSUME EscalateBlock(w) PROVE Passes(w)
  <2>1. faults' \in {faults, faults + 1}
    BY <1>0, <1>10 DEF EscalateBlock, ParkOnBoard
  <2> QED
    BY <1>0, <1>10, <2>1, GoPasses DEF EscalateBlock, EscalatingSteps
<1>11. ASSUME EscalatePage(w) PROVE Passes(w)
  BY <1>0, <1>11, FinishPasses DEF EscalatePage, EscalatingSteps
<1> QED
  BY <1>1, <1>2, <1>3, <1>4, <1>5, <1>6, <1>7, <1>8, <1>9, <1>10, <1>11

\* The reconcile sweep, up to its re-dispatch.
LEMMA ReconcilePasses ==
  ASSUME DataOK, JobsOK, NEW w \in Handlers, ReadsRight(job[w], retries)
  PROVE  Reconcile(w) \/ ReconcileRecheck(w) \/ ReconcileSteal(w) => Passes(w)
<1>0. job[w].pc \in SweepSteps => ~Owed(w) /\ job[w].role = "reconcile" /\ job[w].pc \notin CommittedSteps
  BY DEF Owed, Committed, CommittedSteps, SweepSteps, ReadsRight, KnownRole
<1>1. ASSUME Reconcile(w) PROVE Passes(w)
  <2>1. /\ job[w].pc = "reconcile" /\ job[w].pc \in SweepSteps
        /\ UNCHANGED <<retries, auto, faults>> /\ faults' \in {faults, faults + 1}
    BY <1>1 DEF Reconcile, unchangedByDetect, SweepSteps
  <2>2. CASE Finish(w)
    BY <1>0, <2>1, <2>2, FinishPasses
  <2>3. CASE job' = [job EXCEPT ![w].pc = "claim", ![w].role = "redrive",
                                ![w].recovery = board \in {"todo", "blocked"}]
    <3>1. OthersStay(w) /\ job'[w].pc = "claim" /\ job'[w].role = "redrive"
      BY <2>3 DEF JobsOK, Jobs, OthersStay
    <3>2. ReadsRight(job'[w], retries) /\ ~Owed(w)' /\ job'[w].pc # "redo"
      BY <3>1 DEF ReadsRight, KnownRole, Owed, Committed, CommittedSteps, DetectingSteps, SweepSteps
    <3> QED
      BY <1>0, <2>1, <3>1, <3>2, PassesBy
  <2>4. CASE Go(w, "rc_recheck") /\ job[w].retries = 0
    BY <1>0, <2>1, <2>4, GoPasses
  <2>5. CASE Go(w, "error")
    BY <1>0, <2>1, <2>5, GoPasses DEF SweepRoles, EscalatingSteps
  <2>6. \/ Finish(w) \/ Go(w, "error") \/ (Go(w, "rc_recheck") /\ job[w].retries = 0)
        \/ job' = [job EXCEPT ![w].pc = "claim", ![w].role = "redrive",
                              ![w].recovery = board \in {"todo", "blocked"}]
    <3>1. CASE ~Recoverable(w)
      BY <1>1, <3>1 DEF Reconcile
    <3>2. CASE Recoverable(w) /\ board # "in_progress"
      BY <1>1, <3>2 DEF Reconcile
    <3>3. CASE Recoverable(w) /\ board = "in_progress" /\ job[w].retries = 0
      BY <1>1, <3>3 DEF Reconcile
    <3>4. CASE Recoverable(w) /\ board = "in_progress" /\ job[w].retries # 0
      BY <1>1, <3>4 DEF Reconcile
    <3> QED
      BY <3>1, <3>2, <3>3, <3>4
  <2> QED
    BY <2>2, <2>3, <2>4, <2>5, <2>6
<1>2. ASSUME ReconcileRecheck(w) PROVE Passes(w)
  <2>1. /\ job[w].pc = "rc_recheck" /\ job[w].pc \in SweepSteps
        /\ UNCHANGED <<retries, auto, faults>> /\ faults' \in {faults, faults + 1}
        /\ Finish(w) \/ Go(w, "rc_steal")
    BY <1>2 DEF ReconcileRecheck, unchangedByDetect, SweepSteps
  <2>2. job[w].retries = 0
    BY <1>0, <2>1 DEF ReadsRight
  <2> QED
    BY <1>0, <2>1, <2>2, FinishPasses, GoPasses
<1>3. ASSUME ReconcileSteal(w) PROVE Passes(w)
  <2>1. /\ job[w].pc = "rc_steal" /\ job[w].pc \in SweepSteps
        /\ UNCHANGED <<retries, auto, faults>> /\ faults' \in {faults, faults + 1}
        /\ Finish(w) \/ Go(w, "rc_redo")
    BY <1>3 DEF ReconcileSteal, Steal, SweepSteps
  <2> QED
    BY <1>0, <2>1, FinishPasses, GoPasses
<1> QED
  BY <1>1, <1>2, <1>3

\* Everything else a handler does, and its death.
LEMMA OtherPasses ==
  ASSUME DataOK, JobsOK, NEW w \in Handlers, ReadsRight(job[w], retries)
  PROVE  /\ ReleaseParked(w) \/ WakeCheck(w) \/ WakeSteal(w) \/ AnnounceDone(w) => Passes(w)
         /\ Crash(w) => Passes(w)
<1>0. /\ Fault \/ UNCHANGED faults => faults' \in {faults, faults + 1}
      /\ job[w].pc \in {"park_steal", "wake", "wake_steal", "announce"} =>
           ~Owed(w) /\ job[w].role \notin SweepRoles /\ job[w].pc \notin CommittedSteps
  BY DEF Fault, Owed, Committed, CommittedSteps, ReadsRight, KnownRole, SweepRoles,
         DetectingSteps, InvokingSteps, EscalatingSteps, SweepSteps
<1>1. ASSUME ReleaseParked(w) PROVE Passes(w)
  BY <1>0, <1>1, FinishPasses DEF ReleaseParked
<1>2. ASSUME WakeCheck(w) PROVE Passes(w)
  <2>1. /\ job[w].pc = "wake" /\ UNCHANGED <<retries, auto, faults>>
        /\ Finish(w) \/ Go(w, "wake_steal")
    BY <1>2 DEF WakeCheck, unchangedByDetect
  <2> QED
    BY <1>0, <2>1, FinishPasses, GoPasses
<1>3. ASSUME WakeSteal(w) PROVE Passes(w)
  <2>1. /\ job[w].pc = "wake_steal" /\ UNCHANGED <<retries, auto>>
        /\ faults' \in {faults, faults + 1}
    BY <1>0, <1>3 DEF WakeSteal
  <2>2. CASE Finish(w)
    BY <1>0, <2>1, <2>2, FinishPasses
  <2>3. CASE job' = [job EXCEPT ![w].pc = "claim", ![w].recovery = board \in {"todo", "blocked"}]
    <3>1. OthersStay(w) /\ job'[w].pc = "claim" /\ job'[w].role = job[w].role
      BY <2>3 DEF JobsOK, Jobs, OthersStay
    <3>2. ReadsRight(job'[w], retries) /\ ~Owed(w)' /\ job'[w].pc # "redo"
      BY <1>0, <2>1, <3>1
      DEF ReadsRight, KnownRole, SweepRoles, Owed, Committed, CommittedSteps, DetectingSteps,
          SweepSteps
    <3> QED
      BY <1>0, <2>1, <3>1, <3>2, PassesBy
  <2> QED
    BY <1>3, <2>2, <2>3 DEF WakeSteal
<1>4. ASSUME AnnounceDone(w) PROVE Passes(w)
  BY <1>0, <1>4, FinishPasses DEF AnnounceDone
<1>5. ASSUME Crash(w) PROVE Passes(w)
  BY <1>5, FinishPasses DEF Crash, Fault
<1> QED
  BY <1>1, <1>2, <1>3, <1>4, <1>5

\* What a handler does beside deciding, dispatching again and counting.
LEMMA HandlerPasses ==
  ASSUME DataOK, JobsOK, NEW w \in Handlers, ReadsRight(job[w], retries),
         Begin(w) \/ Continue(w) \/ Crash(w)
  PROVE  \/ Passes(w) \/ Decide(w) \/ Redispatch(w) \/ CountRetry(w) \/ WakeAfterDecision(w)
  BY BeginPasses, DispatchPasses, DetectorPasses, ReconcilePasses, OtherPasses DEF Continue

\* A handler outside the sweeps owes nothing, and knows nothing of the counter.
LEMMA ReadsAnything ==
  ASSUME NEW j, NEW n, ReadsRight(j, n), j.role \notin SweepRoles
  PROVE  ~Committed(j) /\ j.pc # "redo" /\ \A m : ReadsRight(j, m)
  BY DEF ReadsRight, KnownRole, Committed, SweepRoles, DetectingSteps, SweepSteps

\* While a sweep is at work no other handler owes anything, whatever the sweep counts.
LEMMA OthersOweNothing ==
  ASSUME Ledger, NEW w \in Handlers, OthersStay(w),
         \A v \in Handlers \ {w} : job[v].role \notin SweepRoles
  PROVE  \A v \in Handlers \ {w} : /\ ~Owing(v) /\ ~Owed(v) /\ ~Owing(v)' /\ ~Owed(v)'
                                   /\ \A m : ReadsRight(job'[v], m)
<1> SUFFICES ASSUME NEW v \in Handlers \ {w}
             PROVE  /\ ~Owing(v) /\ ~Owed(v) /\ ~Owing(v)' /\ ~Owed(v)'
                    /\ \A m : ReadsRight(job'[v], m)
  OBVIOUS
<1>1. job'[v] = job[v] /\ job[v].role \notin SweepRoles /\ ReadsRight(job[v], retries)
  BY DEF OthersStay, Ledger
<1>2. ~Committed(job[v]) /\ job[v].pc # "redo" /\ \A m : ReadsRight(job[v], m)
  BY <1>1, ReadsAnything
<1> QED
  BY <1>1, <1>2 DEF Owing, Owed

\* A step that passes keeps the ledger.
LEMMA PassesLedger ==
  ASSUME DataOK, JobsOK, Ledger, NEW w \in Handlers, Passes(w)
  PROVE  Ledger'
<1>0. /\ auto \in Nat /\ retries \in Nat /\ faults \in Nat
      /\ auto' = auto /\ retries' = retries /\ (faults' = faults \/ faults' = faults + 1)
  BY Numbers DEF Passes
<1>1. \A v \in Handlers \ {w} : job'[v] = job[v]
  BY DEF Passes, OthersStay
<1>2. \A v \in Handlers : ReadsRight(job'[v], retries')
  BY <1>0, <1>1 DEF Passes, Ledger
<1>3. (\E v \in Handlers : Owing(v)') => \E v \in Handlers : Owing(v)
  BY <1>1 DEF Passes, Owing
<1>4. (\E v \in Handlers : Owed(v)) => (\E v \in Handlers : Owed(v)') \/ faults' = faults + 1
  BY <1>1 DEF Passes, Owed
<1> DEFINE a == IF \E v \in Handlers : Owing(v) THEN 1 ELSE 0
           b == IF \E v \in Handlers : Owing(v)' THEN 1 ELSE 0
           c == IF \E v \in Handlers : Owed(v) THEN 1 ELSE 0
           d == IF \E v \in Handlers : Owed(v)' THEN 1 ELSE 0
<1>5. auto + a <= retries + faults + c
  BY DEF Ledger
<1>6. {a, b, c, d} \subseteq Nat /\ b <= a /\ c <= d + 1 /\ (c <= d \/ faults' = faults + 1)
  BY <1>3, <1>4
<1> HIDE DEF a, b, c, d
<1>7. auto' + b <= retries' + faults' + d
  BY <1>0, <1>5, <1>6
<1>8. retries' <= 2
  BY <1>0 DEF Ledger
<1> USE DEF b, d
<1> QED
  BY <1>2, <1>7, <1>8 DEF Ledger

\* The detector decides: it counts what it is about to dispatch.
LEMMA DecideLedger ==
  ASSUME DataOK, JobsOK, Ledger, SweepsApart, NEW w \in Handlers, Decide(w)
  PROVE  Ledger'
<1>0. /\ auto \in Nat /\ retries \in Nat /\ faults \in Nat
      /\ job[w].pc = "decide" /\ UNCHANGED <<auto, faults>>
  BY Numbers DEF Decide
<1>1. ReadsRight(job[w], retries) /\ job[w].role = "detector" /\ job[w].retries = retries
  BY <1>0 DEF Ledger, ReadsRight, KnownRole, DetectingSteps
<1>2. \A v \in Handlers \ {w} : job[v].role \notin SweepRoles
  BY <1>1 DEF SweepsApart, SweepRoles
<1>3. CASE job[w].retries <= 1
  <2>1. /\ OthersStay(w) /\ job'[w].pc = "redo" /\ job'[w].role = "detector"
        /\ retries' = retries + 1
    BY <1>1, <1>3, GoMoves DEF Decide
  <2>2. \A v \in Handlers : ~Owing(v) /\ ~Owed(v)
    BY <1>0, <1>2, <2>1, OthersOweNothing DEF Owing, Owed, Committed, CommittedSteps
  <2>3. \A v \in Handlers : ReadsRight(job'[v], retries')
    <3>1. ReadsRight(job'[w], retries')
      BY <2>1 DEF ReadsRight, KnownRole, DetectingSteps, SweepSteps
    <3> QED
      BY <1>2, <2>1, <3>1, OthersOweNothing
  <2>4. auto + 0 <= retries + faults + 0
    BY <2>2 DEF Ledger
  <2>5. retries' <= 2 /\ auto' + 1 <= retries' + faults' + 0
    BY <1>0, <1>1, <1>3, <2>1, <2>4
  <2>6. ~\E v \in Handlers : Owed(v)'
    BY <1>2, <2>1, OthersOweNothing DEF Owed, Committed
  <2>7. \E v \in Handlers : Owing(v)'
    BY <2>1 DEF Owing
  <2> QED
    BY <2>3, <2>5, <2>6, <2>7 DEF Ledger
<1>4. CASE ~(job[w].retries <= 1)
  <2>1. Go(w, "error") /\ UNCHANGED retries
    BY <1>4 DEF Decide
  <2>2. Passes(w)
    BY <1>0, <1>1, <2>1, GoPasses DEF SweepRoles, EscalatingSteps, CommittedSteps
  <2> QED
    BY <2>2, PassesLedger
<1> QED
  BY <1>3, <1>4

\* A re-dispatch: of the detector, it was counted; of the sweep, it is to be counted.
LEMMA RedispatchLedger ==
  ASSUME DataOK, JobsOK, Ledger, SweepsApart, NEW w \in Handlers, Redispatch(w)
  PROVE  Ledger'
<1>0. /\ auto \in Nat /\ retries \in Nat /\ faults \in Nat
      /\ retries' = retries /\ faults' = faults /\ (auto' = auto \/ auto' = auto + 1)
  BY Numbers DEF Redispatch
<1>1. ReadsRight(job[w], retries) /\ retries <= 2
  BY DEF Ledger
<1>2. job[w].role = IF job[w].pc = "redo" THEN "detector" ELSE "reconcile"
  BY <1>1 DEF Redispatch, ReadsRight, KnownRole
<1>3. \A v \in Handlers \ {w} : job[v].role \notin SweepRoles
  BY <1>2 DEF SweepsApart, SweepRoles
<1>4. WinClaim(w, "check") \/ (AfterInvoke(w) /\ auto' = auto)
  BY DEF Redispatch
<1>5. CASE job[w].pc = "redo"
  <2>1. /\ OthersStay(w)
        /\ job'[w] = Idle \/ (job'[w].pc = "check" /\ job'[w].role = "detector")
    BY <1>2, <1>4, <1>5, WinMoves, AfterInvokeMoves DEF Idle
  <2>2. ~Owing(w)' /\ ~Owed(w)' /\ Owing(w) /\ ~Owed(w)
    BY <1>2, <1>5, <2>1, IdlePlain DEF Owing, Owed, Committed, CommittedSteps, Plain, Idle
  <2>3. ReadsRight(job'[w], retries')
    <3>1. CASE job'[w] = Idle
      BY <3>1, ReadsIdle
    <3>2. CASE job'[w].role = "detector" /\ job'[w].pc = "check"
      BY <3>2 DEF ReadsRight, KnownRole, DetectingSteps, SweepSteps, InvokingSteps
    <3> QED
      BY <2>1, <3>1, <3>2
  <2>4. \A v \in Handlers : ReadsRight(job'[v], retries')
    BY <1>3, <2>1, <2>3, OthersOweNothing
  <2>5. (\E v \in Handlers : Owing(v)) /\ ~(\E v \in Handlers : Owed(v))
    BY <1>3, <2>1, <2>2, OthersOweNothing
  <2>6. ~(\E v \in Handlers : Owing(v)') /\ ~(\E v \in Handlers : Owed(v)')
    BY <1>3, <2>1, <2>2, OthersOweNothing
  <2>7. auto + 1 <= retries + faults + 0
    BY <2>5 DEF Ledger
  <2>8. auto' + 0 <= retries' + faults' + 0
    BY <1>0, <2>7
  <2> QED
    BY <1>0, <1>1, <2>4, <2>6, <2>8 DEF Ledger
<1>6. CASE job[w].pc = "rc_redo"
  <2>1. OthersStay(w) /\ job'[w].pc \in {"check", "count"} /\ job'[w].role = "reconcile"
    BY <1>2, <1>4, <1>6, WinMoves, AfterInvokeMoves
  <2>2. ~Owing(w)' /\ Owed(w)' /\ ~Owing(w) /\ ~Owed(w)
    BY <1>6, <2>1 DEF Owing, Owed, Committed, CommittedSteps
  <2>3. ReadsRight(job'[w], retries')
    BY <1>0, <1>1, <1>2, <1>6, <2>1
    DEF ReadsRight, KnownRole, DetectingSteps, SweepSteps, CommittedSteps
  <2>4. \A v \in Handlers : ReadsRight(job'[v], retries')
    BY <1>3, <2>1, <2>3, OthersOweNothing
  <2>5. ~(\E v \in Handlers : Owing(v)) /\ ~(\E v \in Handlers : Owed(v))
    BY <1>3, <2>1, <2>2, OthersOweNothing
  <2>6. ~(\E v \in Handlers : Owing(v)') /\ (\E v \in Handlers : Owed(v)')
    BY <1>3, <2>1, <2>2, OthersOweNothing
  <2>7. auto + 0 <= retries + faults + 0
    BY <2>5 DEF Ledger
  <2>8. auto' + 0 <= retries' + faults' + 1
    BY <1>0, <2>7
  <2> QED
    BY <1>0, <1>1, <2>4, <2>6, <2>8 DEF Ledger
<1> QED
  BY <1>5, <1>6 DEF Redispatch

\* The sweep counts what it has dispatched.
LEMMA CountLedger ==
  ASSUME DataOK, JobsOK, Ledger, SweepsApart, NEW w \in Handlers, CountRetry(w)
  PROVE  Ledger'
<1>0. /\ auto \in Nat /\ retries \in Nat /\ faults \in Nat
      /\ job[w].pc = "count" /\ retries' = retries + 1 /\ UNCHANGED <<auto, faults>>
      /\ OthersStay(w) /\ job'[w] = Idle
  BY Numbers, FinishMoves DEF CountRetry
<1>1. job[w].role = "reconcile" /\ retries = 0
  BY <1>0 DEF Ledger, ReadsRight, KnownRole, CommittedSteps
<1>2. \A v \in Handlers \ {w} : job[v].role \notin SweepRoles
  BY <1>1 DEF SweepsApart, SweepRoles
<1>3. ~Owing(w) /\ ~Owing(w)' /\ ~Owed(w)'
  BY <1>0, IdlePlain DEF Owing, Owed, Plain, Idle
<1>4. ~(\E v \in Handlers : Owing(v)') /\ ~(\E v \in Handlers : Owed(v)')
  BY <1>0, <1>2, <1>3, OthersOweNothing
<1>5. auto <= faults + 1
  <2>1. /\ auto + (IF \E v \in Handlers : Owing(v) THEN 1 ELSE 0)
             <= retries + faults + (IF \E v \in Handlers : Owed(v) THEN 1 ELSE 0)
    BY DEF Ledger
  <2> QED
    BY <1>0, <1>1, <2>1
<1>6. auto' + 0 <= retries' + faults' + 0 /\ retries' <= 2
  BY <1>0, <1>1, <1>5
<1>7. \A v \in Handlers : ReadsRight(job'[v], retries')
  BY <1>0, <1>2, OthersOweNothing, ReadsIdle
<1> QED
  BY <1>4, <1>6, <1>7 DEF Ledger

\* A person decides while no sweep is in flight: the ledger starts over.
LEMMA WakeLedger ==
  ASSUME DataOK, JobsOK, Ledger, SweepsApart', NEW w \in Handlers, WakeAfterDecision(w)
  PROVE  Ledger'
<1>0. /\ faults \in Nat /\ retries' = 0 /\ auto' = 0 /\ faults' = faults
  BY Numbers DEF WakeAfterDecision
<1>1. /\ OthersStay(w) /\ job'[w].pc = "wake" /\ job'[w].role = "ready"
  <2>1. Fresh \in Jobs
    BY FreshJob
  <2>2. \E j : j.pc = "wake" /\ j.role = "ready" /\ job' = [job EXCEPT ![w] = j]
    BY <2>1 DEF WakeAfterDecision, Jobs
  <2> QED
    BY <2>2, ReplacedMoves
<1>2. \A v \in Handlers \ {w} : job[v].role \notin SweepRoles
  <2> SUFFICES ASSUME NEW v \in Handlers \ {w}, job'[v].role \in SweepRoles PROVE FALSE
    BY <1>1 DEF OthersStay
  <2> QED
    BY <1>1 DEF SweepsApart
<1>3. ReadsRight(job'[w], retries') /\ ~Owing(w)' /\ ~Owed(w)'
  BY <1>1
  DEF ReadsRight, KnownRole, Owing, Owed, Committed, CommittedSteps, DetectingSteps, SweepSteps
<1>4. /\ \A v \in Handlers : ReadsRight(job'[v], retries')
      /\ ~(\E v \in Handlers : Owing(v)') /\ ~(\E v \in Handlers : Owed(v)')
  BY <1>1, <1>2, <1>3, OthersOweNothing
<1>5. auto' + 0 <= retries' + faults' + 0 /\ retries' <= 2
  BY <1>0
<1> QED
  BY <1>4, <1>5 DEF Ledger

\* Time, sessions and people leave the ledger alone.
LEMMA WorldLedger ==
  ASSUME DataOK, JobsOK, Ledger, Tick \/ World \/ UNCHANGED vars
  PROVE  Ledger'
<1>1. UNCHANGED <<retries, auto, faults>>
  <2>1. CASE BlockerCloses \/ PersonReadies \/ CloseRun
    BY <2>1 DEF BlockerCloses, PersonReadies, CloseRun
  <2>2. CASE \E g \in Gens : Beat(g) \/ SessionDies(g) \/ SessionCompletes(g) \/ SessionParks(g)
    BY <2>2 DEF Beat, SessionDies, SessionCompletes, SessionParks
  <2>3. CASE Tick \/ UNCHANGED vars
    BY <2>3 DEF Tick, vars
  <2> QED
    BY <2>1, <2>2, <2>3 DEF World
<1>2. \A w \in Handlers : /\ job'[w].pc = job[w].pc /\ job'[w].role = job[w].role
                          /\ job'[w].retries = job[w].retries
  <2>1. CASE BlockerCloses \/ PersonReadies \/ CloseRun \/ UNCHANGED vars
    BY <2>1 DEF BlockerCloses, PersonReadies, CloseRun, vars
  <2>2. CASE \E g \in Gens : Beat(g) \/ SessionDies(g) \/ SessionCompletes(g) \/ SessionParks(g)
    BY <2>2 DEF Beat, SessionDies, SessionCompletes, SessionParks
  <2>3. CASE Tick
    BY <2>3 DEF Tick, JobsOK, Jobs
  <2> QED
    BY <2>1, <2>2, <2>3 DEF World
<1>3. \A w \in Handlers : /\ ReadsRight(job'[w], retries') <=> ReadsRight(job[w], retries)
                          /\ (Owing(w)' <=> Owing(w)) /\ (Owed(w)' <=> Owed(w))
  BY <1>1, <1>2 DEF ReadsRight, KnownRole, Owing, Owed, Committed
<1> QED
  BY <1>1, <1>3 DEF Ledger

\* Every step keeps the ledger, as long as the sweeps stay apart.
LEMMA LedgerInductive ==
  TypeOK /\ SweepsApart /\ SweepsApart' /\ Ledger /\ [Next]_vars => Ledger'
<1> SUFFICES ASSUME TypeOK, SweepsApart, SweepsApart', Ledger, [Next]_vars PROVE Ledger'
  OBVIOUS
<1>1. DataOK /\ JobsOK
  BY TypeParts
<1>2. CASE Tick \/ World \/ UNCHANGED vars
  BY <1>1, <1>2, WorldLedger
<1>3. CASE \E w \in Handlers : Begin(w) \/ Continue(w) \/ Crash(w)
  <2>1. PICK w \in Handlers : Begin(w) \/ Continue(w) \/ Crash(w)
    BY <1>3
  <2>2. ReadsRight(job[w], retries)
    BY DEF Ledger
  <2> QED
    BY <1>1, <2>1, <2>2, HandlerPasses, PassesLedger, DecideLedger, RedispatchLedger,
       CountLedger, WakeLedger
<1> QED
  BY <1>2, <1>3 DEF Next

\* The ledger of overlapping sweeps holds initially.
LEMMA LedgerInit == Init => Ledger
<1> SUFFICES ASSUME Init PROVE Ledger
  OBVIOUS
<1>1. \A w \in Handlers : ReadsRight(job[w], retries) /\ ~Owing(w) /\ ~Owed(w)
  BY ReadsIdle, IdlePlain DEF Init, Owing, Owed, Plain, Idle
<1>2. retries = 0 /\ auto + 0 <= retries + faults + 0
  BY DEF Init
<1> QED
  BY <1>1, <1>2 DEF Ledger

\* The budget in every mode, with a detector that writes and any number of handlers: it
\* holds as long as no two sweeps of the ticket, nor a sweep and a person's wake, are in
\* flight at once.  Each automatic re-dispatch is counted before or after the fact, or its
\* handler has died in between.
THEOREM BudgetApart == Spec /\ []SweepsApart => []RetryBudget
<1>1. TypeOK /\ Ledger => RetryBudget
  <2> SUFFICES ASSUME TypeOK, Ledger PROVE RetryBudget
    OBVIOUS
  <2>1. auto \in Nat /\ retries \in Nat /\ faults \in Nat
    BY DEF TypeOK
  <2>2. /\ retries <= 2
        /\ auto + (IF \E w \in Handlers : Owing(w) THEN 1 ELSE 0)
             <= retries + faults + (IF \E w \in Handlers : Owed(w) THEN 1 ELSE 0)
    BY DEF Ledger
  <2>3. (\E w \in Handlers : Owed(w)) => retries = 0
    BY DEF Ledger, ReadsRight, Owed, Committed
  <2> QED
    BY <2>1, <2>2, <2>3 DEF RetryBudget
<1>2. TypeOK /\ SweepsApart /\ SweepsApart' /\ Ledger /\ [Next]_vars => Ledger'
  BY LedgerInductive
<1> QED
  BY <1>1, <1>2, LedgerInit, TypeCorrect, PTL DEF Spec

-------------------------------------------------------------------------------
(* 3. What is escalated stays with the person *)

\* Nobody's send fails, and no person's decision wakes the ticket.
Undisturbed == \A w \in Handlers : ~SendFails(w) /\ ~WakeAfterDecision(w)

\* The board stood as it does before j began.
BoardOld(j) == boardAge > IF j.late THEN 1 ELSE 0

\* Whoever is about to escalate has seen a retry counted, and the board in progress...
EscalatesRightly(j) ==
  j.pc = "error" => retries >= 1 /\ (board # "in_progress" => ~BoardOld(j))

\* ...a sweep that has yet to look at the board has seen the escalation, or the board has
\* moved since...
SweepsRightly(j) ==
  j.pc = "reconcile" =>
    /\ ReconcileMode = "enforce" /\ j.retries <= retries
    /\ j.snap.status = "error" => j.retries >= 1
    /\ task.status = "error" /\ board # "in_progress" /\ BoardOld(j) => j.snap.status = "error"

\* ...and one that is about to re-drive is right that there is none, nor one to come.
RedrivesRightly(j) ==
  j.role = "redrive" /\ j.pc = "claim" =>
    /\ task.status # "error"
    /\ board = "in_progress" => ~BoardOld(j)
    /\ \A e \in Handlers : job[e].pc # "error"

Rightly(j) ==
  /\ EscalatesRightly(j) /\ SweepsRightly(j) /\ RedrivesRightly(j)
  /\ j.pc # "release" /\ (j.pc \in {"wake", "wake_steal"} => j.role # "redrive")

\* Handlers that overlap are late together.
LateTogether == \A v, w \in Handlers : job[v] # Idle /\ job[w] # Idle => job[v].late = job[w].late

Held ==
  /\ task.status = "error" => retries >= 1
  /\ LateTogether
  /\ \A w \in Handlers : Rightly(job[w])

\* What a step leaves: only who escalates sets a claim to error, the counter does not go
\* back, and a board that moves is young.
Gentle ==
  /\ task'.status = "error" => task.status = "error" \/ \E e \in Handlers : job[e].pc = "error"
  /\ retries' >= retries
  /\ boardAge' = 0 \/ UNCHANGED <<board, boardAge>>

\* Where a handler's next step is none of those that the invariant speaks of.
Elsewhere(j) ==
  /\ j.pc \notin {"error", "reconcile", "release"}
  /\ j.role = "redrive" => j.pc \notin {"claim", "wake", "wake_steal"}
Timely(w) ==
  job'[w] = Idle \/
  job'[w].late = IF job[w] = Idle THEN \E v \in Handlers : job[v].late ELSE job[w].late
Onward(w) == OthersStay(w) /\ Elsewhere(job'[w]) /\ Timely(w)

\* A handler that goes on within its call leads to no write the invariant speaks of.
LEMMA GoOnward ==
  ASSUME JobsOK, NEW w \in Handlers, NEW pc, Go(w, pc), job[w].pc # "idle",
         pc \notin {"error", "reconcile", "release", "claim", "wake"},
         pc = "wake_steal" => job[w].role # "redrive"
  PROVE  Onward(w)
<1>1. job[w] # Idle
  BY DEF Idle
<1> QED
  BY <1>1, GoMoves DEF Onward, Elsewhere, Timely

\* A handler that returns leads to no write the invariant speaks of.
LEMMA FinishOnward == ASSUME JobsOK, NEW w \in Handlers, Finish(w) PROVE Onward(w)
  BY FinishMoves DEF Onward, Elsewhere, Timely

\* Nor does a handler whose invocation has been sent.
LEMMA InvokedOnward ==
  ASSUME JobsOK, NEW w \in Handlers, AfterInvoke(w), job[w].pc # "idle"
  PROVE  Onward(w)
<1>1. CASE job[w].role = "reconcile"
  BY <1>1, GoOnward DEF AfterInvoke
<1>2. CASE job[w].role # "reconcile"
  BY <1>2, FinishOnward DEF AfterInvoke
<1> QED
  BY <1>1, <1>2

\* Nor does a handler that wins the claim, and the ticket it leaves is running.
LEMMA WonOnward ==
  ASSUME DataOK, JobsOK, NEW w \in Handlers, NEW pc \in {"board", "check"}, WinClaim(w, pc),
         job[w].pc # "idle"
  PROVE  Onward(w) /\ task'.status = "running"
<1>1. job[w] # Idle
  BY DEF Idle
<1>2. task'.status = "running"
  BY DEF WinClaim, NewClaim
<1> QED
  BY <1>1, <1>2, WinMoves DEF Onward, Elsewhere, Timely

\* Gentle is a step that puts no ticket into error, counts nothing and, if at all, renews the board.
LEMMA GentleBy ==
  ASSUME DataOK, task'.status = task.status \/ task'.status # "error",
         UNCHANGED retries, boardAge' = 0 \/ UNCHANGED <<board, boardAge>>
  PROVE  Gentle
<1>1. retries' >= retries
  BY DEF DataOK
<1> QED
  BY <1>1 DEF Gentle

\* Beginnings.
LEMMA BeginOnward ==
  ASSUME DataOK, JobsOK, NEW w \in Handlers, Begin(w), ~WakeAfterDecision(w), ~ReconcileScan(w)
  PROVE  Gentle /\ Onward(w)
<1>0. Fresh \in Jobs /\ Fresh.late = \E v \in Handlers : job[v].late
  BY FreshJob, IdleJob DEF Fresh, Jobs
<1>1. OthersStay(w) /\ job[w] = Idle
  BY BeginMoves
<1>2. ASSUME NEW j, job' = [job EXCEPT ![w] = j], j.late = Fresh.late,
             j.role # "redrive", j.pc \in {"claim", "detect", "announce", "park_steal"}
      PROVE  Onward(w)
  <2>1. job'[w] = j
    BY <1>2, ReplacedMoves
  <2> QED
    BY <1>0, <1>1, <1>2, <2>1 DEF Onward, Elsewhere, Timely
<1>3. ASSUME UNCHANGED job PROVE Onward(w)
  <2>1. job'[w] = Idle /\ Idle.pc = "idle"
    BY <1>1, <1>3 DEF Idle
  <2> QED
    BY <1>1, <2>1 DEF Onward, Elsewhere, Timely
<1>4. CASE StartReady(w)
  <2>1. \E j : j.pc = "claim" /\ j.role = "ready" /\ j.late = Fresh.late /\ job' = [job EXCEPT ![w] = j]
    BY <1>0, <1>4 DEF StartReady, Jobs
  <2> QED
    BY <1>2, <1>4, <2>1, GentleBy DEF StartReady, boardVars
<1>5. CASE DetectorScan(w)
  <2>1. \E j : j.pc = "detect" /\ j.role = "detector" /\ j.late = Fresh.late /\ job' = [job EXCEPT ![w] = j]
    BY <1>0, <1>5 DEF DetectorScan, Scan, Jobs
  <2> QED
    BY <1>2, <1>5, <2>1, GentleBy DEF DetectorScan, Scan, boardVars
<1>6. CASE ReceiveDone(w)
  <2>1. \/ UNCHANGED job
        \/ \E j : j.pc = "announce" /\ j.role = "done" /\ j.late = Fresh.late /\ job' = [job EXCEPT ![w] = j]
    BY <1>0, <1>6 DEF ReceiveDone, Jobs
  <2>2. task'.status = task.status \/ task'.status # "error"
    BY <1>6 DEF ReceiveDone, DataOK, Tasks
  <2> QED
    BY <1>2, <1>3, <1>6, <2>1, <2>2, GentleBy DEF ReceiveDone, boardVars
<1>7. CASE \E g \in Gens : ReceivePark(w, g)
  <2>1. \/ UNCHANGED job
        \/ \E j : j.pc = "park_steal" /\ j.role = "park" /\ j.late = Fresh.late /\ job' = [job EXCEPT ![w] = j]
    BY <1>0, <1>7 DEF ReceivePark, Jobs
  <2> QED
    BY <1>2, <1>3, <1>7, <2>1, GentleBy DEF ReceivePark, boardVars
<1> QED
  BY <1>4, <1>5, <1>6, <1>7 DEF Begin

\* The dispatch, where no send fails.
LEMMA DispatchOnward ==
  ASSUME DataOK, JobsOK, NEW w \in Handlers, ~SendFails(w), job[w].pc # "release"
  PROVE  /\ ReadyClaim(w) \/ MoveInProgress(w) \/ MoveRefused(w) \/ MoveUnavailable(w) =>
              Gentle /\ Onward(w)
         /\ CheckStillLive(w) \/ Send(w) \/ SendFails(w) => Gentle /\ Onward(w)
         /\ ReleaseOnFailure(w) \/ ParkAfterFailure(w) => Gentle /\ Onward(w)
         /\ Redispatch(w) => Gentle /\ Onward(w)
<1>1. ASSUME ReadyClaim(w) PROVE Gentle /\ Onward(w)
  <2>1. UNCHANGED <<retries, board, boardAge>> /\ job[w].pc = "claim"
    BY <1>1 DEF ReadyClaim, boardVars
  <2>2. WinClaim(w, "board") \/ (Finish(w) /\ UNCHANGED task)
    BY <1>1 DEF ReadyClaim
  <2> QED
    BY <2>1, <2>2, WonOnward, FinishOnward, GentleBy
<1>2. ASSUME MoveInProgress(w) PROVE Gentle /\ Onward(w)
  BY <1>2, GoOnward, GentleBy DEF MoveInProgress, SetBoard
<1>3. ASSUME MoveRefused(w) PROVE Gentle /\ Onward(w)
  BY <1>3, FinishOnward, GentleBy DEF MoveRefused, boardVars
<1>4. ASSUME MoveUnavailable(w) PROVE Gentle /\ Onward(w)
  <2>1. UNCHANGED <<retries, board, boardAge>> /\ job[w].pc = "board"
    BY <1>4 DEF MoveUnavailable, boardVars
  <2>2. task'.status = task.status \/ task'.status # "error"
    BY <1>4 DEF MoveUnavailable, DataOK, Tasks
  <2>3. Finish(w) \/ Go(w, "check")
    BY <1>4 DEF MoveUnavailable
  <2> QED
    BY <2>1, <2>2, <2>3, FinishOnward, GoOnward, GentleBy
<1>5. ASSUME CheckStillLive(w) PROVE Gentle /\ Onward(w)
  <2>1. UNCHANGED <<retries, board, boardAge, task>> /\ job[w].pc = "check"
    BY <1>5 DEF CheckStillLive, boardVars
  <2>2. AfterInvoke(w) \/ Go(w, "send")
    BY <1>5 DEF CheckStillLive
  <2> QED
    BY <2>1, <2>2, InvokedOnward, GoOnward, GentleBy
<1>6. ASSUME Send(w) PROVE Gentle /\ Onward(w)
  BY <1>6, InvokedOnward, GentleBy DEF Send, boardVars
<1>7. ASSUME ParkAfterFailure(w) PROVE Gentle /\ Onward(w)
  <2>1. boardAge' = 0 \/ UNCHANGED <<board, boardAge>>
    BY <1>7 DEF ParkAfterFailure, ParkOnBoard, SetBoard
  <2> QED
    BY <1>7, <2>1, InvokedOnward, GentleBy DEF ParkAfterFailure
<1>8. ~ReleaseOnFailure(w)
  BY DEF ReleaseOnFailure
<1>9. ASSUME Redispatch(w) PROVE Gentle /\ Onward(w)
  <2>1. UNCHANGED <<retries, board, boardAge>> /\ job[w].pc # "idle"
    BY <1>9 DEF Redispatch, boardVars
  <2>2. WinClaim(w, "check") \/ (AfterInvoke(w) /\ UNCHANGED task)
    BY <1>9 DEF Redispatch
  <2> QED
    BY <2>1, <2>2, WonOnward, InvokedOnward, GentleBy
<1> QED
  BY <1>1, <1>2, <1>3, <1>4, <1>5, <1>6, <1>7, <1>8, <1>9

\* The sweeps past their look at the board, and the others.
LEMMA OtherOnward ==
  ASSUME DataOK, JobsOK, NEW w \in Handlers,
         job[w].pc \in {"wake", "wake_steal"} => job[w].role # "redrive"
  PROVE  /\ SkipCandidate(w) \/ ReleaseParked(w) \/ AnnounceDone(w) \/ Crash(w) => Gentle /\ Onward(w)
         /\ WakeCheck(w) \/ WakeSteal(w) => Gentle /\ Onward(w)
         /\ EscalateError(w) \/ EscalateBlock(w) \/ EscalatePage(w) => Gentle /\ Onward(w)
         /\ ReconcileRecheck(w) \/ ReconcileSteal(w) \/ CountRetry(w) => Gentle /\ Onward(w)
<1>1. ASSUME SkipCandidate(w) PROVE Gentle /\ Onward(w)
  BY <1>1, FinishOnward, GentleBy DEF SkipCandidate, unchangedByDetect, boardVars
<1>2. ASSUME ReleaseParked(w) PROVE Gentle /\ Onward(w)
  <2>1. task'.status = task.status \/ task'.status # "error"
    BY <1>2 DEF ReleaseParked, DataOK, Tasks
  <2> QED
    BY <1>2, <2>1, FinishOnward, GentleBy DEF ReleaseParked, boardVars
<1>3. ASSUME AnnounceDone(w) \/ Crash(w) PROVE Gentle /\ Onward(w)
  BY <1>3, FinishOnward, GentleBy DEF AnnounceDone, Crash, boardVars
<1>4. ASSUME WakeCheck(w) PROVE Gentle /\ Onward(w)
  <2>1. /\ UNCHANGED <<retries, board, boardAge, task>>
        /\ job[w].pc = "wake" /\ job[w].role # "redrive"
    BY <1>4 DEF WakeCheck, unchangedByDetect, boardVars
  <2>2. Finish(w) \/ Go(w, "wake_steal")
    BY <1>4 DEF WakeCheck
  <2> QED
    BY <2>1, <2>2, FinishOnward, GoOnward, GentleBy
<1>5. ASSUME WakeSteal(w) PROVE Gentle /\ Onward(w)
  <2>1. /\ UNCHANGED retries /\ job[w].pc = "wake_steal" /\ job[w] # Idle
        /\ job[w].role # "redrive"
    BY <1>5 DEF WakeSteal, Idle
  <2>2. task'.status = task.status \/ task'.status # "error"
    BY <1>5 DEF WakeSteal, DataOK, Tasks
  <2>3. boardAge' = 0 \/ UNCHANGED <<board, boardAge>>
    BY <1>5 DEF WakeSteal, SetBoard
  <2>4. CASE Finish(w)
    BY <2>1, <2>2, <2>3, <2>4, FinishOnward, GentleBy
  <2>5. CASE job' = [job EXCEPT ![w].pc = "claim", ![w].recovery = board \in {"todo", "blocked"}]
    <3>1. /\ OthersStay(w) /\ job'[w].pc = "claim" /\ job'[w].role = job[w].role
          /\ job'[w].late = job[w].late
      BY <2>5 DEF JobsOK, Jobs, OthersStay
    <3> QED
      BY <2>1, <2>2, <2>3, <3>1, GentleBy DEF Onward, Elsewhere, Timely
  <2> QED
    BY <1>5, <2>4, <2>5 DEF WakeSteal
<1>6. ASSUME EscalateError(w) PROVE Gentle /\ Onward(w)
  <2>1. Gentle
    BY <1>6 DEF EscalateError, Gentle, boardVars, DataOK
  <2> QED
    BY <1>6, <2>1, GoOnward DEF EscalateError
<1>7. ASSUME EscalateBlock(w) PROVE Gentle /\ Onward(w)
  <2>1. boardAge' = 0 \/ UNCHANGED <<board, boardAge>>
    BY <1>7 DEF EscalateBlock, ParkOnBoard, SetBoard
  <2> QED
    BY <1>7, <2>1, GoOnward, GentleBy DEF EscalateBlock
<1>8. ASSUME EscalatePage(w) PROVE Gentle /\ Onward(w)
  BY <1>8, FinishOnward, GentleBy DEF EscalatePage, boardVars
<1>9. ASSUME ReconcileRecheck(w) PROVE Gentle /\ Onward(w)
  <2>1. UNCHANGED <<retries, board, boardAge, task>> /\ job[w].pc = "rc_recheck"
    BY <1>9 DEF ReconcileRecheck, unchangedByDetect, boardVars
  <2>2. Finish(w) \/ Go(w, "rc_steal")
    BY <1>9 DEF ReconcileRecheck
  <2> QED
    BY <2>1, <2>2, FinishOnward, GoOnward, GentleBy
<1>10. ASSUME ReconcileSteal(w) PROVE Gentle /\ Onward(w)
  <2>1. UNCHANGED <<retries, board, boardAge>> /\ job[w].pc = "rc_steal"
    BY <1>10 DEF ReconcileSteal, boardVars
  <2>2. task'.status = task.status \/ task'.status # "error"
    BY <1>10 DEF ReconcileSteal, Steal, DataOK, Tasks
  <2>3. Finish(w) \/ Go(w, "rc_redo")
    BY <1>10 DEF ReconcileSteal, Steal
  <2> QED
    BY <2>1, <2>2, <2>3, FinishOnward, GoOnward, GentleBy
<1>11. ASSUME CountRetry(w) PROVE Gentle /\ Onward(w)
  <2>1. Gentle
    BY <1>11 DEF CountRetry, Gentle, boardVars, DataOK
  <2> QED
    BY <1>11, <2>1, FinishOnward DEF CountRetry
<1> QED
  BY <1>1, <1>2, <1>3, <1>4, <1>5, <1>6, <1>7, <1>8, <1>9, <1>10, <1>11

\* The reconcile sweep looks at the board, and re-drives only where it is right to.
LEMMA ReconcileRight ==
  ASSUME TICKET_PROVIDER = "ddb", DataOK, JobsOK, Held, NEW w \in Handlers, Reconcile(w)
  PROVE  /\ OthersStay(w) /\ Timely(w) /\ Gentle
         /\ job'[w].pc = "error" => board = "in_progress" /\ boardAge > 1
         /\ Rightly(job[w])'
<1>0. /\ job[w].pc = "reconcile" /\ UNCHANGED <<task, retries, board, boardAge>>
      /\ job[w] # Idle /\ Gentle
      /\ boardAge \in Nat /\ retries \in Nat /\ job[w].retries \in Nat
  BY GentleBy, Numbers DEF Reconcile, unchangedByDetect, boardVars, Idle, DataOK
<1>1. SweepsRightly(job[w])
  BY DEF Held, Rightly
<1>2. CASE ~Recoverable(w)
  <2>1. Finish(w)
    BY <1>2 DEF Reconcile
  <2>2. OthersStay(w) /\ job'[w] = Idle /\ Idle.pc = "idle"
    BY <2>1, FinishMoves
  <2>3. Rightly(Idle)'
    BY <2>2 DEF Rightly, EscalatesRightly, SweepsRightly, RedrivesRightly
  <2> QED
    BY <1>0, <2>2, <2>3 DEF Timely
<1>3. CASE Recoverable(w)
  <2>1. /\ boardAge > 1 /\ BoardOld(job[w])
        /\ ~(job[w].snap.status = "error" /\ job[w].retries >= 1)
    <3>1. ReconcileMode = "enforce"
      BY <1>0, <1>1 DEF SweepsRightly
    <3>2. boardAge >= LEASE_TTL
      BY <1>3, <3>1 DEF Recoverable, BoardAgeCap
    <3>3. boardAge > 1
      BY <1>0, <3>2, TimeAssumption
    <3> QED
      BY <1>0, <1>3, <3>3 DEF BoardOld, Recoverable
  <2>2. CASE board # "in_progress"
    <3>1. job' = [job EXCEPT ![w].pc = "claim", ![w].role = "redrive",
                             ![w].recovery = board \in {"todo", "blocked"}]
      BY <1>3, <2>2 DEF Reconcile
    <3>2. /\ OthersStay(w) /\ job'[w].pc = "claim" /\ job'[w].role = "redrive"
          /\ job'[w].late = job[w].late
      BY <3>1 DEF JobsOK, Jobs, OthersStay
    <3>3. task.status # "error"
      BY <1>0, <1>1, <2>1, <2>2 DEF SweepsRightly
    <3>4. ASSUME NEW e \in Handlers, job[e].pc = "error" PROVE FALSE
      <4>1. ~BoardOld(job[e])
        BY <2>2, <3>4 DEF Held, Rightly, EscalatesRightly
      <4>2. job[e].late = job[w].late
        BY <1>0, <3>4 DEF Held, LateTogether, Idle
      <4> QED
        BY <2>1, <4>1, <4>2 DEF BoardOld
    <3>5. \A e \in Handlers : job'[e].pc # "error"
      BY <3>2, <3>4 DEF OthersStay
    <3>6. Rightly(job[w])'
      BY <1>0, <2>2, <3>2, <3>3, <3>5
      DEF Rightly, EscalatesRightly, SweepsRightly, RedrivesRightly
    <3> QED
      BY <1>0, <3>2, <3>6 DEF Timely
  <2>3. CASE board = "in_progress" /\ job[w].retries = 0
    <3>1. Go(w, "rc_recheck")
      BY <1>3, <2>3 DEF Reconcile
    <3>2. OthersStay(w) /\ job'[w].pc = "rc_recheck" /\ job'[w].late = job[w].late
      BY <3>1, GoMoves
    <3>3. Rightly(job[w])'
      BY <3>2 DEF Rightly, EscalatesRightly, SweepsRightly, RedrivesRightly
    <3> QED
      BY <1>0, <3>2, <3>3 DEF Timely
  <2>4. CASE board = "in_progress" /\ job[w].retries # 0
    <3>1. Go(w, "error")
      BY <1>3, <2>4 DEF Reconcile
    <3>2. OthersStay(w) /\ job'[w].pc = "error" /\ job'[w].late = job[w].late
      BY <3>1, GoMoves
    <3>3. retries' >= 1 /\ board' = "in_progress"
      BY <1>0, <1>1, <2>4 DEF SweepsRightly
    <3>4. Rightly(job[w])'
      BY <3>2, <3>3 DEF Rightly, EscalatesRightly, SweepsRightly, RedrivesRightly
    <3> QED
      BY <1>0, <2>1, <2>4, <3>2, <3>4 DEF Timely
  <2> QED
    BY <2>2, <2>3, <2>4
<1> QED
  BY <1>2, <1>3

\* A sweep that begins has seen what there is.
LEMMA ScanRight ==
  ASSUME DataOK, JobsOK, Held, NEW w \in Handlers, ReconcileScan(w)
  PROVE  OthersStay(w) /\ Timely(w) /\ Gentle /\ job'[w].pc # "error" /\ Rightly(job[w])'
<1>1. /\ ReconcileMode = "enforce" /\ UNCHANGED <<task, retries, board, boardAge>>
      /\ job[w] = Idle /\ retries \in Nat
  BY DEF ReconcileScan, Scan, boardVars, DataOK
<1>2. Fresh \in Jobs /\ Fresh.late = \E v \in Handlers : job[v].late
  BY FreshJob, IdleJob DEF Fresh, Jobs
<1>3. \E j : /\ j.pc = "reconcile" /\ j.role = "reconcile" /\ j.snap = task
             /\ j.retries = retries /\ j.late = Fresh.late
             /\ job' = [job EXCEPT ![w] = j]
  BY <1>2 DEF ReconcileScan, Scan, Jobs
<1>4. /\ OthersStay(w) /\ job'[w].pc = "reconcile" /\ job'[w].role = "reconcile"
      /\ job'[w].snap = task /\ job'[w].retries = retries
      /\ job'[w].late = \E v \in Handlers : job[v].late
  BY <1>2, <1>3, ReplacedMoves
<1>5. Rightly(job[w])'
  BY <1>1, <1>4 DEF Held, Rightly, EscalatesRightly, SweepsRightly, RedrivesRightly
<1> QED
  BY <1>1, <1>4, <1>5, GentleBy DEF Timely

\* What a handler goes by, others leave right.
LEMMA RightStays ==
  ASSUME DataOK, JobsOK, Held, Gentle, DataOK', NEW v \in Handlers, job'[v] = job[v],
         \A e \in Handlers : job'[e].pc = "error" =>
           job[e].pc = "error" \/ (board = "in_progress" /\ boardAge > 1)
  PROVE  Rightly(job[v])'
<1>0. retries \in Nat /\ retries' \in Nat /\ retries' >= retries /\ job[v].retries \in Nat
      /\ boardAge \in Nat
  BY Numbers DEF DataOK, Gentle
<1>1. Rightly(job[v])
  BY DEF Held
<1>2. \/ ~BoardOld(job[v])'
      \/ UNCHANGED <<board, boardAge>> /\ (BoardOld(job[v])' <=> BoardOld(job[v]))
  BY DEF Gentle, BoardOld
<1>3. ASSUME NEW e \in Handlers, job[e].pc = "error", job[v] # Idle, board # "in_progress"
      PROVE  ~BoardOld(job[v])
  <2>1. ~BoardOld(job[e]) /\ job[e] # Idle
    BY <1>3 DEF Held, Rightly, EscalatesRightly, Idle
  <2> QED
    BY <1>3, <2>1 DEF Held, LateTogether, BoardOld
<1>4. EscalatesRightly(job[v])'
  BY <1>0, <1>1, <1>2 DEF Rightly, EscalatesRightly
<1>5. SweepsRightly(job[v])'
  <2> SUFFICES ASSUME job[v].pc = "reconcile"
               PROVE  /\ job[v].retries <= retries'
                      /\ task'.status = "error" /\ board' # "in_progress" /\ BoardOld(job[v])' =>
                           job[v].snap.status = "error"
    BY <1>1 DEF Rightly, SweepsRightly
  <2>1. job[v] # Idle /\ job[v].retries <= retries
    BY <1>1 DEF Rightly, SweepsRightly, Idle
  <2>2. ASSUME task'.status = "error", board' # "in_progress", BoardOld(job[v])'
        PROVE  job[v].snap.status = "error"
    <3>1. board # "in_progress" /\ BoardOld(job[v])
      BY <1>2, <2>2
    <3>2. task.status = "error"
      BY <1>3, <2>1, <2>2, <3>1 DEF Gentle
    <3> QED
      BY <1>1, <3>1, <3>2 DEF Rightly, SweepsRightly
  <2> QED
    BY <1>0, <2>1, <2>2
<1>6. RedrivesRightly(job[v])'
  <2> SUFFICES ASSUME job[v].role = "redrive", job[v].pc = "claim"
               PROVE  /\ task'.status # "error"
                      /\ board' = "in_progress" => ~BoardOld(job[v])'
                      /\ \A e \in Handlers : job'[e].pc # "error"
    BY DEF RedrivesRightly
  <2>1. /\ task.status # "error" /\ (board = "in_progress" => ~BoardOld(job[v]))
        /\ \A e \in Handlers : job[e].pc # "error"
    BY <1>1 DEF Rightly, RedrivesRightly
  <2>2. ~(board = "in_progress" /\ boardAge > 1)
    BY <1>0, <2>1 DEF BoardOld
  <2> QED
    BY <1>2, <2>1, <2>2 DEF Gentle
<1> QED
  BY <1>1, <1>4, <1>5, <1>6 DEF Rightly

\* A handler that is none of those is right anyhow.
LEMMA RightElsewhere ==
  ASSUME NEW w \in Handlers, Elsewhere(job'[w]) PROVE Rightly(job[w])' /\ job'[w].pc # "error"
  BY DEF Elsewhere, Rightly, EscalatesRightly, SweepsRightly, RedrivesRightly

\* Who begins while others run is as late as they are.
LEMMA TogetherStays ==
  ASSUME LateTogether, NEW w \in Handlers, OthersStay(w), Timely(w), JobsOK
  PROVE  LateTogether'
<1>1. ASSUME NEW v \in Handlers \ {w}, job'[v] # Idle, job'[w] # Idle
      PROVE  job'[v].late = job'[w].late
  <2>1. job'[v] = job[v] /\ job[v] # Idle
    BY <1>1 DEF OthersStay
  <2>2. CASE job[w] # Idle
    BY <1>1, <2>1, <2>2 DEF Timely, LateTogether
  <2>3. CASE job[w] = Idle
    <3>1. \A u \in Handlers : job[u].late => job[u] # Idle
      BY DEF Idle
    <3>2. job[v].late \in BOOLEAN
      BY DEF JobsOK, Jobs
    <3>3. job[v].late = \E u \in Handlers : job[u].late
      BY <2>1, <3>1, <3>2 DEF LateTogether
    <3> QED
      BY <1>1, <2>1, <2>3, <3>3 DEF Timely
  <2> QED
    BY <2>2, <2>3
<1>2. ASSUME NEW u \in Handlers \ {w}, NEW v \in Handlers \ {w}, job'[u] # Idle, job'[v] # Idle
      PROVE  job'[u].late = job'[v].late
  BY <1>2 DEF OthersStay, LateTogether
<1> QED
  BY <1>1, <1>2 DEF LateTogether

\* A handler's step keeps the escalations held.
LEMMA HandlerHeld ==
  ASSUME DetectorSilent, TICKET_PROVIDER = "ddb", DataOK, JobsOK, DataOK', Account, Held,
         NEW w \in Handlers, Begin(w) \/ Continue(w) \/ Crash(w),
         ~SendFails(w), ~WakeAfterDecision(w)
  PROVE  Held'
<1>1. /\ RightRole(job[w]) /\ ("exhausted" \notin Endings => \A g \in Gens : sess[g] # "exhausted")
      /\ job[w].pc # "release" /\ (job[w].pc \in {"wake", "wake_steal"} => job[w].role # "redrive")
  BY DEF Account, Held, Rightly
<1>2. /\ ~RedriveStalled(w) /\ ~FindResidue(w) /\ ~FindDead(w)
      /\ ~Stamp(w) /\ ~Recheck(w) /\ ~ClearStamp(w) /\ ~DetectorSteal(w) /\ ~Decide(w)
  BY <1>1, SilentDetector, OtherShapes
<1>3. /\ OthersStay(w) /\ Timely(w) /\ Gentle /\ Rightly(job[w])'
      /\ job'[w].pc = "error" => board = "in_progress" /\ boardAge > 1
  <2>1. CASE Reconcile(w)
    BY <2>1, ReconcileRight
  <2>2. CASE ReconcileScan(w)
    BY <2>2, ScanRight
  <2>3. CASE ~Reconcile(w) /\ ~ReconcileScan(w)
    <3>1. Gentle /\ Onward(w)
      <4>1. CASE Begin(w)
        BY <2>3, <4>1, BeginOnward
      <4>2. CASE Crash(w)
        BY <1>1, <4>2, OtherOnward
      <4>3. CASE Continue(w)
        BY <1>1, <1>2, <2>3, <4>3, DispatchOnward, OtherOnward DEF Continue
      <4> QED
        BY <4>1, <4>2, <4>3
    <3> QED
      BY <3>1, RightElsewhere DEF Onward
  <2> QED
    BY <2>1, <2>2, <2>3
<1>4. \A e \in Handlers : job'[e].pc = "error" =>
        job[e].pc = "error" \/ (board = "in_progress" /\ boardAge > 1)
  BY <1>3 DEF OthersStay
<1>5. \A v \in Handlers : Rightly(job[v])'
  BY <1>3, <1>4, RightStays DEF OthersStay
<1>6. LateTogether'
  BY <1>3, TogetherStays DEF Held
<1>7. task'.status = "error" => retries' >= 1
  <2>1. retries \in Nat /\ retries' \in Nat
    BY DEF DataOK
  <2>2. task.status = "error" \/ (\E e \in Handlers : job[e].pc = "error") => retries >= 1
    BY DEF Held, Rightly, EscalatesRightly
  <2> QED
    BY <1>3, <2>1, <2>2 DEF Gentle
<1> QED
  BY <1>5, <1>6, <1>7 DEF Held

\* Sessions, people and the end of the run: the board may move, and is young then.
LEMMA WorldHeld ==
  ASSUME DataOK, JobsOK, DataOK', Held, World \/ UNCHANGED vars
  PROVE  Held'
<1>1. /\ UNCHANGED <<job, task, retries>>
      /\ boardAge' = 0 \/ UNCHANGED <<board, boardAge>>
  <2>1. CASE BlockerCloses \/ PersonReadies \/ CloseRun
    BY <2>1 DEF BlockerCloses, PersonReadies, CloseRun, SetBoard
  <2>2. CASE \E g \in Gens : Beat(g) \/ SessionDies(g) \/ SessionCompletes(g) \/ SessionParks(g)
    BY <2>2 DEF Beat, SessionDies, SessionCompletes, SessionParks, SetBoard, boardVars
  <2> QED
    BY <2>1, <2>2 DEF World, vars
<1>2. Gentle
  BY <1>1, GentleBy
<1>3. \A v \in Handlers : Rightly(job[v])'
  BY <1>1, <1>2, RightStays
<1> QED
  BY <1>1, <1>3 DEF Held, LateTogether

\* Time: all are late together, and the board is as young for them as it was.
LEMMA TickHeld ==
  ASSUME DataOK, JobsOK, Held, Tick
  PROVE  Held'
<1>0. boardAge \in Nat /\ boardAge' \in Nat /\ boardAge' <= boardAge + 1
  <2>1. BoardAgeCap \in Nat
    BY TimeAssumption DEF BoardAgeCap
  <2>2. boardAge' = Saturate(boardAge, BoardAgeCap) /\ boardAge \in Nat
    BY DEF Tick, DataOK
  <2>3. CASE boardAge < BoardAgeCap
    BY <2>2, <2>3 DEF Saturate
  <2>4. CASE ~(boardAge < BoardAgeCap)
    BY <2>1, <2>2, <2>4 DEF Saturate
  <2> QED
    BY <2>3, <2>4
<1>1. UNCHANGED <<task, retries, board>> /\ \A w \in Handlers : ~job[w].late
  BY DEF Tick, worldVars
<1>2. \A w \in Handlers :
        /\ job'[w].pc = job[w].pc /\ job'[w].role = job[w].role
        /\ job'[w].snap = job[w].snap /\ job'[w].retries = job[w].retries
        /\ (job[w] = Idle /\ job'[w] = Idle) \/ job'[w].late
  BY DEF Tick, JobsOK, Jobs
<1>3. LateTogether'
  <2>1. \A w \in Handlers : job'[w] # Idle => job'[w].late = TRUE
    BY <1>2 DEF Tick, JobsOK, Jobs
  <2> QED
    BY <2>1 DEF LateTogether
<1>4. \A w \in Handlers : Idle.pc = "idle" /\ (job[w].pc # "idle" /\ ~BoardOld(job[w]) => ~BoardOld(job[w])')
  BY <1>0, <1>1, <1>2 DEF BoardOld, Idle
<1>5. ASSUME NEW w \in Handlers PROVE Rightly(job[w])'
  <2>1. Rightly(job[w])
    BY DEF Held
  <2>2. EscalatesRightly(job[w])'
    BY <1>1, <1>2, <1>4, <2>1 DEF Rightly, EscalatesRightly
  <2>3. BoardOld(job[w])' /\ job[w].pc # "idle" => BoardOld(job[w])
    BY <1>4
  <2>4. SweepsRightly(job[w])'
    BY <1>1, <1>2, <2>1, <2>3 DEF Rightly, SweepsRightly
  <2>5. RedrivesRightly(job[w])'
    BY <1>1, <1>2, <1>4, <2>1 DEF Rightly, RedrivesRightly
  <2> QED
    BY <1>2, <2>1, <2>2, <2>4, <2>5 DEF Rightly
<1> QED
  BY <1>1, <1>3, <1>5 DEF Held

\* What keeps an escalated ticket in error holds initially.
LEMMA HeldInit == Init => Held
<1> SUFFICES ASSUME Init PROVE Held
  OBVIOUS
<1>1. \A w \in Handlers : job[w] = Idle /\ Idle.pc = "idle" /\ task.status # "error"
  BY DEF Init, Idle
<1> QED
  BY <1>1
  DEF Init, Held, LateTogether, Rightly, EscalatesRightly, SweepsRightly, RedrivesRightly

\* A ticket that was escalated stays with the person, for any number of handlers and
\* crashes: no reconcile sweep takes it, however old its view.  On DynamoDB, next to a
\* detector that writes nothing, as long as no send fails (whose release names no
\* generation either) and no decision of a person wakes the ticket.  The sweep would have
\* to have looked before the escalation and after it: it steals only where nothing is
\* counted, and re-drives only where the board has stood still for longer than anyone in
\* flight has lived, while an escalation leaves from a board in progress.
THEOREM EscalationCorrect ==
    ASSUME DetectorSilent, TICKET_PROVIDER = "ddb"
    PROVE  Spec /\ [][Undisturbed]_vars => EscalationHolds
<1> DEFINE Holds == \A w \in Handlers : SweepTakes(w) => ~(paged /\ task.status = "error")
<1>1. Account /\ Held => Holds
  <2> SUFFICES ASSUME Account, Held, NEW w \in Handlers, SweepTakes(w), task.status = "error"
               PROVE  FALSE
    OBVIOUS
  <2>1. job[w].role \in {"reconcile", "redrive"} /\ job[w].pc \in {"claim", "rc_redo"}
    BY DEF SweepTakes
  <2>2. RightRole(job[w]) /\ Rightly(job[w]) /\ retries >= 1
    BY DEF Account, Held
  <2>3. CASE job[w].pc = "rc_redo"
    <3>1. Committed(job[w])
      BY <2>2, <2>3 DEF RightRole, Committed, CommittedSteps
    <3>2. retries = 0
      BY <3>1 DEF Account, Alone
    <3> QED
      BY <2>2, <3>2
  <2>4. CASE job[w].pc = "claim"
    <3>1. job[w].role = "redrive"
      BY <2>1, <2>2, <2>4 DEF RightRole, SweepSteps, CommittedSteps
    <3> QED
      BY <2>2, <2>4, <3>1 DEF Rightly, RedrivesRightly
  <2> QED
    BY <2>1, <2>3, <2>4
<1>2. TypeOK /\ TypeOK' /\ Account /\ Held /\ [Next]_vars /\ [Undisturbed]_vars => Held'
  <2> SUFFICES ASSUME TypeOK, TypeOK', Account, Held, [Next]_vars, [Undisturbed]_vars PROVE Held'
    OBVIOUS
  <2>1. DataOK /\ JobsOK /\ DataOK'
    BY TypeParts DEF TypeOK, DataOK
  <2>2. CASE World \/ UNCHANGED vars
    BY <2>1, <2>2, WorldHeld
  <2>3. CASE Tick
    BY <2>1, <2>3, TickHeld
  <2>4. CASE ~UNCHANGED vars /\ \E w \in Handlers : Begin(w) \/ Continue(w) \/ Crash(w)
    BY <2>1, <2>4, HandlerHeld DEF Undisturbed
  <2> QED
    BY <2>2, <2>3, <2>4 DEF Next
<1>3. TypeOK /\ TypeOK' /\ Account /\ [Next]_vars => Account'
  BY AccountInductive
<1>4. Account /\ Held => [Holds]_vars
  BY <1>1
<1> QED
  BY <1>2, <1>3, <1>4, AccountInit, HeldInit, TypeCorrect, PTL DEF Spec, EscalationHolds
=============================================================================
