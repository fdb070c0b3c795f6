-------------------------- MODULE ClaimLeaseProofs --------------------------
(***************************************************************************)
(* Safety of ClaimLease for every number of handlers, claims and faults,   *)
(* every mode of the two sweeps and either ticket provider.                *)
(*                                                                         *)
(*   1. how one step rewrites job, the table of running handlers;          *)
(*   2. TypeOK is inductive (data first, then job);                        *)
(*   3. what a step may do to the run, the claim and its sessions; from    *)
(*      it, StampIsOwn is inductive by itself;                             *)
(*   4. Fencing, the invariant behind OneSessionPerClaim, is inductive;    *)
(*   5. every step is a step of ClaimLock or a stutter;                    *)
(*   6. on a closed run a session starts only past a failed last look.     *)
(***************************************************************************)
EXTENDS ClaimLease, TLAPS

-------------------------------------------------------------------------------
(* 1. The table of running handlers *)

JobsOK == job \in [Handlers -> Jobs]

\* A handler that does nothing is a well-formed job.
LEMMA IdleJob == Idle \in Jobs
  BY ClaimsAssumption DEF Idle, Jobs, Steps, Roles, Tasks, TaskStatuses, GensOrNone

\* So is one that has just been invoked.
LEMMA FreshJob == Fresh \in Jobs
  BY IdleJob DEF Fresh, Jobs

\* A job stays a job when its step, role or flag is overwritten in type.
LEMMA JobUpdates ==
  ASSUME NEW j \in Jobs, NEW pc \in Steps
  PROVE  /\ [j EXCEPT !.pc = pc] \in Jobs
         /\ [j EXCEPT !.late = TRUE] \in Jobs
         /\ \A b \in BOOLEAN :
              /\ [j EXCEPT !.pc = pc, !.recovery = b] \in Jobs
              /\ [j EXCEPT !.pc = pc, !.exhausted = b] \in Jobs
              /\ \A r \in Roles : [j EXCEPT !.pc = pc, !.role = r, !.recovery = b] \in Jobs
         /\ \A r \in Roles : [j EXCEPT !.pc = pc, !.role = r] \in Jobs
         /\ \A t \in Tasks : [j EXCEPT !.pc = pc, !.snap = t, !.retries = 0, !.exhausted = FALSE] \in Jobs
         /\ \A t \in Tasks, n \in Nat : [j EXCEPT !.pc = pc, !.snap = t, !.retries = n] \in Jobs
         /\ \A r \in Roles, t \in Tasks : [j EXCEPT !.pc = pc, !.role = r, !.snap = t] \in Jobs
         /\ \A r \in Roles, t \in Tasks, n \in Nat :
              [j EXCEPT !.pc = pc, !.role = r, !.snap = t, !.retries = n] \in Jobs
  BY DEF Jobs

\* Handler w becomes some well-formed job.
LEMMA JobReplaced ==
  ASSUME JobsOK, NEW w \in Handlers, NEW j \in Jobs, job' = [job EXCEPT ![w] = j]
  PROVE  JobsOK'
  BY DEF JobsOK

\* Handler w goes on to its next step.
LEMMA GoJob ==
  ASSUME JobsOK, NEW w \in Handlers, NEW pc \in Steps, Go(w, pc)
  PROVE  JobsOK'
  BY DEF Go, Jobs, JobsOK

\* Handler w returns.
LEMMA FinishJob ==
  ASSUME JobsOK, NEW w \in Handlers, Finish(w)
  PROVE  JobsOK'
  BY IdleJob DEF Finish, JobsOK

\* Handler w is back from invokeAgent.
LEMMA AfterInvokeJob ==
  ASSUME JobsOK, NEW w \in Handlers, AfterInvoke(w)
  PROVE  JobsOK'
  BY GoJob, FinishJob DEF AfterInvoke, Steps

\* Handler w steals, or loses the steal and returns.
LEMMA StealJob ==
  ASSUME JobsOK, NEW w \in Handlers, NEW pc \in Steps, Steal(w, pc)
  PROVE  JobsOK'
  BY GoJob, FinishJob DEF Steal

\* The next claim, under the bound on claims.
LEMMA NextClaim ==
  ASSUME task \in Tasks, task.gen < MaxClaims
  PROVE  NewClaim \in Tasks /\ NewClaim.gen \in Gens /\ NewClaim.gen = task.gen + 1
  BY ClaimsAssumption DEF NewClaim, Tasks, TaskStatuses, GensOrNone, Gens

\* Handler w wins claimInvocation.
LEMMA WonJob ==
  ASSUME JobsOK, task \in Tasks, NEW w \in Handlers, NEW pc \in Steps, WinClaim(w, pc)
  PROVE  JobsOK' /\ task' \in Tasks
<1>1. NewClaim \in Tasks
  BY NextClaim DEF WinClaim
<1> DEFINE j == [job[w] EXCEPT !.pc = pc, !.snap = NewClaim, !.retries = 0, !.exhausted = FALSE]
<1>2. j \in Jobs
  BY <1>1, JobUpdates DEF JobsOK
<1>3. job' = [job EXCEPT ![w] = j]
  BY DEF WinClaim
<1> QED
  BY <1>1, <1>2, <1>3, JobReplaced DEF WinClaim

\* The winner starts the clock of a new generation.
LEMMA WonAge ==
  ASSUME task \in Tasks, age \in [Gens -> Nat], NEW w \in Handlers, NEW pc, WinClaim(w, pc)
  PROVE  age' \in [Gens -> Nat]
  BY NextClaim DEF WinClaim

\* A sweep takes this ticket as its candidate.
LEMMA ScanJob ==
  ASSUME JobsOK, task \in Tasks, retries \in Nat, NEW w \in Handlers,
         NEW r \in Roles, NEW pc \in Steps, Scan(w, r, pc)
  PROVE  JobsOK'
<1>1. [Fresh EXCEPT !.pc = pc, !.role = r, !.snap = task, !.retries = retries] \in Jobs
  BY FreshJob, JobUpdates
<1> QED
  BY <1>1, JobReplaced DEF Scan

-------------------------------------------------------------------------------
(* 2. Types *)

\* TypeOK without job.
DataOK ==
  /\ open \in BOOLEAN /\ waits \in BOOLEAN /\ paged \in BOOLEAN
  /\ task \in Tasks
  /\ {retries, auto, faults, moves, boardAge, silence} \subseteq Nat
  /\ board \in BoardStatuses
  /\ age \in [Gens -> Nat]
  /\ sess \in [Gens -> Sessions]
  /\ lastDone \in GensOrNone
  /\ inbox \subseteq Events

\* TypeOK, split into the data and the handlers.
LEMMA TypeParts == TypeOK <=> DataOK /\ JobsOK
  BY DEF TypeOK, DataOK, JobsOK

\* A won claim, from the data invariant.
LEMMA WonClaim ==
  ASSUME DataOK, JobsOK, NEW w \in Handlers, NEW pc \in Steps, WinClaim(w, pc)
  PROVE  task' \in Tasks /\ age' \in [Gens -> Nat]
  BY WonJob, WonAge DEF DataOK

\* The two callers of claimInvocation write a well-formed task.
LEMMA ClaimData ==
  ASSUME DataOK, JobsOK, NEW w \in Handlers, ReadyClaim(w) \/ Redispatch(w)
  PROVE  task' \in Tasks /\ age' \in [Gens -> Nat] /\ auto' \in Nat
<1>1. {"board", "check"} \subseteq Steps
  BY DEF Steps
<1>2. auto' \in Nat
  BY DEF ReadyClaim, Redispatch, DataOK
<1>3. (\E pc \in Steps : WinClaim(w, pc)) \/ UNCHANGED <<task, age>>
  BY <1>1 DEF ReadyClaim, Redispatch
<1> QED
  BY <1>2, <1>3, WonClaim DEF DataOK

\* Dispatch: the Ready handler and the invocation.
LEMMA DispatchData ==
  ASSUME DataOK, JobsOK, NEW w \in Handlers,
         \/ StartReady(w) \/ ReadyClaim(w) \/ MoveInProgress(w)
         \/ MoveRefused(w) \/ MoveUnavailable(w) \/ CheckStillLive(w)
         \/ Send(w) \/ SendFails(w) \/ ReleaseOnFailure(w)
         \/ ParkAfterFailure(w) \/ Crash(w)
  PROVE  DataOK'
<1> USE ClaimsAssumption, ModeAssumption
<1> USE DEF DataOK, Go, Finish, Fault, Move, Deliver, SetBoard, Steal, AfterInvoke,
      ParkOnBoard, StartSession, Scan, unchangedByDetect, clockVars, boardVars,
      worldVars, Tasks, TaskStatuses, BoardStatuses, Sessions, Events, ReadyEvent,
      GensOrNone
<1>1. ASSUME StartReady(w) PROVE DataOK'
  BY <1>1 DEF StartReady
<1>2. ASSUME ReadyClaim(w) PROVE DataOK'
  <2>1. task' \in Tasks /\ age' \in [Gens -> Nat] /\ auto' \in Nat
    BY <1>2, ClaimData
  <2> QED
    BY <1>2, <2>1 DEF ReadyClaim
<1>3. ASSUME MoveInProgress(w) PROVE DataOK'
  BY <1>3 DEF MoveInProgress
<1>4. ASSUME MoveRefused(w) PROVE DataOK'
  BY <1>4 DEF MoveRefused
<1>5. ASSUME MoveUnavailable(w) PROVE DataOK'
  BY <1>5 DEF MoveUnavailable
<1>6. ASSUME CheckStillLive(w) PROVE DataOK'
  BY <1>6 DEF CheckStillLive
<1>7. ASSUME Send(w) PROVE DataOK'
  BY <1>7 DEF Send
<1>8. ASSUME SendFails(w) PROVE DataOK'
  BY <1>8 DEF SendFails
<1>9. ASSUME ReleaseOnFailure(w) PROVE DataOK'
  BY <1>9 DEF ReleaseOnFailure
<1>10. ASSUME ParkAfterFailure(w) PROVE DataOK'
  BY <1>10 DEF ParkAfterFailure
<1>11. ASSUME Crash(w) PROVE DataOK'
  BY <1>11 DEF Crash
<1> QED
  BY <1>1, <1>2, <1>3, <1>4, <1>5, <1>6, <1>7, <1>8, <1>9, <1>10, <1>11

\* The two sweeps.
LEMMA SweepData ==
  ASSUME DataOK, JobsOK, NEW w \in Handlers,
         \/ DetectorScan(w) \/ RedriveStalled(w) \/ FindResidue(w)
         \/ FindDead(w) \/ SkipCandidate(w) \/ Stamp(w) \/ Recheck(w)
         \/ ClearStamp(w) \/ DetectorSteal(w) \/ Decide(w)
         \/ Redispatch(w) \/ EscalateError(w) \/ EscalateBlock(w)
         \/ EscalatePage(w) \/ ReconcileScan(w) \/ Reconcile(w)
         \/ ReconcileRecheck(w) \/ ReconcileSteal(w) \/ CountRetry(w)
  PROVE  DataOK'
<1> USE ClaimsAssumption, ModeAssumption
<1> USE DEF DataOK, Go, Finish, Fault, Move, Deliver, SetBoard, Steal, AfterInvoke,
      ParkOnBoard, StartSession, Scan, unchangedByDetect, clockVars, boardVars,
      worldVars, Tasks, TaskStatuses, BoardStatuses, Sessions, Events, ReadyEvent,
      GensOrNone
<1>1. ASSUME DetectorScan(w) PROVE DataOK'
  BY <1>1 DEF DetectorScan
<1>2. ASSUME RedriveStalled(w) PROVE DataOK'
  BY <1>2 DEF RedriveStalled
<1>3. ASSUME FindResidue(w) PROVE DataOK'
  BY <1>3 DEF FindResidue
<1>4. ASSUME FindDead(w) PROVE DataOK'
  BY <1>4 DEF FindDead
<1>5. ASSUME SkipCandidate(w) PROVE DataOK'
  BY <1>5 DEF SkipCandidate
<1>6. ASSUME Stamp(w) PROVE DataOK'
  BY <1>6 DEF Stamp
<1>7. ASSUME Recheck(w) PROVE DataOK'
  BY <1>7 DEF Recheck
<1>8. ASSUME ClearStamp(w) PROVE DataOK'
  BY <1>8 DEF ClearStamp
<1>9. ASSUME DetectorSteal(w) PROVE DataOK'
  BY <1>9 DEF DetectorSteal
<1>10. ASSUME Decide(w) PROVE DataOK'
  BY <1>10 DEF Decide
<1>11. ASSUME Redispatch(w) PROVE DataOK'
  <2>1. task' \in Tasks /\ age' \in [Gens -> Nat] /\ auto' \in Nat
    BY <1>11, ClaimData
  <2> QED
    BY <1>11, <2>1 DEF Redispatch
<1>12. ASSUME EscalateError(w) PROVE DataOK'
  BY <1>12 DEF EscalateError
<1>13. ASSUME EscalateBlock(w) PROVE DataOK'
  BY <1>13 DEF EscalateBlock
<1>14. ASSUME EscalatePage(w) PROVE DataOK'
  BY <1>14 DEF EscalatePage
<1>15. ASSUME ReconcileScan(w) PROVE DataOK'
  BY <1>15 DEF ReconcileScan
<1>16. ASSUME Reconcile(w) PROVE DataOK'
  BY <1>16 DEF Reconcile
<1>17. ASSUME ReconcileRecheck(w) PROVE DataOK'
  BY <1>17 DEF ReconcileRecheck
<1>18. ASSUME ReconcileSteal(w) PROVE DataOK'
  BY <1>18 DEF ReconcileSteal
<1>19. ASSUME CountRetry(w) PROVE DataOK'
  BY <1>19 DEF CountRetry
<1> QED
  BY <1>1, <1>2, <1>3, <1>4, <1>5, <1>6, <1>7, <1>8, <1>9, <1>10, <1>11, <1>12, <1>13, <1>14, <1>15, <1>16, <1>17, <1>18, <1>19

\* Park, wake and done.
LEMMA EventData ==
  ASSUME DataOK, JobsOK, NEW w \in Handlers,
         \/ ReleaseParked(w) \/ WakeAfterDecision(w) \/ WakeCheck(w)
         \/ WakeSteal(w) \/ ReceiveDone(w) \/ AnnounceDone(w)
  PROVE  DataOK'
<1> USE ClaimsAssumption, ModeAssumption
<1> USE DEF DataOK, Go, Finish, Fault, Move, Deliver, SetBoard, Steal, AfterInvoke,
      ParkOnBoard, StartSession, Scan, unchangedByDetect, clockVars, boardVars,
      worldVars, Tasks, TaskStatuses, BoardStatuses, Sessions, Events, ReadyEvent,
      GensOrNone
<1>1. ASSUME ReleaseParked(w) PROVE DataOK'
  BY <1>1 DEF ReleaseParked
<1>2. ASSUME WakeAfterDecision(w) PROVE DataOK'
  BY <1>2 DEF WakeAfterDecision
<1>3. ASSUME WakeCheck(w) PROVE DataOK'
  BY <1>3 DEF WakeCheck
<1>4. ASSUME WakeSteal(w) PROVE DataOK'
  BY <1>4 DEF WakeSteal
<1>5. ASSUME ReceiveDone(w) PROVE DataOK'
  BY <1>5 DEF ReceiveDone
<1>6. ASSUME AnnounceDone(w) PROVE DataOK'
  BY <1>6 DEF AnnounceDone
<1> QED
  BY <1>1, <1>2, <1>3, <1>4, <1>5, <1>6

\* The Ready event is an event.
LEMMA ReadyIsEvent == ReadyEvent \in Events
  BY ClaimsAssumption DEF ReadyEvent, Events, GensOrNone

\* A move of a person keeps the data well-formed.
LEMMA PersonData ==
  ASSUME DataOK, PersonReadies
  PROVE  DataOK'
<1>1. inbox' \subseteq Events
  BY ReadyIsEvent DEF PersonReadies, DataOK
<1>2. board' \in BoardStatuses /\ boardAge' \in Nat
  BY DEF PersonReadies, SetBoard, BoardStatuses
<1>3. moves' \in Nat
  BY DEF PersonReadies, Move, DataOK
<1>4. paged' \in BOOLEAN
  BY DEF PersonReadies
<1> QED
  BY <1>1, <1>2, <1>3, <1>4 DEF PersonReadies, DataOK, clockVars

\* Sessions, people and time.
LEMMA WorldData ==
  ASSUME DataOK, JobsOK, World \/ Tick \/ \E w \in Handlers, g \in Gens : ReceivePark(w, g)
  PROVE  DataOK'
<1> USE DEF DataOK, Fault, Move, Deliver, SetBoard, clockVars, boardVars, worldVars,
      BoardStatuses, Events, GensOrNone
<1>1. ASSUME NEW g \in Gens, Beat(g) PROVE DataOK'
  BY <1>1 DEF Beat
<1>2. ASSUME NEW g \in Gens, SessionDies(g) PROVE DataOK'
  BY <1>2 DEF SessionDies, Sessions, Ended
<1>3. ASSUME NEW g \in Gens, SessionCompletes(g) PROVE DataOK'
  BY <1>3, ClaimsAssumption DEF SessionCompletes, Sessions, Ended, DoneEvent
<1>4. ASSUME NEW g \in Gens, SessionParks(g) PROVE DataOK'
  <2>1. ParkEvent(g) \in Events
    BY ClaimsAssumption DEF ParkEvent, Gens
  <2>2. sess' \in [Gens -> Sessions] /\ inbox' \subseteq Events
    BY <1>4, <2>1 DEF SessionParks, Sessions, Ended
  <2>3. board' \in BoardStatuses /\ boardAge' \in Nat /\ waits' \in BOOLEAN
    BY <1>4 DEF SessionParks
  <2> QED
    BY <1>4, <2>2, <2>3 DEF SessionParks
<1>5. ASSUME NEW w \in Handlers, NEW g \in Gens, ReceivePark(w, g) PROVE DataOK'
  BY <1>5 DEF ReceivePark
<1>6. CASE BlockerCloses
  <2>1. inbox' \subseteq Events
    BY <1>6, ReadyIsEvent DEF BlockerCloses
  <2>2. board' \in BoardStatuses /\ boardAge' \in Nat
    BY <1>6 DEF BlockerCloses
  <2> QED
    BY <1>6, <2>1, <2>2 DEF BlockerCloses
<1>7. CASE PersonReadies
  BY <1>7, PersonData
<1>8. CASE CloseRun
  <2>1. open' \in BOOLEAN
    BY <1>8 DEF CloseRun
  <2>2. board' \in BoardStatuses /\ boardAge' \in Nat
    BY <1>8 DEF CloseRun
  <2> QED
    BY <1>8, <2>1, <2>2 DEF CloseRun
<1>9. CASE Tick
  <2>1. \A c : \A n \in Nat : Saturate(n, c) \in Nat
    BY DEF Saturate
  <2>2. age' \in [Gens -> Nat] /\ silence' \in Nat /\ boardAge' \in Nat
    BY <1>9, <2>1 DEF Tick
  <2> QED
    BY <1>9, <2>2 DEF Tick
<1> QED
  BY <1>1, <1>2, <1>3, <1>4, <1>5, <1>6, <1>7, <1>8, <1>9 DEF World

\* The Ready handler starts.
LEMMA StartReadyJob ==
  ASSUME JobsOK, NEW w \in Handlers, StartReady(w)
  PROVE  JobsOK'
<1> DEFINE b == board \in {"todo", "blocked"}
<1> DEFINE j == [Fresh EXCEPT !.pc = "claim", !.role = "ready", !.recovery = b]
<1>1. b \in BOOLEAN /\ "claim" \in Steps /\ "ready" \in Roles
  BY DEF Steps, Roles
<1>2. j \in Jobs
  <2> HIDE DEF b
  <2> QED BY <1>1, FreshJob, JobUpdates
<1>3. job' = [job EXCEPT ![w] = j]
  BY DEF StartReady
<1> QED
  BY <1>2, <1>3, JobReplaced

\* The backstop takes up a stalled claim.
LEMMA RedriveStalledJob ==
  ASSUME DataOK, JobsOK, NEW w \in Handlers, RedriveStalled(w)
  PROVE  JobsOK'
<1> DEFINE j == [job[w] EXCEPT !.pc = "decide", !.snap = task, !.retries = retries]
<1>1. j \in Jobs
  <2>1. "decide" \in Steps
    BY DEF Steps
  <2> QED
    BY <2>1, JobUpdates DEF JobsOK, DataOK
<1>2. job' = [job EXCEPT ![w] = j]
  BY DEF RedriveStalled
<1> QED
  BY <1>1, <1>2, JobReplaced

\* The detector finds a claim dead.
LEMMA FindDeadJob ==
  ASSUME JobsOK, NEW w \in Handlers, FindDead(w)
  PROVE  JobsOK'
<1> DEFINE pc == IF job[w].snap.stamp # 0 THEN "recheck" ELSE "stamp"
<1> DEFINE b == IsLeaseLive(job[w].snap)
<1> DEFINE j == [job[w] EXCEPT !.pc = pc, !.exhausted = b]
<1>1. pc \in Steps
  BY DEF Steps
<1>2. b \in BOOLEAN
  BY DEF IsLeaseLive
<1>3. j \in Jobs
  <2> HIDE DEF b, pc
  <2> QED BY <1>1, <1>2, JobUpdates DEF JobsOK
<1>4. job' = [job EXCEPT ![w] = j]
  BY DEF FindDead
<1> QED
  BY <1>3, <1>4, JobReplaced

\* The reconcile sweep chooses its way to recover.
LEMMA ReconcileJob ==
  ASSUME JobsOK, NEW w \in Handlers, Reconcile(w)
  PROVE  JobsOK'
<1> DEFINE b == board \in {"todo", "blocked"}
<1> DEFINE j == [job[w] EXCEPT !.pc = "claim", !.role = "redrive", !.recovery = b]
<1>1. b \in BOOLEAN /\ {"claim", "rc_recheck", "error"} \subseteq Steps /\ "redrive" \in Roles
  BY DEF Steps, Roles
<1>2. j \in Jobs
  <2> HIDE DEF b
  <2> QED BY <1>1, JobUpdates DEF JobsOK
<1>3. \/ Finish(w)
      \/ job' = [job EXCEPT ![w] = j]
      \/ \E pc \in {"rc_recheck", "error"} : Go(w, pc)
  BY DEF Reconcile
<1> QED
  BY <1>1, <1>2, <1>3, JobReplaced, GoJob, FinishJob

\* The wake after a decision re-drives the ticket.
LEMMA WakeStealJob ==
  ASSUME JobsOK, NEW w \in Handlers, WakeSteal(w)
  PROVE  JobsOK'
<1> DEFINE b == board \in {"todo", "blocked"}
<1> DEFINE j == [job[w] EXCEPT !.pc = "claim", !.recovery = b]
<1>1. b \in BOOLEAN /\ "claim" \in Steps
  BY DEF Steps
<1>2. j \in Jobs
  <2> HIDE DEF b
  <2> QED BY <1>1, JobUpdates DEF JobsOK
<1>3. Finish(w) \/ job' = [job EXCEPT ![w] = j]
  BY DEF WakeSteal
<1> QED
  BY <1>2, <1>3, JobReplaced, FinishJob

\* A decision, a done event or a park event arrives.
LEMMA ReceiveJob ==
  ASSUME DataOK, JobsOK, NEW w \in Handlers,
         WakeAfterDecision(w) \/ ReceiveDone(w) \/ \E g \in Gens : ReceivePark(w, g)
  PROVE  JobsOK'
<1>1. /\ {"wake", "announce", "park_steal"} \subseteq Steps
      /\ {"ready", "done", "park"} \subseteq Roles /\ task \in Tasks
  BY DEF Steps, Roles, DataOK
<1>2. /\ [Fresh EXCEPT !.pc = "wake", !.role = "ready", !.snap = task] \in Jobs
      /\ [Fresh EXCEPT !.pc = "announce", !.role = "done"] \in Jobs
      /\ [Fresh EXCEPT !.pc = "park_steal", !.role = "park", !.snap = task] \in Jobs
  BY <1>1, FreshJob, JobUpdates
<1>3. CASE WakeAfterDecision(w)
  BY <1>2, <1>3, JobReplaced DEF WakeAfterDecision
<1>4. CASE ReceiveDone(w)
  BY <1>2, <1>4, JobReplaced DEF ReceiveDone, JobsOK
<1>5. CASE \E g \in Gens : ReceivePark(w, g)
  BY <1>2, <1>5, JobReplaced DEF ReceivePark, JobsOK
<1> QED
  BY <1>3, <1>4, <1>5

\* Every step leaves a well-formed table of handlers.
LEMMA JobsTyped ==
  ASSUME DataOK, JobsOK, Next
  PROVE  JobsOK'
<1> USE DEF Steps
<1>1. ASSUME NEW w \in Handlers, MoveInProgress(w) PROVE JobsOK'
  BY <1>1, GoJob, FinishJob DEF MoveInProgress
<1>2. ASSUME NEW w \in Handlers, MoveRefused(w) PROVE JobsOK'
  BY <1>2, GoJob, FinishJob DEF MoveRefused
<1>3. ASSUME NEW w \in Handlers, MoveUnavailable(w) PROVE JobsOK'
  BY <1>3, GoJob, FinishJob DEF MoveUnavailable
<1>4. ASSUME NEW w \in Handlers, CheckStillLive(w) PROVE JobsOK'
  BY <1>4, GoJob, AfterInvokeJob DEF CheckStillLive
<1>5. ASSUME NEW w \in Handlers, Send(w) PROVE JobsOK'
  BY <1>5, GoJob, AfterInvokeJob DEF Send
<1>6. ASSUME NEW w \in Handlers, SendFails(w) PROVE JobsOK'
  BY <1>6, GoJob, FinishJob DEF SendFails
<1>7. ASSUME NEW w \in Handlers, ReleaseOnFailure(w) PROVE JobsOK'
  BY <1>7, GoJob, FinishJob DEF ReleaseOnFailure
<1>8. ASSUME NEW w \in Handlers, ParkAfterFailure(w) PROVE JobsOK'
  BY <1>8, GoJob, AfterInvokeJob DEF ParkAfterFailure
<1>9. ASSUME NEW w \in Handlers, FindResidue(w) PROVE JobsOK'
  BY <1>9, GoJob, FinishJob DEF FindResidue
<1>10. ASSUME NEW w \in Handlers, SkipCandidate(w) PROVE JobsOK'
  BY <1>10, GoJob, FinishJob DEF SkipCandidate
<1>11. ASSUME NEW w \in Handlers, Stamp(w) PROVE JobsOK'
  BY <1>11, GoJob, FinishJob DEF Stamp
<1>12. ASSUME NEW w \in Handlers, Recheck(w) PROVE JobsOK'
  BY <1>12, GoJob, FinishJob DEF Recheck
<1>13. ASSUME NEW w \in Handlers, ClearStamp(w) PROVE JobsOK'
  BY <1>13, GoJob, FinishJob DEF ClearStamp
<1>14. ASSUME NEW w \in Handlers, DetectorSteal(w) PROVE JobsOK'
  BY <1>14, StealJob DEF DetectorSteal
<1>15. ASSUME NEW w \in Handlers, Decide(w) PROVE JobsOK'
  BY <1>15, GoJob, FinishJob DEF Decide
<1>16. ASSUME NEW w \in Handlers, EscalateError(w) PROVE JobsOK'
  BY <1>16, GoJob, FinishJob DEF EscalateError
<1>17. ASSUME NEW w \in Handlers, EscalateBlock(w) PROVE JobsOK'
  BY <1>17, GoJob, FinishJob DEF EscalateBlock
<1>18. ASSUME NEW w \in Handlers, EscalatePage(w) PROVE JobsOK'
  BY <1>18, GoJob, FinishJob DEF EscalatePage
<1>19. ASSUME NEW w \in Handlers, ReconcileRecheck(w) PROVE JobsOK'
  BY <1>19, GoJob, FinishJob DEF ReconcileRecheck
<1>20. ASSUME NEW w \in Handlers, ReconcileSteal(w) PROVE JobsOK'
  BY <1>20, StealJob DEF ReconcileSteal
<1>21. ASSUME NEW w \in Handlers, CountRetry(w) PROVE JobsOK'
  BY <1>21, GoJob, FinishJob DEF CountRetry
<1>22. ASSUME NEW w \in Handlers, ReleaseParked(w) PROVE JobsOK'
  BY <1>22, GoJob, FinishJob DEF ReleaseParked
<1>23. ASSUME NEW w \in Handlers, WakeCheck(w) PROVE JobsOK'
  BY <1>23, GoJob, FinishJob DEF WakeCheck
<1>24. ASSUME NEW w \in Handlers, AnnounceDone(w) PROVE JobsOK'
  BY <1>24, GoJob, FinishJob DEF AnnounceDone
<1>25. ASSUME NEW w \in Handlers, Crash(w) PROVE JobsOK'
  BY <1>25, GoJob, FinishJob DEF Crash
<1>26. ASSUME NEW w \in Handlers, ReadyClaim(w) PROVE JobsOK'
  BY <1>26, WonJob, FinishJob DEF ReadyClaim, DataOK
<1>27. ASSUME NEW w \in Handlers, Redispatch(w) PROVE JobsOK'
  BY <1>27, WonJob, AfterInvokeJob DEF Redispatch, DataOK
<1>28. ASSUME NEW w \in Handlers, DetectorScan(w) PROVE JobsOK'
  BY <1>28, ScanJob DEF DetectorScan, DataOK, Roles
<1>29. ASSUME NEW w \in Handlers, ReconcileScan(w) PROVE JobsOK'
  BY <1>29, ScanJob DEF ReconcileScan, DataOK, Roles
<1>30. ASSUME NEW w \in Handlers, StartReady(w) PROVE JobsOK'
  BY <1>30, StartReadyJob
<1>31. ASSUME NEW w \in Handlers, RedriveStalled(w) PROVE JobsOK'
  BY <1>31, RedriveStalledJob
<1>32. ASSUME NEW w \in Handlers, FindDead(w) PROVE JobsOK'
  BY <1>32, FindDeadJob
<1>33. ASSUME NEW w \in Handlers, Reconcile(w) PROVE JobsOK'
  BY <1>33, ReconcileJob
<1>34. ASSUME NEW w \in Handlers, WakeAfterDecision(w) PROVE JobsOK'
  BY <1>34, ReceiveJob
<1>35. ASSUME NEW w \in Handlers, WakeSteal(w) PROVE JobsOK'
  BY <1>35, WakeStealJob
<1>36. ASSUME NEW w \in Handlers, ReceiveDone(w) PROVE JobsOK'
  BY <1>36, ReceiveJob
<1>37. ASSUME NEW w \in Handlers, NEW g \in Gens, ReceivePark(w, g) PROVE JobsOK'
  BY <1>37, ReceiveJob
<1>38. CASE Tick
  <2>1. \A w \in Handlers : [job[w] EXCEPT !.late = TRUE] \in Jobs
    BY JobUpdates DEF JobsOK
  <2> QED
    BY <1>38, <2>1, IdleJob DEF Tick, JobsOK
<1>39. CASE World
  BY <1>39 DEF World, BlockerCloses, PersonReadies, CloseRun, Beat, SessionDies,
     SessionCompletes, SessionParks, JobsOK
<1> QED
  BY <1>1, <1>2, <1>3, <1>4, <1>5, <1>6, <1>7, <1>8, <1>9, <1>10, <1>11,
     <1>12, <1>13, <1>14, <1>15, <1>16, <1>17, <1>18, <1>19, <1>20, <1>21,
     <1>22, <1>23, <1>24, <1>25, <1>26, <1>27, <1>28, <1>29, <1>30, <1>31,
     <1>32, <1>33, <1>34, <1>35, <1>36, <1>37, <1>38, <1>39 DEF Next, Begin, Continue

\* Every step keeps TypeOK.
LEMMA TypeInductive == TypeOK /\ [Next]_vars => TypeOK'
<1> SUFFICES ASSUME TypeOK, [Next]_vars PROVE TypeOK'
  OBVIOUS
<1> USE TypeParts
<1>1. CASE UNCHANGED vars
  BY <1>1 DEF TypeOK, vars, clockVars
<1>2. CASE Next
  <2>1. JobsOK'
    BY <1>2, JobsTyped
  <2>2. DataOK'
    BY <1>2, DispatchData, SweepData, EventData, WorldData DEF Next, Begin, Continue
  <2> QED
    BY <2>1, <2>2 DEF TypeOK, DataOK, JobsOK
<1> QED
  BY <1>1, <1>2

\* The initial states satisfy TypeOK.
LEMMA TypeInit == Init => TypeOK
<1> SUFFICES ASSUME Init PROVE DataOK /\ JobsOK
  BY TypeParts
<1>1. JobsOK
  BY IdleJob DEF Init, JobsOK
<1>2. task \in Tasks /\ lastDone \in GensOrNone
  BY ClaimsAssumption DEF Init, Tasks, TaskStatuses, GensOrNone
<1>3. inbox \subseteq Events
  BY ReadyIsEvent DEF Init
<1>4. {retries, auto, faults, moves, boardAge, silence} \subseteq Nat
  BY TimeAssumption DEF Init, SilenceCap
<1>5. age \in [Gens -> Nat] /\ sess \in [Gens -> Sessions]
  BY DEF Init, Sessions
<1> QED
  BY <1>1, <1>2, <1>3, <1>4, <1>5 DEF Init, DataOK, BoardStatuses

\* Every variable stays in its domain, whatever interleaving of handlers,
\* sweeps, sessions and people.
THEOREM TypeCorrect == Spec => []TypeOK
  BY TypeInit, TypeInductive, PTL DEF Spec

-------------------------------------------------------------------------------
(* 3. What a step may do to the run, the claim and its sessions *)

lockView == <<open, task, age, sess>>

Wins == \E w \in Handlers, pc \in {"board", "check"} : WinClaim(w, pc) /\ UNCHANGED <<open, sess>>
Frees ==
  /\ \E s \in TaskStatuses \ {"running"} : task' = [task EXCEPT !.status = s]
  /\ UNCHANGED <<open, age, sess>>
Stamps ==
  /\ \E n \in {0, task.gen} : task' = [task EXCEPT !.stamp = n]
  /\ UNCHANGED <<open, age, sess>>
Starts ==
  /\ \E w \in Handlers : (Send(w) \/ SendFails(w)) /\ StartSession(job[w].snap.gen)
  /\ UNCHANGED <<open, task, age>>
Ends ==
  /\ \E g \in Gens, end \in Endings : sess[g] = "alive" /\ sess' = [sess EXCEPT ![g] = end]
  /\ UNCHANGED <<open, task, age>>

StepKinds == UNCHANGED lockView \/ Wins \/ Frees \/ Stamps \/ Starts \/ Ends \/ CloseRun \/ Tick

\* A steal frees the claim or leaves it alone.
LEMMA StealKind ==
  ASSUME NEW w \in Handlers, NEW pc, Steal(w, pc), UNCHANGED <<open, age, sess>>
  PROVE  Frees \/ UNCHANGED lockView
  BY DEF Steal, Frees, lockView, TaskStatuses

\* A step of a handler is of one of the kinds above.
LEMMA HandlerKinds ==
  ASSUME NEW w \in Handlers, Begin(w) \/ Continue(w) \/ Crash(w)
  PROVE  StepKinds
<1> USE DEF lockView, clockVars, worldVars, unchangedByDetect
<1>1. CASE StartReady(w)
  BY <1>1 DEF StartReady, StepKinds
<1>2. CASE MoveInProgress(w)
  BY <1>2 DEF MoveInProgress, StepKinds
<1>3. CASE MoveRefused(w)
  BY <1>3 DEF MoveRefused, StepKinds
<1>4. CASE CheckStillLive(w)
  BY <1>4 DEF CheckStillLive, StepKinds
<1>5. CASE ParkAfterFailure(w)
  BY <1>5 DEF ParkAfterFailure, StepKinds
<1>6. CASE DetectorScan(w)
  BY <1>6 DEF DetectorScan, StepKinds, Scan
<1>7. CASE RedriveStalled(w)
  BY <1>7 DEF RedriveStalled, StepKinds
<1>8. CASE FindResidue(w)
  BY <1>8 DEF FindResidue, StepKinds
<1>9. CASE FindDead(w)
  BY <1>9 DEF FindDead, StepKinds
<1>10. CASE SkipCandidate(w)
  BY <1>10 DEF SkipCandidate, StepKinds
<1>11. CASE Recheck(w)
  BY <1>11 DEF Recheck, StepKinds
<1>12. CASE Decide(w)
  BY <1>12 DEF Decide, StepKinds
<1>13. CASE EscalateBlock(w)
  BY <1>13 DEF EscalateBlock, StepKinds
<1>14. CASE EscalatePage(w)
  BY <1>14 DEF EscalatePage, StepKinds
<1>15. CASE ReconcileScan(w)
  BY <1>15 DEF ReconcileScan, StepKinds, Scan
<1>16. CASE Reconcile(w)
  BY <1>16 DEF Reconcile, StepKinds
<1>17. CASE ReconcileRecheck(w)
  BY <1>17 DEF ReconcileRecheck, StepKinds
<1>18. CASE CountRetry(w)
  BY <1>18 DEF CountRetry, StepKinds
<1>19. CASE WakeAfterDecision(w)
  BY <1>19 DEF WakeAfterDecision, StepKinds
<1>20. CASE WakeCheck(w)
  BY <1>20 DEF WakeCheck, StepKinds
<1>21. CASE AnnounceDone(w)
  BY <1>21 DEF AnnounceDone, StepKinds
<1>22. CASE Crash(w)
  BY <1>22 DEF Crash, StepKinds
<1>23. CASE \E g \in Gens : ReceivePark(w, g)
  BY <1>23 DEF ReceivePark, StepKinds
<1>24. CASE ReadyClaim(w)
  BY <1>24 DEF ReadyClaim, StepKinds, Wins
<1>25. CASE Redispatch(w)
  BY <1>25 DEF Redispatch, StepKinds, Wins
<1>26. CASE MoveUnavailable(w)
  BY <1>26 DEF MoveUnavailable, StepKinds, Frees, TaskStatuses
<1>27. CASE Send(w)
  BY <1>27 DEF Send, StepKinds, Starts
<1>28. CASE SendFails(w)
  BY <1>28 DEF SendFails, StepKinds, Starts
<1>29. CASE ReleaseOnFailure(w)
  BY <1>29 DEF ReleaseOnFailure, StepKinds, Frees, TaskStatuses
<1>30. CASE EscalateError(w)
  BY <1>30 DEF EscalateError, StepKinds, Frees, TaskStatuses
<1>31. CASE ReleaseParked(w)
  BY <1>31 DEF ReleaseParked, StepKinds, Frees, TaskStatuses
<1>32. CASE WakeSteal(w)
  BY <1>32 DEF WakeSteal, StepKinds, Frees, TaskStatuses
<1>33. CASE ReceiveDone(w)
  BY <1>33 DEF ReceiveDone, StepKinds, Frees, TaskStatuses
<1>34. CASE Stamp(w)
  BY <1>34 DEF Stamp, StepKinds, Stamps
<1>35. CASE ClearStamp(w)
  BY <1>35 DEF ClearStamp, StepKinds, Stamps
<1>36. CASE DetectorSteal(w)
  BY <1>36, StealKind DEF DetectorSteal, StepKinds
<1>37. CASE ReconcileSteal(w)
  BY <1>37, StealKind DEF ReconcileSteal, StepKinds
<1> QED
  BY <1>1, <1>2, <1>3, <1>4, <1>5, <1>6, <1>7, <1>8, <1>9, <1>10, <1>11,
     <1>12, <1>13, <1>14, <1>15, <1>16, <1>17, <1>18, <1>19, <1>20, <1>21,
     <1>22, <1>23, <1>24, <1>25, <1>26, <1>27, <1>28, <1>29, <1>30, <1>31,
     <1>32, <1>33, <1>34, <1>35, <1>36, <1>37 DEF Begin, Continue

\* Every step is of one of the kinds above.
LEMMA Kinds ==
  ASSUME [Next]_vars
  PROVE  StepKinds
<1>1. CASE UNCHANGED vars
  BY <1>1 DEF vars, StepKinds, lockView, clockVars
<1>2. CASE \E w \in Handlers : Begin(w) \/ Continue(w) \/ Crash(w)
  BY <1>2, HandlerKinds
<1>3. CASE World
  <2>1. CASE BlockerCloses \/ PersonReadies \/ \E g \in Gens : Beat(g)
    BY <2>1 DEF BlockerCloses, PersonReadies, Beat, StepKinds, lockView, clockVars, worldVars
  <2>2. CASE \E g \in Gens : SessionDies(g) \/ SessionCompletes(g) \/ SessionParks(g)
    BY <2>2 DEF SessionDies, SessionCompletes, SessionParks, StepKinds, Ends, Ended, clockVars
  <2>3. CASE CloseRun
    BY <2>3 DEF StepKinds
  <2> QED
    BY <1>3, <2>1, <2>2, <2>3 DEF World
<1>4. CASE Tick
  BY <1>4 DEF StepKinds
<1> QED
  BY <1>1, <1>2, <1>3, <1>4 DEF Next

\* No re-issued claim inherits the dead-session stamp of an earlier one.
THEOREM StampCorrect == Spec => []StampIsOwn
<1>1. Init => StampIsOwn
  BY DEF Init, StampIsOwn
<1>2. TypeOK /\ StampIsOwn /\ [Next]_vars => StampIsOwn'
  <2> SUFFICES ASSUME TypeOK, StampIsOwn, [Next]_vars PROVE StampIsOwn'
    OBVIOUS
  <2>1. task \in Tasks
    BY DEF TypeOK
  <2>2. CASE Wins
    BY <2>2 DEF Wins, WinClaim, NewClaim, StampIsOwn
  <2>3. CASE Frees
    BY <2>1, <2>3 DEF Frees, Tasks, StampIsOwn
  <2>4. CASE Stamps
    BY <2>1, <2>4 DEF Stamps, Tasks, StampIsOwn
  <2>5. CASE UNCHANGED task
    BY <2>5 DEF StampIsOwn
  <2> QED
    BY <2>2, <2>3, <2>4, <2>5, Kinds DEF StepKinds, lockView, Starts, Ends, CloseRun, Tick
<1> QED
  BY <1>1, <1>2, TypeCorrect, PTL DEF Spec

-------------------------------------------------------------------------------
(* 4. Fencing *)

DispatchSteps == {"board", "check", "send"}

\* A handler keeps the dispatch it has, or has none.
KeepsOf(v) ==
  job'[v].pc \in DispatchSteps =>
    job[v].pc \in DispatchSteps /\ job'[v].snap = job[v].snap
Keeps == \A v \in Handlers : KeepsOf(v)

\* No handler enters a dispatch by going on to a step outside one.
LEMMA GoKeeps ==
  ASSUME JobsOK, NEW w \in Handlers, NEW pc, Go(w, pc),
         pc \in DispatchSteps => job[w].pc \in DispatchSteps
  PROVE  Keeps /\ job'[w].pc = pc
  BY DEF JobsOK, Jobs, Go, Keeps, KeepsOf

\* A handler that returns leaves its dispatch.
LEMMA FinishKeeps ==
  ASSUME JobsOK, NEW w \in Handlers, Finish(w)
  PROVE  Keeps /\ job'[w].pc \notin DispatchSteps
  BY DEF JobsOK, Finish, Keeps, KeepsOf, Idle, DispatchSteps

\* A job outside a dispatch replaces another.
LEMMA ReplacedKeeps ==
  ASSUME JobsOK, NEW w \in Handlers, NEW j, j.pc \notin DispatchSteps,
         job' = [job EXCEPT ![w] = j]
  PROVE  Keeps
  BY DEF JobsOK, Keeps, KeepsOf

\* Back from invokeAgent, the dispatch is over.
LEMMA AfterInvokeKeeps ==
  ASSUME JobsOK, NEW w \in Handlers, AfterInvoke(w)
  PROVE  Keeps /\ job'[w].pc \notin DispatchSteps
  BY GoKeeps, FinishKeeps DEF AfterInvoke, DispatchSteps

\* A steal starts no dispatch.
LEMMA StealKeeps ==
  ASSUME JobsOK, NEW w \in Handlers, NEW pc, pc \notin DispatchSteps, Steal(w, pc)
  PROVE  Keeps
  BY GoKeeps, FinishKeeps DEF Steal

\* Nothing happens to the handlers.
LEMMA SameKeeps ==
  ASSUME UNCHANGED job
  PROVE  Keeps
  BY DEF Keeps, KeepsOf

\* A handler that wins no claim enters no dispatch.
LEMMA HandlerKeeps ==
  ASSUME DataOK, JobsOK, NEW w \in Handlers, Begin(w) \/ Continue(w) \/ Crash(w), ~Wins
  PROVE  Keeps
<1>1. CASE MoveInProgress(w)
  BY <1>1, GoKeeps, FinishKeeps DEF MoveInProgress, DispatchSteps
<1>2. CASE MoveRefused(w)
  BY <1>2, GoKeeps, FinishKeeps DEF MoveRefused, DispatchSteps
<1>3. CASE MoveUnavailable(w)
  BY <1>3, GoKeeps, FinishKeeps DEF MoveUnavailable, DispatchSteps
<1>4. CASE SendFails(w)
  BY <1>4, GoKeeps, FinishKeeps DEF SendFails, DispatchSteps
<1>5. CASE ReleaseOnFailure(w)
  BY <1>5, GoKeeps, FinishKeeps DEF ReleaseOnFailure, DispatchSteps
<1>6. CASE FindResidue(w)
  BY <1>6, GoKeeps, FinishKeeps DEF FindResidue, DispatchSteps
<1>7. CASE SkipCandidate(w)
  BY <1>7, GoKeeps, FinishKeeps DEF SkipCandidate, DispatchSteps
<1>8. CASE Stamp(w)
  BY <1>8, GoKeeps, FinishKeeps DEF Stamp, DispatchSteps
<1>9. CASE Recheck(w)
  BY <1>9, GoKeeps, FinishKeeps DEF Recheck, DispatchSteps
<1>10. CASE ClearStamp(w)
  BY <1>10, GoKeeps, FinishKeeps DEF ClearStamp, DispatchSteps
<1>11. CASE Decide(w)
  BY <1>11, GoKeeps, FinishKeeps DEF Decide, DispatchSteps
<1>12. CASE EscalateError(w)
  BY <1>12, GoKeeps, FinishKeeps DEF EscalateError, DispatchSteps
<1>13. CASE EscalateBlock(w)
  BY <1>13, GoKeeps, FinishKeeps DEF EscalateBlock, DispatchSteps
<1>14. CASE EscalatePage(w)
  BY <1>14, GoKeeps, FinishKeeps DEF EscalatePage, DispatchSteps
<1>15. CASE ReconcileRecheck(w)
  BY <1>15, GoKeeps, FinishKeeps DEF ReconcileRecheck, DispatchSteps
<1>16. CASE CountRetry(w)
  BY <1>16, GoKeeps, FinishKeeps DEF CountRetry, DispatchSteps
<1>17. CASE ReleaseParked(w)
  BY <1>17, GoKeeps, FinishKeeps DEF ReleaseParked, DispatchSteps
<1>18. CASE WakeCheck(w)
  BY <1>18, GoKeeps, FinishKeeps DEF WakeCheck, DispatchSteps
<1>19. CASE AnnounceDone(w)
  BY <1>19, GoKeeps, FinishKeeps DEF AnnounceDone, DispatchSteps
<1>20. CASE Crash(w)
  BY <1>20, GoKeeps, FinishKeeps DEF Crash, DispatchSteps
<1>21. CASE CheckStillLive(w)
  BY <1>21, GoKeeps, AfterInvokeKeeps DEF CheckStillLive, DispatchSteps
<1>22. CASE Send(w)
  BY <1>22, GoKeeps, AfterInvokeKeeps DEF Send, DispatchSteps
<1>23. CASE ParkAfterFailure(w)
  BY <1>23, GoKeeps, AfterInvokeKeeps DEF ParkAfterFailure, DispatchSteps
<1>24. CASE DetectorSteal(w)
  BY <1>24, StealKeeps DEF DetectorSteal, DispatchSteps
<1>25. CASE ReconcileSteal(w)
  BY <1>25, StealKeeps DEF ReconcileSteal, DispatchSteps
<1>26. CASE ReadyClaim(w)
  BY <1>26, FinishKeeps DEF ReadyClaim, Wins, worldVars
<1>27. CASE Redispatch(w)
  BY <1>27, AfterInvokeKeeps DEF Redispatch, Wins, worldVars
<1>28. CASE StartReady(w)
  BY <1>28 DEF StartReady, Go, Finish, Idle, Fresh, JobsOK, Jobs, Keeps, KeepsOf, DispatchSteps
<1>29. CASE DetectorScan(w)
  BY <1>29 DEF DetectorScan, Scan, Go, Finish, Idle, Fresh, JobsOK, Jobs, Keeps, KeepsOf, DispatchSteps
<1>30. CASE ReconcileScan(w)
  BY <1>30 DEF ReconcileScan, Scan, Go, Finish, Idle, Fresh, JobsOK, Jobs, Keeps, KeepsOf, DispatchSteps
<1>31. CASE WakeAfterDecision(w)
  BY <1>31 DEF WakeAfterDecision, Go, Finish, Idle, Fresh, JobsOK, Jobs, Keeps, KeepsOf, DispatchSteps
<1>32. CASE RedriveStalled(w)
  BY <1>32 DEF RedriveStalled, Go, Finish, Idle, Fresh, JobsOK, Jobs, Keeps, KeepsOf, DispatchSteps
<1>33. CASE FindDead(w)
  BY <1>33 DEF FindDead, Go, Finish, Idle, Fresh, JobsOK, Jobs, Keeps, KeepsOf, DispatchSteps
<1>34. CASE Reconcile(w)
  <2>1. [job[w] EXCEPT !.pc = "claim", !.role = "redrive",
                     !.recovery = board \in {"todo", "blocked"}].pc = "claim"
    BY DEF JobsOK, Jobs
  <2>2. \/ Finish(w)
        \/ \E j : j.pc = "claim" /\ job' = [job EXCEPT ![w] = j]
        \/ \E pc \in {"rc_recheck", "error"} : Go(w, pc)
    BY <1>34, <2>1 DEF Reconcile
  <2> QED
    BY <2>2, FinishKeeps, ReplacedKeeps, GoKeeps DEF DispatchSteps
<1>35. CASE WakeSteal(w)
  <2>1. [job[w] EXCEPT !.pc = "claim", !.recovery = board \in {"todo", "blocked"}].pc = "claim"
    BY DEF JobsOK, Jobs
  <2>2. \/ Finish(w)
        \/ \E j : j.pc = "claim" /\ job' = [job EXCEPT ![w] = j]
    BY <1>35, <2>1 DEF WakeSteal
  <2> QED
    BY <2>2, FinishKeeps, ReplacedKeeps DEF DispatchSteps
<1>36. CASE ReceiveDone(w)
  <2>1. \/ UNCHANGED job
        \/ \E j : j.pc = "announce" /\ job' = [job EXCEPT ![w] = j]
    BY <1>36, FreshJob DEF ReceiveDone, Jobs
  <2> QED
    BY <2>1, SameKeeps, ReplacedKeeps DEF DispatchSteps
<1>37. CASE \E g \in Gens : ReceivePark(w, g)
  <2>1. \/ UNCHANGED job
        \/ \E j : j.pc = "park_steal" /\ job' = [job EXCEPT ![w] = j]
    BY <1>37, FreshJob DEF ReceivePark, Jobs
  <2> QED
    BY <2>1, SameKeeps, ReplacedKeeps DEF DispatchSteps
<1> QED
  BY <1>1, <1>2, <1>3, <1>4, <1>5, <1>6, <1>7, <1>8, <1>9, <1>10, <1>11,
     <1>12, <1>13, <1>14, <1>15, <1>16, <1>17, <1>18, <1>19, <1>20, <1>21,
     <1>22, <1>23, <1>24, <1>25, <1>26, <1>27, <1>28, <1>29, <1>30, <1>31,
     <1>32, <1>33, <1>34, <1>35, <1>36, <1>37 DEF Begin, Continue

\* Only a won claim lets a handler enter a dispatch.
LEMMA StepKeeps ==
  ASSUME DataOK, JobsOK, [Next]_vars, ~Wins
  PROVE  Keeps
<1>1. CASE \E w \in Handlers : Begin(w) \/ Continue(w) \/ Crash(w)
  BY <1>1, HandlerKeeps
<1>2. CASE World \/ UNCHANGED vars
  BY <1>2, SameKeeps DEF World, BlockerCloses, PersonReadies, CloseRun, Beat, SessionDies,
     SessionCompletes, SessionParks, vars
<1>3. CASE Tick
  BY <1>3 DEF Tick, Keeps, KeepsOf, JobsOK, Jobs, Idle, DispatchSteps
<1> QED
  BY <1>1, <1>2, <1>3 DEF Next

\* What keeps sessions apart: no generation beyond the current one has a session,
\* and a dispatch in flight holds an issued generation, without a session, alone.
Fencing ==
  /\ \A g \in Gens : g > task.gen => sess[g] = "none"
  /\ \A w \in Handlers : job[w].pc \in DispatchSteps =>
       /\ job[w].snap.gen \in 1 .. task.gen
       /\ sess[job[w].snap.gen] = "none"
       /\ \A v \in Handlers \ {w} :
            job[v].pc \in DispatchSteps => job[v].snap.gen # job[w].snap.gen

\* Fencing survives a step that neither claims nor starts a session.
LEMMA FencedByQuiet ==
  ASSUME Fencing, Keeps, task'.gen = task.gen,
         \A g \in Gens : sess[g] = "none" => sess'[g] = "none",
         task.gen \in GensOrNone
  PROVE  Fencing'
<1>1. 1 .. task.gen \subseteq Gens
  BY ClaimsAssumption DEF Gens, GensOrNone
<1> QED
  BY <1>1 DEF Fencing, Keeps, KeepsOf

\* Fencing survives a won claim: its generation is new to everybody.
LEMMA FencedByWin ==
  ASSUME DataOK, JobsOK, Fencing, Wins
  PROVE  Fencing'
<1>1. PICK w \in Handlers, pc \in {"board", "check"} :
         WinClaim(w, pc) /\ UNCHANGED <<open, sess>>
  BY DEF Wins
<1>2. /\ task.gen \in Nat /\ task'.gen = task.gen + 1 /\ task.gen + 1 \in Gens
      /\ \A g \in Gens : g \in Nat
  BY <1>1, ClaimsAssumption DEF WinClaim, NewClaim, DataOK, Tasks, GensOrNone, Gens
<1>3. /\ job'[w].snap.gen = task.gen + 1
      /\ \A v \in Handlers \ {w} : job'[v] = job[v]
  BY <1>1 DEF WinClaim, NewClaim, JobsOK, Jobs
<1>4. \A g \in Gens : g > task'.gen => sess'[g] = "none"
  BY <1>1, <1>2 DEF Fencing
<1>5. sess'[task.gen + 1] = "none"
  BY <1>1, <1>2 DEF Fencing
<1>6. \A v \in Handlers \ {w} : job'[v].pc \in DispatchSteps =>
        /\ job'[v].snap.gen \in 1 .. task.gen
        /\ sess'[job'[v].snap.gen] = "none"
        /\ \A u \in Handlers \ {v, w} :
             job'[u].pc \in DispatchSteps => job'[u].snap.gen # job'[v].snap.gen
  BY <1>1, <1>3 DEF Fencing
<1> QED
  BY <1>2, <1>3, <1>4, <1>5, <1>6 DEF Fencing

\* Fencing survives the send: the sender leaves its dispatch for good.
LEMMA FencedByStart ==
  ASSUME DataOK, JobsOK, Fencing, Keeps, Starts
  PROVE  Fencing'
<1>1. PICK w \in Handlers : (Send(w) \/ SendFails(w)) /\ StartSession(job[w].snap.gen)
  BY DEF Starts
<1>2. job[w].pc \in DispatchSteps
  BY <1>1 DEF Send, SendFails, DispatchSteps
<1>3. job'[w].pc \notin DispatchSteps
  BY <1>1, AfterInvokeKeeps, GoKeeps DEF Send, SendFails, DispatchSteps
<1> DEFINE h == job[w].snap.gen
<1>4. h \in 1 .. task.gen /\ UNCHANGED task /\ task.gen \in Nat
  BY <1>2 DEF Fencing, Starts, DataOK, Tasks, GensOrNone
<1>5. \A g \in Gens : sess'[g] = IF g = h THEN "alive" ELSE sess[g]
  BY <1>1 DEF StartSession, DataOK
<1>6. \A g \in Gens : g > task'.gen => sess'[g] = "none"
  BY <1>4, <1>5 DEF Fencing, Gens
<1>7. \A v \in Handlers : job'[v].pc \in DispatchSteps =>
        /\ v # w
        /\ job[v].pc \in DispatchSteps /\ job'[v].snap = job[v].snap
        /\ job[v].snap.gen # h
  BY <1>2, <1>3 DEF Keeps, KeepsOf, Fencing
<1>8. \A g \in 1 .. task.gen : g \in Gens
  BY ClaimsAssumption DEF Gens, DataOK, Tasks, GensOrNone
<1> QED
  BY <1>4, <1>5, <1>6, <1>7, <1>8 DEF Fencing

\* Every step keeps Fencing.
LEMMA FencingInductive == TypeOK /\ Fencing /\ [Next]_vars => Fencing'
<1> SUFFICES ASSUME TypeOK, Fencing, [Next]_vars PROVE Fencing'
  OBVIOUS
<1>1. DataOK /\ JobsOK
  BY TypeParts
<1>2. CASE Wins
  BY <1>1, <1>2, FencedByWin
<1>3. CASE ~Wins /\ Starts
  BY <1>1, <1>3, StepKeeps, FencedByStart
<1>4. CASE ~Wins /\ ~Starts
  <2>1. Keeps
    BY <1>1, <1>4, StepKeeps
  <2>2. StepKinds
    BY Kinds
  <2>3. task'.gen = task.gen /\ task.gen \in GensOrNone
    BY <1>1, <1>4, <2>2
    DEF StepKinds, lockView, Frees, Stamps, Ends, CloseRun, Tick, DataOK, Tasks
  <2>4. CASE Ends
    <3>1. \A g \in Gens : sess[g] = "none" => sess'[g] = "none"
      BY <1>1, <2>4 DEF Ends, DataOK
    <3> QED
      BY <2>1, <2>3, <3>1, FencedByQuiet
  <2>5. CASE ~Ends
    <3>1. UNCHANGED sess
      BY <1>4, <2>2, <2>5 DEF StepKinds, lockView, Frees, Stamps, CloseRun, Tick, worldVars
    <3> QED
      BY <2>1, <2>3, <3>1, FencedByQuiet
  <2> QED
    BY <2>4, <2>5
<1> QED
  BY <1>2, <1>3, <1>4

\* The initial states satisfy Fencing.
LEMMA FencingInit == Init => Fencing
  BY DEF Init, Fencing, Idle, DispatchSteps

\* Fencing, the invariant that OneSessionPerClaim and the refinement rest on:
\* what a dispatch holds is a claim nobody else dispatches and no session has.
THEOREM FencingCorrect == Spec => []Fencing
  BY FencingInit, FencingInductive, TypeCorrect, PTL DEF Spec

\* One agent session per claim, for any number of handlers.
THEOREM SessionsFenced == Spec => []OneSessionPerClaim
<1>1. Fencing => OneSessionPerClaim
  BY DEF Fencing, OneSessionPerClaim, Dispatching, DispatchSteps
<1> QED
  BY <1>1, FencingCorrect, PTL

-------------------------------------------------------------------------------
(* 5. The claim implements the abstract lock *)

Expired == task.gen # 0 /\ age[task.gen] > StaleAge
Sent == {g \in Gens : sess[g] # "none"}

\* A step that leaves the claim, its age and the set of started sessions alone.
LEMMA LockStutters ==
  ASSUME UNCHANGED <<open, task, age>>, Sent' = Sent
  PROVE  UNCHANGED Lock!lockVars
  BY DEF Lock!lockVars, Sent

\* A won claim is an Acquire of the lock.
LEMMA LockAcquires ==
  ASSUME DataOK, Wins
  PROVE  Lock!Acquire
<1>1. PICK w \in Handlers, pc \in {"board", "check"} :
         WinClaim(w, pc) /\ UNCHANGED <<open, sess>>
  BY DEF Wins
<1>0. StaleAge \in Nat
  BY TimeAssumption DEF StaleAge, STALE_CLAIM_MULTIPLIER
<1>2. /\ task.gen \in Nat /\ task.gen + 1 \in Gens /\ StaleAge \in Nat
      /\ task'.gen = task.gen + 1 /\ task'.status = "running"
  BY <1>0, <1>1, ClaimsAssumption DEF WinClaim, NewClaim, DataOK, Tasks, GensOrNone, Gens
<1>3. open /\ (task.status # "running" \/ Expired)
  BY <1>1 DEF WinClaim, CanClaim, Expired
<1>4. age'[task'.gen] = 0
  BY <1>1, <1>2 DEF WinClaim, DataOK
<1>5. ~(age'[task'.gen] > StaleAge)
  BY <1>2, <1>4
<1> QED
  BY <1>1, <1>2, <1>3, <1>5 DEF Lock!Acquire, Expired

\* Whoever flips, completes or overwrites the claim releases the lock.
LEMMA LockReleases ==
  ASSUME DataOK, Frees
  PROVE  Lock!Release \/ UNCHANGED Lock!lockVars
<1>1. task'.gen = task.gen /\ task'.status # "running"
  BY DEF Frees, DataOK, Tasks
<1>2. UNCHANGED <<open, age, sess>>
  BY DEF Frees
<1> QED
  BY <1>1, <1>2 DEF Lock!Release, Lock!lockVars

\* The send starts the one session of its generation.
LEMMA LockStarts ==
  ASSUME DataOK, JobsOK, Fencing, Starts
  PROVE  Lock!StartSession
<1>1. PICK w \in Handlers : (Send(w) \/ SendFails(w)) /\ StartSession(job[w].snap.gen)
  BY DEF Starts
<1>2. job[w].pc \in DispatchSteps
  BY <1>1 DEF Send, SendFails, DispatchSteps
<1> DEFINE h == job[w].snap.gen
<1>3. h \in 1 .. task.gen /\ h \in Gens /\ sess[h] = "none"
  BY <1>2, ClaimsAssumption DEF Fencing, DataOK, Tasks, GensOrNone, Gens
<1>4. sess' = [sess EXCEPT ![h] = "alive"]
  BY <1>1 DEF StartSession
<1>5. h \notin Sent /\ Sent' = Sent \cup {h}
  BY <1>3, <1>4 DEF Sent, DataOK
<1> QED
  BY <1>3, <1>5 DEF Lock!StartSession, Sent, Starts

\* Time only ever expires a claim.
LEMMA LockTicks ==
  ASSUME DataOK, Tick
  PROVE  Lock!Expire \/ UNCHANGED Lock!lockVars
<1>1. \A c : \A n \in Nat : Saturate(n, c) \in Nat /\ Saturate(n, c) >= n
  BY DEF Saturate
<1>2. StaleAge \in Nat /\ UNCHANGED <<open, task, sess>>
  BY TimeAssumption DEF StaleAge, STALE_CLAIM_MULTIPLIER, Tick, worldVars
<1>3. \A g \in Gens : age[g] \in Nat /\ age'[g] \in Nat /\ age'[g] >= age[g]
  BY <1>1 DEF Tick, DataOK
<1>4. task.gen # 0 => task.gen \in Gens
  BY ClaimsAssumption DEF DataOK, Tasks, GensOrNone, Gens
<1>5. Expired => Expired'
  BY <1>2, <1>3, <1>4 DEF Expired
<1>6. CASE Expired' <=> Expired
  BY <1>2, <1>6 DEF Lock!lockVars, Expired
<1>7. CASE ~Expired /\ Expired'
  BY <1>2, <1>7 DEF Lock!Expire, Expired
<1> QED
  BY <1>5, <1>6, <1>7

\* Every step is a step of the lock or a stutter.
LEMMA LockSteps == TypeOK /\ Fencing /\ [Next]_vars => [Lock!Next]_(Lock!lockVars)
<1> SUFFICES ASSUME TypeOK, Fencing, [Next]_vars
             PROVE  Lock!Next \/ UNCHANGED Lock!lockVars
  OBVIOUS
<1>1. DataOK /\ JobsOK
  BY TypeParts
<1>2. CASE UNCHANGED lockView
  BY <1>2, LockStutters DEF lockView, Sent
<1>3. CASE Wins
  BY <1>1, <1>3, LockAcquires DEF Lock!Next
<1>4. CASE Frees
  BY <1>1, <1>4, LockReleases DEF Lock!Next
<1>5. CASE Stamps
  <2>1. task'.gen = task.gen /\ task'.status = task.status /\ UNCHANGED <<open, age, sess>>
    BY <1>1, <1>5 DEF Stamps, DataOK, Tasks
  <2> QED
    BY <2>1 DEF Lock!lockVars
<1>6. CASE Starts
  BY <1>1, <1>6, LockStarts DEF Lock!Next
<1>7. CASE Ends
  <2>1. UNCHANGED <<open, task, age>> /\ Sent' = Sent
    BY <1>1, <1>7, EndingsAssumption DEF Ends, Sent, DataOK, Ended
  <2> QED
    BY <2>1, LockStutters
<1>8. CASE CloseRun
  BY <1>8 DEF CloseRun, clockVars, worldVars, Lock!Close, Lock!Next
<1>9. CASE Tick
  BY <1>1, <1>9, LockTicks DEF Lock!Next
<1> QED
  BY <1>2, <1>3, <1>4, <1>5, <1>6, <1>7, <1>8, <1>9, Kinds DEF StepKinds

\* The initial states map to initial states of the lock.
LEMMA LockInit == Init => Lock!Init
  BY DEF Init, Lock!Init

\* The claim implements the lock of ClaimLock, whoever steals, releases,
\* completes or overwrites it.
THEOREM LockImplemented == Spec => LockSpec
  BY LockInit, LockSteps, TypeCorrect, FencingCorrect, PTL DEF Spec, LockSpec, Lock!Spec

-------------------------------------------------------------------------------
(* 6. A closed run *)

OthersStay(w) == \A v \in Handlers \ {w} : job'[v] = job[v]

\* The handler goes on and keeps what it knows.
LEMMA GoMoves ==
  ASSUME JobsOK, NEW w \in Handlers, NEW pc, Go(w, pc)
  PROVE  /\ OthersStay(w)
         /\ job'[w].pc = pc /\ job'[w].role = job[w].role /\ job'[w].snap = job[w].snap
         /\ job'[w].retries = job[w].retries /\ job'[w].late = job[w].late
  BY DEF JobsOK, Jobs, Go, OthersStay

\* The handler returns.
LEMMA FinishMoves ==
  ASSUME JobsOK, NEW w \in Handlers, Finish(w)
  PROVE  OthersStay(w) /\ job'[w] = Idle /\ Idle.pc = "idle" /\ Idle.role = "none"
  BY DEF JobsOK, Finish, OthersStay, Idle

\* A handler's job is replaced.
LEMMA ReplacedMoves ==
  ASSUME JobsOK, NEW w \in Handlers, NEW j, job' = [job EXCEPT ![w] = j]
  PROVE  OthersStay(w) /\ job'[w] = j
  BY DEF JobsOK, OthersStay

\* Back from invokeAgent, the sweep counts and the others return.
LEMMA AfterInvokeMoves ==
  ASSUME JobsOK, NEW w \in Handlers, AfterInvoke(w)
  PROVE  /\ OthersStay(w)
         /\ job[w].role = "reconcile" =>
              /\ job'[w].pc = "count" /\ job'[w].role = "reconcile"
              /\ job'[w].late = job[w].late
         /\ job[w].role # "reconcile" => job'[w] = Idle
         /\ job'[w].pc \in {"idle", "count"}
  BY GoMoves, FinishMoves DEF AfterInvoke

\* A won claim makes a dispatch of the handler.
LEMMA WinMoves ==
  ASSUME JobsOK, NEW w \in Handlers, NEW pc, WinClaim(w, pc)
  PROVE  /\ OthersStay(w)
         /\ job'[w].pc = pc /\ job'[w].role = job[w].role /\ job'[w].late = job[w].late
  BY DEF JobsOK, Jobs, WinClaim, OthersStay

\* An invocation begins at its role's first step.
LEMMA BeginMoves ==
  ASSUME DataOK, JobsOK, NEW w \in Handlers, Begin(w)
  PROVE  /\ OthersStay(w)
         /\ job[w] = Idle
         /\ \/ job'[w] = job[w]
            \/ /\ job'[w].pc \in {"claim", "detect", "wake", "announce", "park_steal"}
               /\ job'[w].role # "reconcile"
               /\ job'[w].pc = "detect" => DetectorMode # "off"
            \/ /\ ReconcileScan(w)
               /\ job'[w].pc = "reconcile" /\ job'[w].role = "reconcile"
               /\ job'[w].snap = task /\ job'[w].retries = retries
               /\ job'[w].late = \E v \in Handlers : job[v].late
<1>0. Fresh \in Jobs /\ Fresh.late = \E v \in Handlers : job[v].late
  BY FreshJob, IdleJob DEF Fresh, Jobs
<1>1. CASE StartReady(w)
  <2>1. \E j : j.pc = "claim" /\ j.role = "ready" /\ job' = [job EXCEPT ![w] = j]
    BY <1>0, <1>1 DEF StartReady, Jobs
  <2> QED
    BY <1>1, <2>1, ReplacedMoves DEF StartReady
<1>2. CASE DetectorScan(w)
  <2>1. \E j : j.pc = "detect" /\ j.role = "detector" /\ job' = [job EXCEPT ![w] = j]
    BY <1>0, <1>2 DEF DetectorScan, Scan, Jobs
  <2> QED
    BY <1>2, <2>1, ReplacedMoves DEF DetectorScan, Scan
<1>3. CASE ReconcileScan(w)
  <2>1. \E j : /\ j.pc = "reconcile" /\ j.role = "reconcile" /\ j.snap = task
               /\ j.retries = retries /\ j.late = Fresh.late
               /\ job' = [job EXCEPT ![w] = j]
    BY <1>0, <1>3 DEF ReconcileScan, Scan, Jobs
  <2> QED
    BY <1>0, <1>3, <2>1, ReplacedMoves DEF ReconcileScan, Scan
<1>4. CASE WakeAfterDecision(w)
  <2>1. \E j : j.pc = "wake" /\ j.role = "ready" /\ job' = [job EXCEPT ![w] = j]
    BY <1>0, <1>4 DEF WakeAfterDecision, Jobs
  <2> QED
    BY <1>4, <2>1, ReplacedMoves DEF WakeAfterDecision
<1>5. CASE ReceiveDone(w)
  <2>1. \/ UNCHANGED job
        \/ \E j : j.pc = "announce" /\ j.role = "done" /\ job' = [job EXCEPT ![w] = j]
    BY <1>0, <1>5 DEF ReceiveDone, Jobs
  <2> QED
    BY <1>5, <2>1, ReplacedMoves DEF ReceiveDone, OthersStay
<1>6. CASE \E g \in Gens : ReceivePark(w, g)
  <2>1. \/ UNCHANGED job
        \/ \E j : j.pc = "park_steal" /\ j.role = "park" /\ job' = [job EXCEPT ![w] = j]
    BY <1>0, <1>6 DEF ReceivePark, Jobs
  <2> QED
    BY <1>6, <2>1, ReplacedMoves DEF ReceivePark, OthersStay
<1> QED
  BY <1>1, <1>2, <1>3, <1>4, <1>5, <1>6 DEF Begin

\* A step of handler w takes it to the send only by the look at the run.
Arrives(w) == OthersStay(w) /\ (job'[w].pc = "send" => CheckStillLive(w))

\* A handler comes to the send by the look at the run and by no other step.
LEMMA HandlerArrives ==
  ASSUME DataOK, JobsOK, NEW w \in Handlers, Begin(w) \/ Continue(w) \/ Crash(w)
  PROVE  Arrives(w)
<1> USE DEF Arrives
<1>1. CASE Begin(w)
  <2>1. OthersStay(w) /\ (job'[w] = Idle \/ job'[w].pc \in Steps \ {"send"})
    BY <1>1, BeginMoves DEF Steps
  <2> QED
    BY <2>1 DEF Idle
<1>2. CASE ReadyClaim(w)
  BY <1>2, WinMoves, FinishMoves DEF ReadyClaim
<1>3. CASE MoveInProgress(w) \/ MoveRefused(w)
  BY <1>3, GoMoves, FinishMoves DEF MoveInProgress, MoveRefused
<1>4. CASE MoveUnavailable(w)
  BY <1>4, GoMoves, FinishMoves DEF MoveUnavailable
<1>5. CASE CheckStillLive(w)
  BY <1>5, GoMoves, AfterInvokeMoves DEF CheckStillLive
<1>6. CASE Send(w)
  BY <1>6, AfterInvokeMoves DEF Send
<1>7. CASE SendFails(w) \/ ReleaseOnFailure(w)
  BY <1>7, GoMoves DEF SendFails, ReleaseOnFailure
<1>8. CASE ParkAfterFailure(w)
  BY <1>8, AfterInvokeMoves DEF ParkAfterFailure
<1>9. CASE RedriveStalled(w)
  <2>1. OthersStay(w) /\ job'[w].pc = "decide"
    BY <1>9 DEF RedriveStalled, JobsOK, Jobs, OthersStay
  <2> QED
    BY <2>1
<1>10. CASE FindDead(w)
  <2>1. OthersStay(w) /\ job'[w].pc \in {"recheck", "stamp"}
    BY <1>10 DEF FindDead, JobsOK, Jobs, OthersStay
  <2> QED
    BY <2>1
<1>11. CASE FindResidue(w) \/ SkipCandidate(w)
  BY <1>11, GoMoves, FinishMoves DEF FindResidue, SkipCandidate
<1>12. CASE Stamp(w) \/ ClearStamp(w)
  BY <1>12, GoMoves, FinishMoves DEF Stamp, ClearStamp
<1>13. CASE Recheck(w)
  BY <1>13, GoMoves DEF Recheck
<1>14. CASE DetectorSteal(w)
  BY <1>14, GoMoves, FinishMoves DEF DetectorSteal, Steal
<1>15. CASE Decide(w)
  BY <1>15, GoMoves DEF Decide
<1>16. CASE Redispatch(w)
  BY <1>16, WinMoves, AfterInvokeMoves DEF Redispatch
<1>17. CASE EscalateError(w) \/ EscalateBlock(w) \/ EscalatePage(w)
  BY <1>17, GoMoves, FinishMoves DEF EscalateError, EscalateBlock, EscalatePage
<1>18. CASE Reconcile(w)
  <2>1. \/ Finish(w)
        \/ \E j : j.pc = "claim" /\ job' = [job EXCEPT ![w] = j]
        \/ \E pc \in {"rc_recheck", "error"} : Go(w, pc)
    <3>1. [job[w] EXCEPT !.pc = "claim", !.role = "redrive",
                         !.recovery = board \in {"todo", "blocked"}].pc = "claim"
      BY DEF JobsOK, Jobs
    <3> QED
      BY <1>18, <3>1 DEF Reconcile
  <2> QED
    BY <2>1, FinishMoves, ReplacedMoves, GoMoves
<1>19. CASE ReconcileRecheck(w) \/ CountRetry(w)
  BY <1>19, GoMoves, FinishMoves DEF ReconcileRecheck, CountRetry
<1>20. CASE ReconcileSteal(w)
  BY <1>20, GoMoves, FinishMoves DEF ReconcileSteal, Steal
<1>21. CASE ReleaseParked(w) \/ AnnounceDone(w) \/ Crash(w)
  BY <1>21, FinishMoves DEF ReleaseParked, AnnounceDone, Crash
<1>22. CASE WakeCheck(w)
  BY <1>22, GoMoves, FinishMoves DEF WakeCheck
<1>23. CASE WakeSteal(w)
  <2>1. \/ Finish(w)
        \/ \E j : j.pc = "claim" /\ job' = [job EXCEPT ![w] = j]
    <3>1. [job[w] EXCEPT !.pc = "claim", !.recovery = board \in {"todo", "blocked"}].pc = "claim"
      BY DEF JobsOK, Jobs
    <3> QED
      BY <1>23, <3>1 DEF WakeSteal
  <2> QED
    BY <2>1, FinishMoves, ReplacedMoves
<1> QED
  BY <1>1, <1>2, <1>3, <1>4, <1>5, <1>6, <1>7, <1>8, <1>9, <1>10, <1>11, <1>12, <1>13,
     <1>14, <1>15, <1>16, <1>17, <1>18, <1>19, <1>20, <1>21, <1>22, <1>23 DEF Continue

\* On a closed run a dispatch gets to the send only when its last look at the run failed,
\* for any number of handlers: whoever is to start a session looks right before.
THEOREM ClosedRunCorrect == Spec => ClosedRunStartsNothing
<1> DEFINE Looked == \A w \in Handlers :
             ~open /\ job[w].pc # "send" /\ job'[w].pc = "send" => faults' > faults
<1>1. TypeOK /\ [Next]_vars => Looked
  <2> SUFFICES ASSUME TypeOK, [Next]_vars, NEW w \in Handlers,
                      ~open, job[w].pc # "send", job'[w].pc = "send"
               PROVE  faults' > faults
    OBVIOUS
  <2>1. DataOK /\ JobsOK
    BY TypeParts
  <2>2. CASE CheckStillLive(w)
    BY <2>1, <2>2 DEF CheckStillLive, Fault, DataOK, JobsOK, Go, AfterInvoke, Finish, Idle, Jobs
  <2>3. CASE \E v \in Handlers : Begin(v) \/ Continue(v) \/ Crash(v)
    <3>1. PICK v \in Handlers : Begin(v) \/ Continue(v) \/ Crash(v)
      BY <2>3
    <3>2. Arrives(v)
      BY <2>1, <3>1, HandlerArrives
    <3>3. v = w
      BY <3>2 DEF Arrives, OthersStay
    <3> QED
      BY <2>2, <3>2, <3>3 DEF Arrives
  <2>4. ~(World \/ UNCHANGED vars)
    BY DEF World, BlockerCloses, PersonReadies, CloseRun, Beat, SessionDies,
       SessionCompletes, SessionParks, vars
  <2>5. ~Tick
    BY <2>1 DEF Tick, JobsOK, Jobs, Idle
  <2> QED
    BY <2>3, <2>4, <2>5 DEF Next
<1>2. TypeOK /\ [Next]_vars => [Looked]_vars
  BY <1>1
<1> QED
  BY <1>2, TypeCorrect, PTL DEF Spec, ClosedRunStartsNothing

=============================================================================
