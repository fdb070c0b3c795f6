---------------------------- MODULE DoneFenceProofs ----------------------------
(***************************************************************************)
(* Proofs about DoneFence, for any budget: its types; that the record and   *)
(* the board agree (HonestInv: what the drain and the report are about to   *)
(* write is what they have delivered); and that the fence keeps holds out   *)
(* (FenceInv: a Done in flight that nobody crossed has its own, fresh       *)
(* intent on a record that still admits it, which the writers of holds      *)
(* back off from).                                                          *)
(***************************************************************************)
EXTENDS DoneFence, TLAPS

\* Six nonces are enough for the five other places where one may be known.
LEMMA Pigeonhole ==
    ASSUME NEW x1, NEW x2, NEW x3, NEW x4, NEW x5
    PROVE  \E n \in 1..6 : n # x1 /\ n # x2 /\ n # x3 /\ n # x4 /\ n # x5
<1>1. /\ 1 \in 1..6 /\ 2 \in 1..6 /\ 3 \in 1..6 /\ 4 \in 1..6 /\ 5 \in 1..6 /\ 6 \in 1..6
      /\ 1 # 2 /\ 1 # 3 /\ 1 # 4 /\ 1 # 5 /\ 1 # 6 /\ 2 # 3 /\ 2 # 4 /\ 2 # 5 /\ 2 # 6
      /\ 3 # 4 /\ 3 # 5 /\ 3 # 6 /\ 4 # 5 /\ 4 # 6 /\ 5 # 6
  OBVIOUS
<1>. DEFINE free(n) == n # x1 /\ n # x2 /\ n # x3 /\ n # x4 /\ n # x5
<1>2. free(1) \/ free(2) \/ free(3) \/ free(4) \/ free(5) \/ free(6)
  BY <1>1, ZenonT(60)
<1>. QED BY <1>1, <1>2

\* The Done-intent of a fence that succeeds is unlike any that is known anywhere.
LEMMA UnusedIsNew ==
    ASSUME NEW c \in Callers, rec = twin[c].seen
    PROVE  /\ Unused \in Nonces
           /\ \A d \in Callers : Unused # twin[d].seen.intent
<1>. DEFINE known == {rec.intent, drain.seen.intent, report.base.intent} \cup {twin[d].seen.intent : d \in Callers}
<1>1. \E n \in Nonces : n \notin known
  <2>1. PICK d, e \in Callers : Callers = {c, d, e}
    BY DEF Callers
  <2>2. PICK n \in Nonces : /\ n # rec.intent /\ n # drain.seen.intent /\ n # report.base.intent
                            /\ n # twin[d].seen.intent /\ n # twin[e].seen.intent
    BY Pigeonhole DEF Nonces
  <2>3. \A f \in Callers : n # twin[f].seen.intent
    BY <2>1, <2>2
  <2>. QED BY <2>2, <2>3
<1>2. Unused \in Nonces /\ Unused \notin known
  BY <1>1 DEF Unused
<1>. QED BY <1>2

(***************************************************************************)
(* Types.                                                                   *)
(***************************************************************************)
\* The values that stand for nothing in progress have their types.
LEMMA IdleTypes == NoRecord \in Record /\ IdleTwin \in TwinState /\ IdleDrain \in DrainState /\ IdleReport \in ReportState
BY DEF NoRecord, Record, IdleTwin, TwinState, IdleDrain, DrainState, IdleReport, ReportState, Attempts, Nonces, NoIntent

\* TypeOK holds initially.
LEMMA TypeInit == Init => TypeOK
BY IdleTypes, FenceAssumption DEF Init, TypeOK

\* A twin that answers its caller has its type.
LEMMA AnswerTypes ==
    ASSUME NEW c \in Callers, NEW a \in {"none", "ok", "hold", "no", "down", "refused"}
    PROVE  Answer(c, a) \in TwinState
BY IdleTypes DEF Answer, TwinState

\* Marking the other Dones in flight keeps the type of every twin.
LEMMA CrossingTypes ==
    ASSUME TypeOK, NEW c \in Callers, NEW own \in TwinState
    PROVE  Crossing(c, own) \in [Callers -> TwinState]
<1>1. ASSUME NEW d \in Callers PROVE [twin[d] EXCEPT !.crossed = @ \/ d \in InFlight] \in TwinState
  BY DEF TypeOK, TwinState
<1>. QED BY <1>1 DEF Crossing

\* Faults and moves come out of a budget that stays natural.
LEMMA BudgetTypes ==
    ASSUME TypeOK
    PROVE  /\ Faulty => left' \in [reports : Nat, moves : Nat, faults : Nat]
           /\ Moving => left' \in [reports : Nat, moves : Nat, faults : Nat]
BY DEF TypeOK, Faulty, Moving

\* Type of the state after the guard.
LEMMA JudgeTypes == ASSUME TypeOK, NEW c \in Callers, Judge(c) PROVE TypeOK'
<1>1. Refusal(rec) \in {"none", "ok", "hold", "no", "down", "refused"}
  BY DEF Refusal
<1>2. [twin[c] EXCEPT !.pc = "fence", !.seen = rec, !.tries = 0] \in TwinState
  <2>1. rec \in Record /\ twin[c] \in TwinState
    BY DEF TypeOK
  <2>2. 0 \in 0..(Attempts - 1)
    BY DEF Attempts
  <2>. QED BY <2>1, <2>2 DEF TwinState
<1>. QED BY <1>1, <1>2, AnswerTypes DEF TypeOK, Judge

\* Type of the state after the fence.
LEMMA FenceTypes == ASSUME TypeOK, NEW c \in Callers, Fence(c) PROVE TypeOK'
<1>1. Unused \in Nonces
  BY UnusedIsNew DEF Fence, CAS
<1>2. rec' \in Record
  BY <1>1 DEF TypeOK, Fence, CAS, Fenced, Record
<1>3. [twin[c] EXCEPT !.pc = "commit", !.seen = rec', !.crossed = InFlight # {} \/ ticket = "done"] \in TwinState
  BY <1>2 DEF TypeOK, TwinState
<1>. QED BY <1>2, <1>3, CrossingTypes DEF TypeOK, Fence, CAS

\* Type of the state after a fence that lost its conditional write.
LEMMA FenceLostTypes == ASSUME TypeOK, NEW c \in Callers, FenceLost(c) PROVE TypeOK'
<1>1. Refusal(rec) \in {"none", "ok", "hold", "no", "down", "refused"}
  BY DEF Refusal
<1>2. CASE ~Admits(rec)
  BY <1>1, <1>2, AnswerTypes DEF TypeOK, FenceLost
<1>3. CASE Admits(rec) /\ twin[c].tries + 1 = Attempts
  BY <1>3, AnswerTypes DEF TypeOK, FenceLost
<1>4. CASE Admits(rec) /\ twin[c].tries + 1 # Attempts
  <2>1. twin' = [twin EXCEPT ![c] = [twin[c] EXCEPT !.seen = rec, !.tries = twin[c].tries + 1]]
    BY <1>4 DEF FenceLost
  <2>2. [twin[c] EXCEPT !.seen = rec, !.tries = twin[c].tries + 1] \in TwinState
    <3>1. twin[c] \in TwinState /\ rec \in Record
      BY DEF TypeOK
    <3>2. twin[c].tries \in 0..(Attempts - 1)
      BY <3>1 DEF TwinState
    <3>3. twin[c].tries + 1 \in 0..(Attempts - 1)
      BY <1>4, <3>2 DEF Attempts
    <3>. QED BY <3>1, <3>3 DEF TwinState
  <2>. QED BY <2>1, <2>2 DEF TypeOK, FenceLost
<1>. QED BY <1>2, <1>3, <1>4

\* Type of the state after a transition, applied or not, answered or not.
LEMMA CommitTypes ==
    ASSUME TypeOK, NEW c \in Callers, Commit(c) \/ CommitUnanswered(c) \/ CommitFails(c) PROVE TypeOK'
<1>1. CASE Commit(c)
  BY <1>1, AnswerTypes, CrossingTypes DEF TypeOK, Commit, Closes
<1>2. CASE CommitUnanswered(c)
  <2>1. [twin[c] EXCEPT !.pc = "clear", !.answer = "down"] \in TwinState
    BY DEF TypeOK, TwinState
  <2>. QED BY <1>2, <2>1, CrossingTypes, BudgetTypes DEF TypeOK, CommitUnanswered, Closes
<1>3. CASE CommitFails(c)
  <2>1. left' \in [reports : Nat, moves : Nat, faults : Nat]
    <3>1. UNCHANGED left \/ Faulty
      BY <1>3 DEF CommitFails
    <3>. QED BY <3>1, BudgetTypes DEF TypeOK
  <2>2. PICK a \in {"no", "down", "refused"} : twin' = [twin EXCEPT ![c] = [twin[c] EXCEPT !.pc = "clear", !.answer = a]]
    BY <1>3 DEF CommitFails
  <2>3. [twin[c] EXCEPT !.pc = "clear", !.answer = a] \in TwinState
    BY DEF TypeOK, TwinState
  <2>. QED BY <1>3, <2>1, <2>2, <2>3 DEF CommitFails, TypeOK
<1>. QED BY <1>1, <1>2, <1>3

\* Type of the state after the intent is taken back, or the twin dies.
LEMMA ClearTypes == ASSUME TypeOK, NEW c \in Callers, ClearIntent(c) \/ TwinDies(c) PROVE TypeOK'
<1>1. CASE ClearIntent(c)
  <2>1. rec' \in Record /\ fresh' \in BOOLEAN
    <3>1. twin[c].seen \in Record /\ rec \in Record /\ fresh \in BOOLEAN
      BY DEF TypeOK, TwinState
    <3>2. Cleared(twin[c].seen) \in Record
      BY <3>1 DEF Cleared, Record, NoIntent
    <3>3. CASE CAS(twin[c].seen, Cleared(twin[c].seen), FALSE)
      BY <3>2, <3>3 DEF CAS
    <3>4. CASE UNCHANGED <<rec, fresh>>
      BY <3>1, <3>4
    <3>. QED BY <1>1, <3>3, <3>4 DEF ClearIntent
  <2>2. twin' \in [Callers -> TwinState]
    <3>1. twin[c].answer \in {"none", "ok", "hold", "no", "down", "refused"}
      BY DEF TypeOK, TwinState
    <3>. QED BY <1>1, <3>1, AnswerTypes DEF ClearIntent, TypeOK
  <2>. QED BY <1>1, <2>1, <2>2 DEF ClearIntent, TypeOK
<1>2. CASE TwinDies(c)
  BY <1>2, AnswerTypes, BudgetTypes DEF TwinDies, TypeOK
<1>. QED BY <1>1, <1>2

\* Stripping a stale intent leaves a record.
LEMMA UnstaleTypes == ASSUME NEW r \in Record PROVE Unstale(r) \in Record
BY DEF Unstale, Cleared, Record, NoIntent

\* Filing follow-ups keeps the type of filed and of the budget.
LEMMA FilesTypes == ASSUME TypeOK, NEW unfiled \in BOOLEAN, Files(unfiled)
                    PROVE  /\ filed' \in BOOLEAN /\ left' \in [reports : Nat, moves : Nat, faults : Nat]
                           /\ ~unfiled => filed'
                           /\ filed => filed'
BY BudgetTypes DEF Files, TypeOK

\* What the drain writes is a record.
LEMMA StampedTypes == ASSUME TypeOK, NEW w \in {"queued", "dropped"} PROVE Stamped(w) \in Record
<1>1. BriefAfter(drain.seen.brief) \in {"unset", "held", "gate", "off"}
  BY DEF BriefAfter, TypeOK, DrainState, Record
<1>2. drain.seen \in Record /\ (drain.unfiled \/ drain.others) \in BOOLEAN
  BY DEF TypeOK, DrainState
<1>3. ASSUME NEW follow \in BOOLEAN
      PROVE  [drain.seen EXCEPT !.brief = BriefAfter(@), !.follow = follow, !.writes = w] \in Record
  BY <1>1, <1>2 DEF Record
<1>. QED BY <1>2, <1>3, UnstaleTypes DEF Stamped

\* A record whose writes are dropped says what it said, but for a stale intent.
LEMMA DroppedTypes ==
    ASSUME TypeOK, NEW r, r = Unstale([drain.seen EXCEPT !.writes = "dropped"])
    PROVE  /\ r \in Record
           /\ r.brief = drain.seen.brief /\ r.follow = drain.seen.follow /\ r.body = drain.seen.body
           /\ r.intent = IF fresh THEN drain.seen.intent ELSE NoIntent
<1>. DEFINE dropped == [drain.seen EXCEPT !.writes = "dropped"]
<1>1. /\ dropped \in Record /\ dropped.brief = drain.seen.brief /\ dropped.follow = drain.seen.follow
      /\ dropped.body = drain.seen.body /\ dropped.intent = drain.seen.intent
  BY DEF TypeOK, DrainState, Record
<1>2. r = Unstale(dropped)
  OBVIOUS
<1>. HIDE DEF dropped
<1>. QED BY <1>1, <1>2, UnstaleTypes DEF Unstale, Cleared, Record

\* Type of the state after a step of the drain.
LEMMA DrainTypes == ASSUME TypeOK, DrainNext PROVE TypeOK'
<1>. USE IdleTypes
<1>1. CASE DrainTake
  BY <1>1 DEF DrainTake, Deleted, TypeOK, DrainState
<1>2. CASE DrainReadTicket
  BY <1>2 DEF DrainReadTicket, TypeOK, DrainState
<1>3. CASE DrainDeliver
  <2>1. PICK unfiled \in BOOLEAN, others \in {FALSE, drain.seen.follow}, outcome \in {"gate", "off"} :
          /\ Files(unfiled) /\ PutsBrief(outcome)
          /\ drain' = [drain EXCEPT !.pc = "stamp", !.unfiled = unfiled, !.others = others,
                                    !.brief = outcome, !.done = @ /\ ticket = "done"]
    BY <1>3 DEF DrainDeliver
  <2>2. drain' \in DrainState
    <3>1. others \in BOOLEAN
      BY DEF TypeOK, DrainState, Record
    <3>. QED BY <2>1, <3>1 DEF TypeOK, DrainState
  <2>3. onGate' \in BOOLEAN
    BY <2>1 DEF PutsBrief, TypeOK
  <2>. QED BY <1>3, <2>1, <2>2, <2>3, FilesTypes DEF DrainDeliver, TypeOK
<1>4. CASE DrainHold
  <2>1. rec' \in Record /\ fresh' \in BOOLEAN
    BY <1>4, StampedTypes DEF DrainHold, CAS, TypeOK
  <2>2. drain' \in DrainState /\ queued' \in BOOLEAN
    <3>1. [drain EXCEPT !.pc = "confirm"] \in DrainState /\ queued \in BOOLEAN
      BY DEF TypeOK, DrainState
    <3>. QED BY <1>4, <3>1 DEF DrainHold, Deleted
  <2>. QED BY <1>4, <2>1, <2>2 DEF DrainHold, TypeOK
<1>5. CASE DrainConfirm
  BY <1>5 DEF DrainConfirm, Deleted, Redelivered, TypeOK
<1>6. CASE DrainRestamp
  BY <1>6, StampedTypes DEF DrainRestamp, CAS, TypeOK, DrainState
<1>7. CASE DrainMove
  BY <1>7 DEF DrainMove, Call, TypeOK, TwinState, Callers
<1>8. CASE DrainMoved
  <2>1. drain' \in DrainState
    BY <1>8 DEF DrainMoved, TypeOK, DrainState
  <2>. QED BY <1>8, <2>1 DEF DrainMoved, TypeOK, Callers
<1>9. CASE DrainApplied
  <2>1. rec' \in Record
    BY <1>9 DEF DrainApplied, TypeOK, Record
  <2>. QED BY <1>9, <2>1, BudgetTypes DEF DrainApplied, Deleted, Redelivered, TypeOK
<1>10. CASE DrainRetry
  BY <1>10, BudgetTypes DEF DrainRetry, Redelivered, TypeOK
<1>11. CASE DrainSuperseded
  BY <1>11 DEF DrainSuperseded, Deleted, TypeOK
<1>12. CASE DrainRefused
  BY <1>12, BudgetTypes DEF DrainRefused, TypeOK, DrainState
<1>13. CASE DrainDrop
  BY <1>13, DroppedTypes DEF DrainDrop, CAS, Deleted, TypeOK
<1>. QED BY <1>1, <1>2, <1>3, <1>4, <1>5, <1>6, <1>7, <1>8, <1>9, <1>10, <1>11, <1>12, <1>13 DEF DrainNext

\* Whatever the report adopts is a word about the brief.
LEMMA AdoptTypes == ASSUME TypeOK, NEW force \in BOOLEAN
                    PROVE  AdoptHold(report.base, force) \in {"unset", "held", "gate"}
BY DEF AdoptHold, TypeOK, ReportState

\* Adopting changes only what the call is to say of the brief.
LEMMA AdoptingTypes ==
    ASSUME TypeOK, NEW force \in BOOLEAN
    PROVE  /\ Adopting(force) \in ReportState
           /\ Adopting(force).follow = report.follow /\ Adopting(force).delivered = report.delivered
           /\ Adopting(force).pc = report.pc
BY AdoptTypes DEF Adopting, TypeOK, ReportState

\* What the report writes is a record.
LEMMA ReportedTypes ==
    ASSUME TypeOK, NEW force \in BOOLEAN, NEW w \in {"none", "queued"}
    PROVE  /\ Reported(w, force) \in Record
           /\ Reported(w, force).brief \in {"unset", "held", "gate"}
<1>1. report.base.intent \in {NoIntent} \cup Nonces /\ report.follow \in BOOLEAN
  BY DEF TypeOK, ReportState, Record
<1>. QED BY <1>1, AdoptTypes DEF Reported, Record

\* One attempt to write the record, with what the call remembers of it.
LEMMA WriteTypes ==
    ASSUME TypeOK, NEW force \in BOOLEAN, NEW w \in {"none", "queued"}, Writes(w, force),
           NEW pc \in {"idle", "move", "enqueue"}, NEW written \in BOOLEAN, ReportGoes(pc, force, written)
    PROVE  rec' \in Record /\ fresh' \in BOOLEAN /\ report' \in ReportState
<1>1. rec' \in Record /\ fresh' \in BOOLEAN
  BY ReportedTypes DEF Writes, CAS, TypeOK
<1>2. CASE pc = "idle"
  BY <1>1, <1>2, IdleTypes DEF ReportGoes
<1>3. CASE pc # "idle"
  <2>1. Adopting(force) \in ReportState
    BY AdoptingTypes
  <2>2. 0 \in 0..(Attempts - 1) /\ report.base \in Record
    BY DEF Attempts, TypeOK, ReportState
  <2>3. (IF written THEN rec' ELSE report.base) \in Record
    BY <1>1, <2>2
  <2>4. Adopting(force).base = report.base
    BY DEF Adopting, TypeOK, ReportState
  <2>5. report' = [Adopting(force) EXCEPT !.base = IF written THEN rec' ELSE report.base, !.pc = pc, !.tries = 0]
    BY <1>3, <2>4 DEF ReportGoes
  <2>. QED BY <1>1, <2>1, <2>2, <2>3, <2>5 DEF ReportState
<1>. QED BY <1>2, <1>3

\* Type of the state after a step of report_completion.
LEMMA ReportTypes == ASSUME TypeOK, ReportNext PROVE TypeOK'
<1>. USE IdleTypes
<1>1. CASE ReportStart
  <2>1. report' \in ReportState
    BY <1>1 DEF ReportStart, TypeOK, ReportState
  <2>2. left' \in [reports : Nat, moves : Nat, faults : Nat]
    BY <1>1 DEF ReportStart, TypeOK
  <2>. QED BY <1>1, <2>1, <2>2 DEF ReportStart, TypeOK
<1>2. CASE ReportDeliver
  <2>1. PICK unfiled \in BOOLEAN, down \in BOOLEAN, outcome \in {"gate", "off"} : Delivers(unfiled, down, outcome)
    BY <1>2 DEF ReportDeliver
  <2>2. report' \in ReportState
    <3>. DEFINE word == IF ~Owed(report.base) THEN "unset" ELSE IF outcome = "gate" THEN "gate" ELSE "held"
    <3>1. report \in ReportState /\ word \in {"unset", "held", "gate"} /\ (outcome = "gate") \in BOOLEAN
      BY DEF TypeOK
    <3>2. report' = [report EXCEPT !.pc = "write", !.follow = unfiled, !.down = down,
                                   !.delivered = outcome = "gate", !.brief = word]
      BY <2>1 DEF Delivers
    <3>. DEFINE way == outcome = "gate"
    <3>. HIDE DEF word
    <3>3. way \in BOOLEAN /\ report' = [report EXCEPT !.pc = "write", !.follow = unfiled,
                                         !.down = down, !.delivered = way, !.brief = word]
      BY <3>2
    <3>. HIDE DEF way
    <3>. DEFINE r == [report EXCEPT !.pc = "write", !.follow = unfiled, !.down = down]
    <3>4. r \in ReportState
      BY <3>1 DEF ReportState
    <3>5. report' = [r EXCEPT !.delivered = way, !.brief = word]
      BY <3>1, <3>3 DEF ReportState
    <3>. HIDE DEF r
    <3>. QED BY <3>1, <3>3, <3>4, <3>5 DEF ReportState
  <2>3. onGate' \in BOOLEAN
    BY <2>1 DEF Delivers, PutsBrief, TypeOK
  <2>. QED BY <1>2, <2>1, <2>2, <2>3, FilesTypes DEF Delivers, ReportDeliver, TypeOK
<1>3. CASE ReportWrite
  <2>1. (IF Defers("none", FALSE) THEN "idle" ELSE AfterWrite(rec')) \in {"idle", "move", "enqueue"}
    BY DEF AfterWrite
  <2>2. rec' \in Record /\ fresh' \in BOOLEAN /\ report' \in ReportState
    BY <1>3, <2>1, WriteTypes DEF ReportWrite
  <2>. QED BY <1>3, <2>2 DEF ReportWrite, TypeOK
<1>4. CASE ReportMove
  BY <1>4 DEF ReportMove, Call, TypeOK, TwinState, Callers
<1>5. CASE ReportMoved
  <2>1. report' \in ReportState
    BY <1>5 DEF ReportMoved, TypeOK, ReportState
  <2>. QED BY <1>5, <2>1 DEF ReportMoved, TypeOK, Callers
<1>6. CASE ReportRewrite
  <2>1. report.refused \in BOOLEAN
    BY DEF TypeOK, ReportState
  <2>2. rec' \in Record /\ fresh' \in BOOLEAN /\ report' \in ReportState
    BY <1>6, <2>1, WriteTypes DEF ReportRewrite
  <2>. QED BY <1>6, <2>2 DEF ReportRewrite, TypeOK
<1>7. CASE ReportEnqueue
  BY <1>7 DEF ReportEnqueue, TypeOK, ReportState
<1>8. CASE ReportStamp
  <2>1. rec' \in Record /\ fresh' \in BOOLEAN /\ report' \in ReportState
    BY <1>8, ReportedTypes DEF ReportStamp, Writes, CAS, TypeOK
  <2>. QED BY <1>8, <2>1 DEF ReportStamp, TypeOK
<1>9. CASE ReportLost
  <2>1. report \in ReportState /\ rec \in Record /\ 0 \in 0..(Attempts - 1)
    BY DEF TypeOK, Attempts
  <2>2. report.tries + 1 < Attempts => report.tries + 1 \in 0..(Attempts - 1)
    BY <2>1 DEF ReportState, Attempts
  <2>. DEFINE tried == Adopting(report.pc = "rewrite" /\ report.refused)
  <2>3. tried \in ReportState /\ tried.tries = report.tries
    <3>1. (report.pc = "rewrite" /\ report.refused) \in BOOLEAN
      OBVIOUS
    <3>2. tried.tries = report.tries
      BY <2>1 DEF Adopting, ReportState
    <3>. QED BY <3>1, <3>2, AdoptingTypes
  <2>4. report' = IF report.tries + 1 < Attempts THEN [tried EXCEPT !.base = rec, !.tries = @ + 1]
                  ELSE IF report.pc = "rewrite" /\ report.down THEN [tried EXCEPT !.pc = "enqueue", !.tries = 0]
                  ELSE IdleReport
    BY <1>9 DEF ReportLost
  <2>. HIDE DEF tried
  <2>5. report' \in ReportState
    <3>1. [tried EXCEPT !.pc = "enqueue", !.tries = 0] \in ReportState
      BY <2>1, <2>3 DEF ReportState
    <3>2. report.tries + 1 < Attempts => [tried EXCEPT !.base = rec, !.tries = @ + 1] \in ReportState
      BY <2>1, <2>2, <2>3 DEF ReportState
    <3>. QED BY <2>4, <3>1, <3>2
  <2>. QED BY <1>9, <2>5 DEF ReportLost, TypeOK
<1>10. CASE ReportDies
  BY <1>10, BudgetTypes DEF ReportDies, TypeOK
<1>. QED BY <1>1, <1>2, <1>3, <1>4, <1>5, <1>6, <1>7, <1>8, <1>9, <1>10 DEF ReportNext, ReportRuns

\* Type of the state after a step of a person or of time.
LEMMA PersonTypes == ASSUME TypeOK, PersonNext \/ Expire PROVE TypeOK'
<1>1. CASE PersonCalls
  BY <1>1, BudgetTypes DEF PersonCalls, Call, TypeOK, TwinState, Callers
<1>2. CASE PersonCloses
  <2>1. "person" \in Callers
    BY DEF Callers
  <2>2. [twin["person"] EXCEPT !.crossed = @ \/ "person" \in InFlight] \in TwinState
    BY <2>1 DEF TypeOK, TwinState
  <2>. QED BY <1>2, <2>1, <2>2, CrossingTypes, BudgetTypes DEF PersonCloses, TypeOK
<1>3. CASE PersonReopens
  BY <1>3, BudgetTypes DEF PersonReopens, TypeOK
<1>4. CASE Expire
  BY <1>4 DEF Expire, TypeOK
<1>. QED BY <1>1, <1>2, <1>3, <1>4 DEF PersonNext

\* Every variable keeps its type (TypeOK).
LEMMA TypeStep == TypeOK /\ [Next]_vars => TypeOK'
<1>. SUFFICES ASSUME TypeOK, [Next]_vars PROVE TypeOK'
  OBVIOUS
<1>1. ASSUME NEW c \in Callers, TwinNext(c) PROVE TypeOK'
  BY <1>1, JudgeTypes, FenceTypes, FenceLostTypes, CommitTypes, ClearTypes DEF TwinNext
<1>2. CASE UNCHANGED vars
  BY <1>2 DEF vars, TypeOK
<1>. QED BY <1>1, <1>2, DrainTypes, ReportTypes, PersonTypes DEF Next

\* Every variable has its type in every reachable state (TypeOK).
THEOREM TypeCorrect == Spec => []TypeOK
BY TypeInit, TypeStep, PTL DEF Spec

(***************************************************************************)
(* Holds and follow-ups.                                                    *)
(***************************************************************************)
\* What the drain and the report know of the board when they write the record.
HonestInv ==
    /\ FollowUpsHonest
    /\ (drain.pc = "stamp" /\ ~drain.unfiled) => filed
    /\ (drain.pc = "stamp" /\ drain.brief = "gate") => onGate
    /\ (drain.pc = "stamp" /\ drain.others) => drain.seen.follow
    /\ (report.pc \notin {"idle", "deliver"} /\ ~report.follow) => filed
    /\ report.delivered => onGate

\* What a step of the record keeps, or loses only with the brief on the gate.
Honest == /\ HonestInv'
          /\ (rec.brief = "held" /\ rec'.brief # "held") => onGate'

\* HonestInv holds initially.
LEMMA HonestInit == Init => HonestInv
BY DEF Init, HonestInv, FollowUpsHonest, NoRecord, IdleDrain, IdleReport

\* What is on the board stays there: follow-ups and the brief are not taken back.
LEMMA BoardGrows == ASSUME TypeOK, [Next]_vars PROVE (filed => filed') /\ (onGate => onGate')
<1>1. CASE DrainNext
  BY <1>1 DEF DrainNext, DrainTake, DrainReadTicket, DrainDeliver, DrainHold, DrainConfirm, DrainRestamp,
              DrainMove, DrainMoved, DrainApplied, DrainRetry, DrainSuperseded, DrainRefused, DrainDrop, Files,
              PutsBrief, TypeOK
<1>2. CASE ReportNext
  BY <1>2 DEF ReportNext, ReportRuns, ReportStart, ReportDeliver, Delivers, ReportWrite, ReportMove, ReportMoved,
              ReportRewrite, ReportEnqueue, ReportStamp, ReportLost, ReportDies, Files, PutsBrief, TypeOK
<1>3. CASE PersonNext \/ Expire
  BY <1>3 DEF PersonNext, PersonCalls, PersonCloses, PersonReopens, Expire
<1>4. ASSUME NEW c \in Callers, TwinNext(c) PROVE filed' = filed /\ onGate' = onGate
  BY <1>4 DEF TwinNext, Judge, Fence, FenceLost, Commit, CommitUnanswered, CommitFails, ClearIntent, TwinDies
<1>5. CASE UNCHANGED vars
  BY <1>5 DEF vars
<1>. QED BY <1>1, <1>2, <1>3, <1>4, <1>5 DEF Next

\* A step that leaves the board, the drain and the report alone, and of the record
\* changes at most the intent and a body that is no report.
LEMMA QuietStep ==
    ASSUME HonestInv, UNCHANGED <<filed, onGate, drain, report>>,
           rec'.brief = rec.brief, rec'.follow = rec.follow, rec'.body = "report" => rec.body = "report"
    PROVE  Honest
BY DEF Honest, HonestInv, FollowUpsHonest

\* A twin changes only the intent, or makes a reservation of no record.
LEMMA HonestTwin == ASSUME TypeOK, HonestInv, NEW c \in Callers, TwinNext(c) PROVE Honest
<1>1. UNCHANGED <<filed, onGate, drain, report>>
  BY DEF TwinNext, Judge, Fence, FenceLost, Commit, CommitUnanswered, CommitFails, ClearIntent, TwinDies
<1>2. rec'.brief = rec.brief /\ rec'.follow = rec.follow /\ (rec'.body = "report" => rec.body = "report")
  <2>1. CASE Fence(c)
    BY <2>1 DEF Fence, CAS, Fenced, TypeOK, Record
  <2>2. CASE ClearIntent(c)
    BY <2>2 DEF ClearIntent, CAS, Cleared, TypeOK, Record
  <2>3. CASE rec' = rec
    BY <2>3
  <2>. QED BY <2>1, <2>2, <2>3 DEF TwinNext, Judge, FenceLost, Commit, CommitUnanswered, CommitFails, TwinDies
<1>. QED BY <1>1, <1>2, QuietStep

\* What the drain says of the follow-ups and of the brief.
LEMMA StampedFields ==
    ASSUME TypeOK, NEW w \in {"queued", "dropped"}
    PROVE  /\ Stamped(w).brief = BriefAfter(drain.seen.brief)
           /\ Stamped(w).follow = (drain.unfiled \/ drain.others)
           /\ Stamped(w).body = drain.seen.body
           /\ Stamped(w).intent = IF fresh THEN drain.seen.intent ELSE NoIntent
BY DEF Stamped, Unstale, Cleared, TypeOK, DrainState, Record

\* The drain states only what it has delivered itself.
LEMMA HonestDrain == ASSUME TypeOK, HonestInv, DrainNext PROVE Honest
<1>1. ASSUME NEW w \in {"queued", "dropped"}, drain.pc = "stamp", CAS(drain.seen, Stamped(w), fresh),
             drain'.pc # "stamp", UNCHANGED <<filed, onGate, report>>
      PROVE  Honest
  <2>1. rec'.brief = BriefAfter(rec.brief) /\ rec'.follow = (drain.unfiled \/ drain.others)
    BY <1>1, StampedFields DEF CAS
  <2>2. (rec.brief = "held" /\ rec'.brief # "held") => drain.brief = "gate"
    BY <2>1 DEF BriefAfter, TypeOK, DrainState
  <2>. QED BY <1>1, <2>1, <2>2 DEF Honest, HonestInv, FollowUpsHonest
<1>2. CASE DrainHold
  BY <1>1, <1>2 DEF DrainHold, Deleted, IdleDrain, TypeOK, DrainState
<1>3. CASE DrainRestamp
  BY <1>1, <1>3 DEF DrainRestamp, TypeOK, DrainState
<1>4. CASE DrainDeliver
  <2>1. PICK unfiled \in BOOLEAN, others \in {FALSE, drain.seen.follow}, outcome \in {"gate", "off"} :
          /\ Files(unfiled) /\ PutsBrief(outcome)
          /\ drain' = [drain EXCEPT !.pc = "stamp", !.unfiled = unfiled, !.others = others,
                                    !.brief = outcome, !.done = @ /\ ticket = "done"]
    BY <1>4 DEF DrainDeliver
  <2>2. drain'.unfiled = unfiled /\ drain'.brief = outcome /\ drain'.others = others /\ drain'.seen = drain.seen
    BY <2>1 DEF TypeOK, DrainState
  <2>3. rec' = rec /\ report' = report
    BY <1>4 DEF DrainDeliver
  <2>4. drain'.others => drain'.seen.follow
    BY <2>2
  <2>5. /\ ~drain'.unfiled => filed'
        /\ drain'.brief = "gate" => onGate'
        /\ (filed => filed') /\ (onGate => onGate')
    BY <2>1, <2>2 DEF Files, PutsBrief, TypeOK
  <2>. QED BY <2>3, <2>4, <2>5 DEF Honest, HonestInv, FollowUpsHonest
<1>5. CASE DrainApplied
  <2>1. rec'.brief = rec.brief /\ rec'.follow = rec.follow /\ rec'.body = rec.body
    BY <1>5 DEF DrainApplied, TypeOK, Record
  <2>. QED BY <1>5, <2>1 DEF DrainApplied, Deleted, Redelivered, IdleDrain, Honest, HonestInv, FollowUpsHonest
<1>6. CASE \/ DrainTake \/ DrainReadTicket \/ DrainConfirm \/ DrainMove \/ DrainMoved \/ DrainRetry
           \/ DrainSuperseded \/ DrainRefused
  <2>1. UNCHANGED <<rec, filed, onGate, report>> /\ drain'.pc # "stamp" 
    <3>1. drain \in DrainState
      BY DEF TypeOK
    <3>2. CASE DrainTake
      <4>1. UNCHANGED <<rec, filed, onGate, report>>
        BY <3>2 DEF DrainTake
      <4>2. drain' = IdleDrain \/ drain' = [IdleDrain EXCEPT !.pc = "read", !.seen = rec]
        BY <3>2 DEF DrainTake, Deleted
      <4>3. drain'.pc # "stamp"
        <5>1. CASE drain' = IdleDrain
          BY <5>1 DEF IdleDrain
        <5>2. CASE drain' = [IdleDrain EXCEPT !.pc = "read", !.seen = rec]
          BY <5>2, IdleTypes DEF DrainState
        <5>. QED BY <4>2, <5>1, <5>2
      <4>. QED BY <4>1, <4>3
    <3>3. CASE DrainReadTicket
      BY <3>1, <3>3 DEF DrainReadTicket, Deleted, Redelivered, IdleDrain, DrainState
    <3>4. CASE DrainConfirm
      BY <3>1, <3>4 DEF DrainConfirm, Deleted, Redelivered, IdleDrain, DrainState
    <3>5. CASE DrainMove
      BY <3>1, <3>5 DEF DrainMove, Deleted, Redelivered, IdleDrain, DrainState
    <3>6. CASE DrainMoved
      BY <3>1, <3>6 DEF DrainMoved, Deleted, Redelivered, IdleDrain, DrainState
    <3>7. CASE DrainRetry
      BY <3>1, <3>7 DEF DrainRetry, Deleted, Redelivered, IdleDrain, DrainState
    <3>8. CASE DrainSuperseded
      BY <3>8 DEF DrainSuperseded, Deleted, IdleDrain
    <3>9. CASE DrainRefused
      BY <3>1, <3>9 DEF DrainRefused, DrainState
    <3>. QED BY <1>6, <3>2, <3>3, <3>4, <3>5, <3>6, <3>7, <3>8, <3>9
  <2>. QED BY <2>1 DEF Honest, HonestInv, FollowUpsHonest
<1>7. CASE DrainDrop
  <2>1. rec'.brief = rec.brief /\ rec'.follow = rec.follow /\ rec'.body = rec.body
    BY <1>7, DroppedTypes DEF DrainDrop, CAS
  <2>. QED BY <1>7, <2>1 DEF DrainDrop, Deleted, IdleDrain, Honest, HonestInv, FollowUpsHonest
<1>. QED BY <1>2, <1>3, <1>4, <1>5, <1>6, <1>7 DEF DrainNext

\* The report states only what it has delivered, or what the record it replaces says.
LEMMA HonestReport == ASSUME TypeOK, HonestInv, ReportNext PROVE Honest
<1>. USE DEF IdleReport
<1>1. ASSUME NEW w, NEW force \in BOOLEAN, NEW pc, NEW written, report.pc \notin {"idle", "deliver"},
             Writes(w, force), ReportGoes(pc, force, written) \/ report' = IdleReport,
             UNCHANGED <<filed, onGate, drain>>
      PROVE  Honest
  <2>0. /\ report'.delivered => report.delivered
        /\ (report'.pc \notin {"idle", "deliver"}) => report'.follow = report.follow
    <3>1. CASE report' = IdleReport
      BY <3>1
    <3>2. CASE report' # IdleReport
      <4>1. report' = [Adopting(force) EXCEPT !.base = IF written THEN rec' ELSE @, !.pc = pc, !.tries = 0]
        BY <1>1, <3>2 DEF ReportGoes
      <4>. QED BY <4>1, AdoptingTypes DEF ReportState
    <3>. QED BY <3>1, <3>2
  <2>1. report'.delivered => report.delivered
    BY <2>0
  <2>2. (report'.pc \notin {"idle", "deliver"}) => report'.follow = report.follow
    BY <2>0
  <2>3. CASE Defers(w, force)
    BY <1>1, <2>1, <2>2, <2>3 DEF Writes, Honest, HonestInv, FollowUpsHonest
  <2>4. CASE ~Defers(w, force)
    <3>1. rec = report.base /\ rec' = Reported(w, force)
      BY <1>1, <2>4 DEF Writes, CAS
    <3>2. rec'.follow = report.follow /\ rec'.brief = AdoptHold(rec, force)
      BY <3>1 DEF Reported
    <3>3. (rec.brief = "held" /\ rec'.brief # "held") => report.delivered
      BY <3>2 DEF AdoptHold
    <3>. QED BY <1>1, <2>1, <2>2, <3>2, <3>3 DEF Honest, HonestInv, FollowUpsHonest
  <2>. QED BY <2>3, <2>4
<1>2. CASE ReportWrite
  BY <1>1, <1>2 DEF ReportWrite
<1>3. CASE ReportRewrite
  BY <1>1, <1>3 DEF ReportRewrite, TypeOK, ReportState
<1>4. CASE ReportStamp
  BY <1>1, <1>4 DEF ReportStamp
<1>5. CASE ReportDeliver
  <2>1. PICK unfiled \in BOOLEAN, down \in BOOLEAN, outcome \in {"gate", "off"} : Delivers(unfiled, down, outcome)
    BY <1>5 DEF ReportDeliver
  <2>2. report'.follow = unfiled /\ report'.delivered = (outcome = "gate")
    BY <2>1, SMTT(60) DEF Delivers, TypeOK, ReportState
  <2>3. rec' = rec /\ drain' = drain
    BY <1>5 DEF ReportDeliver
  <2>. QED BY <2>1, <2>2, <2>3 DEF Delivers, Files, PutsBrief, Honest, HonestInv, FollowUpsHonest, TypeOK
<1>6. CASE ReportStart \/ ReportMove \/ ReportMoved \/ ReportEnqueue \/ ReportLost \/ ReportDies
  <2>1. UNCHANGED <<rec, filed, onGate, drain>>
    BY <1>6 DEF ReportStart, ReportMove, ReportMoved, ReportEnqueue, ReportLost, ReportDies
  <2>. DEFINE kept == /\ (report'.pc \notin {"idle", "deliver"}) => (report'.follow = report.follow /\ report.pc \notin {"idle", "deliver"})
                      /\ report'.delivered => report.delivered
  <2>2. report \in ReportState
    BY DEF TypeOK
  <2>3. ASSUME ReportStart PROVE kept
    BY <2>2, <2>3 DEF ReportStart, ReportState
  <2>4. ASSUME ReportMove PROVE kept
    BY <2>2, <2>4 DEF ReportMove, ReportState
  <2>5. ASSUME ReportMoved PROVE kept
    BY <2>2, <2>5 DEF ReportMoved, ReportState
  <2>6. ASSUME ReportEnqueue PROVE kept
    BY <2>2, <2>6 DEF ReportEnqueue, ReportState
  <2>7. ASSUME ReportLost PROVE kept
    <3>. DEFINE tried == Adopting(report.pc = "rewrite" /\ report.refused)
    <3>1. /\ tried \in ReportState /\ tried.follow = report.follow /\ tried.delivered = report.delivered
          /\ tried.pc = report.pc
      BY AdoptingTypes
    <3>2. /\ report.pc \notin {"idle", "deliver"}
          /\ report' = IF report.tries + 1 < Attempts THEN [tried EXCEPT !.base = rec, !.tries = @ + 1]
                       ELSE IF report.pc = "rewrite" /\ report.down THEN [tried EXCEPT !.pc = "enqueue", !.tries = 0]
                       ELSE IdleReport
      BY <2>7 DEF ReportLost
    <3>. HIDE DEF tried
    <3>. QED BY <3>1, <3>2 DEF ReportState
  <2>8. ASSUME ReportDies PROVE kept
    BY <2>2, <2>8 DEF ReportDies, ReportState
  <2>9. kept
    BY <1>6, <2>3, <2>4, <2>5, <2>6, <2>7, <2>8
  <2>. QED BY <2>1, <2>9 DEF Honest, HonestInv, FollowUpsHonest
<1>. QED BY <1>2, <1>3, <1>4, <1>5, <1>6 DEF ReportNext, ReportRuns

\* HonestInv is inductive, and a hold is lost only to a delivery.
LEMMA HonestStep == TypeOK /\ HonestInv /\ [Next]_vars => Honest
<1>. SUFFICES ASSUME TypeOK, HonestInv, [Next]_vars PROVE Honest
  OBVIOUS
<1>1. CASE PersonNext \/ Expire
  BY <1>1, QuietStep DEF PersonNext, PersonCalls, PersonCloses, PersonReopens, Expire
<1>2. CASE UNCHANGED vars
  BY <1>2, QuietStep DEF vars
<1>. QED BY <1>1, <1>2, HonestTwin, HonestDrain, HonestReport DEF Next

\* The types and HonestInv hold in every reachable state.
LEMMA Invariants == Spec => [](TypeOK /\ HonestInv)
<1>1. TypeOK /\ HonestInv /\ [Next]_vars => HonestInv'
  BY HonestStep DEF Honest
<1>. QED BY <1>1, TypeCorrect, HonestInit, PTL DEF Spec

\* A record that states no pending follow-ups belongs to follow-ups that are on the
\* board, whatever the drain, the report and the twins do at the same time.
THEOREM FollowUpsAreHonest == Spec => []FollowUpsHonest
<1>1. HonestInv => FollowUpsHonest
  BY DEF HonestInv
<1>. QED BY <1>1, Invariants, PTL

\* A brief hold is never lost to a write built on an older record (HoldSticks).
THEOREM HoldsStick == Spec => HoldSticks
<1>1. TypeOK /\ HonestInv /\ [Next]_vars => [(rec.brief = "held" /\ rec'.brief # "held") => onGate']_vars
  BY HonestStep DEF Honest
<1>. QED BY <1>1, Invariants, PTL DEF Spec, HoldSticks

(***************************************************************************)
(* The fence.                                                               *)
(***************************************************************************)
\* Past its fence, a twin has an intent of its own.
Past(c) == twin[c].pc \in {"commit", "clear"}

\* A Done in flight that nobody has crossed owns the record: its intent is on it, fresh,
\* the ticket is open and the record is still one that lets it pass.
Owns(c) == /\ ticket = "open" /\ fresh
           /\ rec.intent = twin[c].seen.intent /\ rec.intent # NoIntent
           /\ Admits(rec)

Alone(c) == twin[c].pc = "commit" /\ ~twin[c].crossed

FenceInv ==
    /\ \A c \in Callers : twin[c].pc = "fence" => Admits(twin[c].seen)
    /\ \A c \in Callers : Alone(c) => Owns(c)
    /\ \A c, d \in Callers : (Past(c) /\ Past(d) /\ twin[c].seen.intent = twin[d].seen.intent) => c = d

\* FenceInv holds initially.
LEMMA FenceInit == Init => FenceInv
BY DEF Init, FenceInv, Past, Alone, IdleTwin

\* A step keeps FenceInv when no twin comes to its fence or past it, those past it keep
\* their intents, and whoever is alone then was alone before and owns the record still.
LEMMA TwinsStay ==
    ASSUME FenceInv, gated' = gated,
           \A c \in Callers : twin'[c].pc = "fence" => (twin[c].pc = "fence" /\ twin'[c].seen = twin[c].seen),
           \A c \in Callers : Past(c)' => (Past(c) /\ twin'[c].seen = twin[c].seen),
           \A c \in Callers : Alone(c)' => (Alone(c) /\ Owns(c)')
    PROVE  FenceInv'
BY DEF FenceInv, Admits

\* What the drain writes over a record of a Done in flight.
LEMMA DrainKeeps ==
    ASSUME TypeOK, HonestInv, FenceInv, NEW c \in Callers, Alone(c),
           DrainHold \/ DrainRestamp \/ DrainDrop \/ DrainApplied
    PROVE  /\ rec'.intent = rec.intent /\ fresh' = fresh
           /\ Admits(rec)'
<1>. Owns(c)
  BY DEF FenceInv
<1>1. CASE DrainHold
  <2>1. rec.intent # NoIntent /\ fresh /\ ticket = "open" /\ rec = drain.seen
    BY <1>1 DEF Owns, DrainHold, CAS
  <2>. QED BY <1>1, <2>1 DEF DrainHold, Deferred
<1>2. CASE DrainRestamp
  <2>1. /\ rec = drain.seen /\ rec' = Stamped("queued") /\ fresh' = fresh /\ gated' = gated
        /\ ~drain.unfiled /\ (drain.brief = "off" => drain.done)
    BY <1>2 DEF DrainRestamp, CAS, Holding
  <2>2. /\ rec'.brief = BriefAfter(rec.brief) /\ (rec'.follow => rec.follow) /\ rec'.body = rec.body
        /\ rec'.intent = rec.intent
    BY <1>2, <2>1, StampedFields DEF Owns, HonestInv, DrainRestamp
  <2>3. rec'.brief # "held"
    BY <2>1, <2>2 DEF Owns, Admits, BriefAfter
  <2>. QED BY <2>1, <2>2, <2>3 DEF Owns, Admits
<1>3. CASE DrainApplied
  <2>1. rec'.brief = rec.brief /\ rec'.follow = rec.follow /\ rec'.body = rec.body /\ rec'.intent = rec.intent
    BY <1>3 DEF DrainApplied, TypeOK, Record
  <2>. QED BY <1>3, <2>1 DEF DrainApplied, Owns, Admits
<1>4. CASE DrainDrop
  <2>1. rec'.brief = rec.brief /\ rec'.follow = rec.follow /\ rec'.body = rec.body /\ rec'.intent = rec.intent
    BY <1>4, DroppedTypes DEF DrainDrop, CAS, Owns
  <2>. QED BY <1>4, <2>1 DEF DrainDrop, CAS, Owns, Admits
<1>. QED BY <1>1, <1>2, <1>3, <1>4

\* What the report writes over a record of a Done in flight.
LEMMA ReportKeeps ==
    ASSUME TypeOK, FenceInv, NEW c \in Callers, Alone(c), gated' = gated,
           NEW w, NEW force \in BOOLEAN, Writes(w, force)
    PROVE  rec'.intent = rec.intent /\ fresh' = fresh /\ Admits(rec)'
<1>. Owns(c)
  BY DEF FenceInv
<1>1. CASE Defers(w, force)
  BY <1>1 DEF Writes, Owns, Admits
<1>2. CASE ~Defers(w, force)
  <2>1. rec = report.base /\ rec' = Reported(w, force) /\ fresh' = fresh
    BY <1>2 DEF Writes, CAS
  <2>2. ~HoldWritten(Reported(w, force))
    BY <1>2, <2>1 DEF Defers, Deferred, Owns
  <2>3. rec'.intent = rec.intent /\ rec'.body = "report"
    BY <2>1 DEF Reported
  <2>4. rec'.brief # "held"
    BY <2>1, <2>2 DEF HoldWritten, Owns, Admits
  <2>5. gated => ~rec'.follow
    BY <2>1, <2>2 DEF HoldWritten, Owns, Admits
  <2>. QED BY <2>1, <2>3, <2>4, <2>5 DEF Admits
<1>. QED BY <1>1, <1>2

\* A step of the drain keeps FenceInv.
LEMMA FenceDrain == ASSUME TypeOK, HonestInv, FenceInv, DrainNext PROVE FenceInv'
<1>1. gated' = gated /\ ticket' = ticket
  BY DEF DrainNext, DrainTake, DrainReadTicket, DrainDeliver, DrainHold, DrainConfirm, DrainRestamp,
         DrainMove, DrainMoved, DrainApplied, DrainRetry, DrainSuperseded, DrainRefused, DrainDrop
<1>2. twin' = twin \/ twin' = [twin EXCEPT !["drain"] = IdleTwin]
        \/ \E pc \in {"judge", "again"} : twin' = [twin EXCEPT !["drain"].pc = pc]
  BY DEF DrainNext, DrainTake, DrainReadTicket, DrainDeliver, DrainHold, DrainConfirm, DrainRestamp,
         DrainMove, DrainMoved, DrainApplied, DrainRetry, DrainSuperseded, DrainRefused, DrainDrop, Call
<1>3. \A c \in Callers : twin'[c] = twin[c] \/ twin'[c].pc \in {"idle", "judge", "again"}
  BY <1>2 DEF IdleTwin, TypeOK, TwinState
<1>4. ASSUME NEW c \in Callers, Alone(c)' PROVE Alone(c) /\ Owns(c)'
  <2>1. twin'[c] = twin[c] /\ Alone(c)
    BY <1>3, <1>4 DEF Alone
  <2>2. Owns(c)
    BY <2>1 DEF FenceInv
  <2>3. rec'.intent = rec.intent /\ fresh' = fresh /\ Admits(rec)'
    <3>1. CASE DrainHold \/ DrainRestamp \/ DrainDrop \/ DrainApplied
      BY <2>1, <3>1, DrainKeeps
    <3>2. CASE UNCHANGED <<rec, fresh>>
      BY <1>1, <2>2, <3>2 DEF Owns, Admits
    <3>. QED BY <3>1, <3>2 DEF DrainNext, DrainTake, DrainReadTicket, DrainDeliver, DrainConfirm,
                DrainMove, DrainMoved, DrainRetry, DrainSuperseded, DrainRefused
  <2>. QED BY <1>1, <2>1, <2>2, <2>3 DEF Owns
<1>. QED BY <1>1, <1>3, <1>4, TwinsStay DEF Past

\* A step of report_completion keeps FenceInv.
LEMMA FenceReport == ASSUME TypeOK, FenceInv, ReportNext PROVE FenceInv'
<1>1. gated' = gated /\ ticket' = ticket
  BY DEF ReportNext, ReportRuns, ReportStart, ReportDeliver, ReportWrite, ReportMove, ReportMoved,
         ReportRewrite, ReportEnqueue, ReportStamp, ReportLost, ReportDies
<1>2. twin' = twin \/ twin' = [twin EXCEPT !["report"] = IdleTwin]
        \/ \E pc \in {"judge", "again"} : twin' = [twin EXCEPT !["report"].pc = pc]
  BY DEF ReportNext, ReportRuns, ReportStart, ReportDeliver, ReportWrite, ReportMove, ReportMoved,
         ReportRewrite, ReportEnqueue, ReportStamp, ReportLost, ReportDies, Call
<1>3. \A c \in Callers : twin'[c] = twin[c] \/ twin'[c].pc \in {"idle", "judge", "again"}
  BY <1>2 DEF IdleTwin, TypeOK, TwinState
<1>4. ASSUME NEW c \in Callers, Alone(c)' PROVE Alone(c) /\ Owns(c)'
  <2>1. twin'[c] = twin[c] /\ Alone(c)
    BY <1>3, <1>4 DEF Alone
  <2>2. Owns(c)
    BY <2>1 DEF FenceInv
  <2>3. rec'.intent = rec.intent /\ fresh' = fresh /\ Admits(rec)'
    <3>1. report.refused \in BOOLEAN
      BY DEF TypeOK, ReportState
    <3>2. CASE ReportWrite \/ ReportRewrite \/ ReportStamp
      BY <1>1, <2>1, <3>1, <3>2, ReportKeeps DEF ReportWrite, ReportRewrite, ReportStamp
    <3>3. CASE UNCHANGED <<rec, fresh>>
      BY <1>1, <2>2, <3>3 DEF Owns, Admits
    <3>. QED BY <3>2, <3>3 DEF ReportNext, ReportRuns, ReportStart, ReportDeliver, ReportMove, ReportMoved,
                ReportEnqueue, ReportLost, ReportDies
  <2>. QED BY <1>1, <2>1, <2>2, <2>3 DEF Owns
<1>. QED BY <1>1, <1>3, <1>4, TwinsStay DEF Past

\* A fence or a close leaves no other Done in flight uncrossed.
LEMMA CrossedByAnother ==
    ASSUME TypeOK, NEW c \in Callers, NEW own \in TwinState, twin' = Crossing(c, own)
    PROVE  /\ twin'[c] = own
           /\ \A d \in Callers \ {c} : /\ twin'[d].pc = twin[d].pc /\ twin'[d].seen = twin[d].seen
                                      /\ ~Alone(d)'
BY DEF Crossing, Alone, InFlight, TypeOK, TwinState

\* A fence keeps FenceInv: its intent is new, and it crosses every other Done in flight.
LEMMA FenceFence == ASSUME TypeOK, FenceInv, NEW c \in Callers, Fence(c) PROVE FenceInv'
<1>. DEFINE own == [twin[c] EXCEPT !.pc = "commit", !.seen = rec', !.crossed = InFlight # {} \/ ticket = "done"]
<1>1. /\ rec = twin[c].seen /\ rec' = Fenced(rec) /\ fresh' = TRUE /\ twin' = Crossing(c, own)
      /\ gated' = gated /\ ticket' = ticket /\ twin[c].pc = "fence"
  BY DEF Fence, CAS
<1>2. Unused \in Nonces /\ \A d \in Callers : Unused # twin[d].seen.intent
  BY <1>1, UnusedIsNew
<1>3. rec'.intent = Unused /\ rec'.brief = rec.brief /\ rec'.follow = rec.follow /\ (rec.body = "report" => rec'.body = "report")
  BY <1>1 DEF Fenced, TypeOK, Record
<1>4. rec' \in Record
  BY FenceTypes DEF TypeOK
<1>5. own \in TwinState /\ own.pc = "commit" /\ own.seen = rec' /\ own.crossed = (InFlight # {} \/ ticket = "done")
  BY <1>4 DEF TypeOK, TwinState
<1>. HIDE DEF own
<1>20. /\ twin'[c] = own
       /\ \A d \in Callers \ {c} : twin'[d].pc = twin[d].pc /\ twin'[d].seen = twin[d].seen /\ ~Alone(d)'
  BY <1>1, <1>5, CrossedByAnother
<1>21. twin'[c].pc = "commit" /\ twin'[c].seen = rec' /\ twin'[c].crossed = (InFlight # {} \/ ticket = "done")
  BY <1>5, <1>20
<1>6. Admits(rec)'
  BY <1>1, <1>3 DEF FenceInv, Admits
<1>7. Owns(c)' \/ ticket # "open"
  BY <1>1, <1>2, <1>3, <1>6, <1>21 DEF Owns, Nonces, NoIntent
<1>8. \A d \in Callers : twin'[d].pc = "fence" => Admits(twin[d].seen)'
  BY <1>1, <1>20, <1>21 DEF FenceInv, Admits
<1>9. \A d \in Callers : Alone(d)' => Owns(d)'
  <2>1. Alone(c)' => ticket = "open"
    BY <1>1, <1>21 DEF Alone, TypeOK
  <2>. QED BY <1>7, <1>20, <2>1
<1>10. \A d \in Callers \ {c} : Past(d)' => (Past(d) /\ twin'[d].seen = twin[d].seen)
  BY <1>20 DEF Past
<1>11. twin'[c].seen.intent = Unused
  BY <1>3, <1>21
<1>12. ASSUME NEW d \in Callers, NEW e \in Callers, Past(d)', Past(e)', twin'[d].seen.intent = twin'[e].seen.intent
       PROVE  d = e
  <2>1. CASE d # c /\ e # c
    BY <1>10, <1>12, <2>1 DEF FenceInv
  <2>2. CASE d = c /\ e # c
    BY <1>2, <1>10, <1>11, <1>12, <2>2
  <2>3. CASE d # c /\ e = c
    BY <1>2, <1>10, <1>11, <1>12, <2>3
  <2>. QED BY <2>1, <2>2, <2>3
<1>. QED BY <1>8, <1>9, <1>12 DEF FenceInv

\* A close keeps FenceInv: nobody is alone after it.
LEMMA FenceClose ==
    ASSUME TypeOK, FenceInv, NEW c \in Callers, NEW own \in TwinState,
           own.pc \in {"idle", "answered", "clear"}, own.pc = "clear" => (Past(c) /\ own.seen = twin[c].seen),
           twin' = Crossing(c, own), gated' = gated
    PROVE  FenceInv'
<1>1. /\ twin'[c] = own
      /\ \A d \in Callers \ {c} : twin'[d].pc = twin[d].pc /\ twin'[d].seen = twin[d].seen /\ ~Alone(d)'
  BY CrossedByAnother
<1>2. \A d \in Callers : ~Alone(d)'
  BY <1>1 DEF Alone
<1>. QED BY <1>1, <1>2, TwinsStay DEF Past

\* The other steps of a twin, seen from the twins that are alone.
LEMMA FenceTwin == ASSUME TypeOK, FenceInv, NEW c \in Callers, TwinNext(c) PROVE FenceInv'
<1>0. twin \in [Callers -> TwinState] /\ twin[c] \in TwinState
  BY DEF TypeOK
<1>1. CASE Judge(c) \/ FenceLost(c)
  <2>1. UNCHANGED <<rec, fresh, ticket, gated>>
    BY <1>1 DEF Judge, FenceLost
  <2>2. \/ twin'[c].pc \in {"idle", "answered"}
        \/ twin'[c].pc = "fence" /\ twin'[c].seen = rec /\ Admits(rec)
    <3>1. CASE Judge(c)
      BY <1>0, <3>1 DEF Judge, Answer, IdleTwin, TwinState
    <3>2. CASE FenceLost(c)
      <4>1. CASE ~Admits(rec)
        BY <1>0, <3>2, <4>1 DEF FenceLost, Answer, IdleTwin, TwinState
      <4>2. CASE Admits(rec) /\ twin[c].tries + 1 = Attempts
        BY <1>0, <3>2, <4>2 DEF FenceLost, Answer, IdleTwin, TwinState
      <4>3. CASE Admits(rec) /\ twin[c].tries + 1 # Attempts
        BY <1>0, <3>2, <4>3 DEF FenceLost, TwinState
      <4>. QED BY <4>1, <4>2, <4>3
    <3>. QED BY <1>1, <3>1, <3>2
  <2>3. \A d \in Callers \ {c} : twin'[d] = twin[d]
    BY <1>0, <1>1 DEF Judge, FenceLost
  <2>. QED BY <2>1, <2>2, <2>3 DEF FenceInv, Past, Alone, Owns, Admits
<1>2. CASE Fence(c)
  BY <1>2, FenceFence
<1>3. CASE Commit(c)
  <2>1. Answer(c, "ok") \in TwinState /\ Answer(c, "ok").pc \in {"idle", "answered"}
    BY AnswerTypes DEF Answer, IdleTwin
  <2>. QED BY <1>3, <2>1, FenceClose DEF Commit
<1>4. CASE CommitUnanswered(c)
  <2>. DEFINE own == [twin[c] EXCEPT !.pc = "clear", !.answer = "down"]
  <2>1. own \in TwinState /\ own.pc = "clear" /\ own.seen = twin[c].seen
    BY <1>0 DEF TwinState
  <2>2. Past(c) /\ twin' = Crossing(c, own) /\ gated' = gated
    BY <1>4 DEF CommitUnanswered, Closes, Past
  <2>. HIDE DEF own
  <2>. QED BY <2>1, <2>2, FenceClose
<1>5. CASE CommitFails(c)
  <2>1. /\ UNCHANGED <<rec, fresh, ticket, gated>>
        /\ twin'[c].pc = "clear" /\ twin'[c].seen = twin[c].seen /\ twin[c].pc = "commit"
    BY <1>0, <1>5 DEF CommitFails, TwinState
  <2>2. \A d \in Callers \ {c} : twin'[d] = twin[d]
    BY <1>0, <1>5 DEF CommitFails
  <2>. QED BY <2>1, <2>2, TwinsStay DEF FenceInv, Past, Alone, Owns, Admits
<1>6. CASE ClearIntent(c)
  <2>1. twin'[c].pc \in {"idle", "answered"} /\ \A d \in Callers \ {c} : twin'[d] = twin[d]
    BY <1>0, <1>6 DEF ClearIntent, Answer, IdleTwin
  <2>2. ASSUME NEW d \in Callers, Alone(d)' PROVE Alone(d) /\ Owns(d)'
    <3>1. d # c /\ twin'[d] = twin[d] /\ Alone(d)
      BY <2>1, <2>2 DEF Alone
    <3>2. Owns(d)
      BY <3>1 DEF FenceInv
    <3>3. rec # twin[c].seen
      BY <1>6, <3>1, <3>2 DEF FenceInv, Past, Alone, Owns, ClearIntent
    <3>. QED BY <1>6, <3>1, <3>2, <3>3 DEF ClearIntent, CAS, Owns, Admits
  <2>3. gated' = gated
    BY <1>6 DEF ClearIntent
  <2>. QED BY <2>1, <2>2, <2>3, TwinsStay DEF Past
<1>7. CASE TwinDies(c)
  <2>1. /\ UNCHANGED <<rec, fresh, ticket, gated>> /\ twin'[c].pc \in {"idle", "answered"}
        /\ \A d \in Callers \ {c} : twin'[d] = twin[d]
    BY <1>0, <1>7 DEF TwinDies, Answer, IdleTwin
  <2>. QED BY <2>1, TwinsStay DEF FenceInv, Past, Alone, Owns, Admits
<1>. QED BY <1>1, <1>2, <1>3, <1>4, <1>5, <1>6, <1>7 DEF TwinNext

\* A step of a person or of time keeps FenceInv.
LEMMA FencePerson == ASSUME TypeOK, FenceInv, PersonNext \/ Expire PROVE FenceInv'
<1>0. twin \in [Callers -> TwinState] /\ "person" \in Callers
  BY DEF TypeOK, Callers
<1>1. CASE PersonCalls
  <2>1. /\ UNCHANGED <<rec, fresh, ticket, gated>> /\ twin'["person"].pc \in {"judge", "again"}
        /\ \A d \in Callers \ {"person"} : twin'[d] = twin[d]
    BY <1>0, <1>1 DEF PersonCalls, Call, TwinState
  <2>. QED BY <2>1, TwinsStay DEF FenceInv, Past, Alone, Owns, Admits
<1>2. CASE PersonCloses
  <2>. DEFINE own == [twin["person"] EXCEPT !.crossed = @ \/ "person" \in InFlight]
  <2>1. own \in TwinState /\ own.pc = twin["person"].pc /\ own.seen = twin["person"].seen
          /\ own.crossed = (twin["person"].crossed \/ "person" \in InFlight)
    BY <1>0 DEF TwinState
  <2>2. twin' = Crossing("person", own) /\ gated' = gated
    BY <1>2 DEF PersonCloses
  <2>. HIDE DEF own
  <2>3. /\ twin'["person"] = own
        /\ \A d \in Callers \ {"person"} : twin'[d].pc = twin[d].pc /\ twin'[d].seen = twin[d].seen /\ ~Alone(d)'
    BY <1>0, <2>1, <2>2, CrossedByAnother
  <2>4. ~Alone("person")'
    BY <1>0, <2>1, <2>3 DEF Alone, InFlight
  <2>. QED BY <2>1, <2>2, <2>3, <2>4, TwinsStay DEF Past
<1>3. CASE PersonReopens
  <2>1. UNCHANGED <<rec, fresh, gated, twin>> /\ ticket = "done"
    BY <1>3 DEF PersonReopens
  <2>. QED BY <2>1 DEF FenceInv, Past, Alone, Owns, Admits
<1>4. CASE Expire
  <2>1. UNCHANGED <<rec, gated, twin>> /\ \A c \in Callers : ~Alone(c)
    BY <1>4 DEF Expire, Alone
  <2>. QED BY <2>1 DEF FenceInv, Past, Alone, Admits
<1>. QED BY <1>1, <1>2, <1>3, <1>4 DEF PersonNext

\* FenceInv is inductive.
LEMMA FenceStep == TypeOK /\ HonestInv /\ FenceInv /\ [Next]_vars => FenceInv'
<1>. SUFFICES ASSUME TypeOK, HonestInv, FenceInv, [Next]_vars PROVE FenceInv'
  OBVIOUS
<1>1. CASE UNCHANGED vars
  BY <1>1 DEF vars, FenceInv, Past, Alone, Owns, Admits
<1>. QED BY <1>1, FenceDrain, FenceReport, FenceTwin, FencePerson DEF Next

\* A Done that no other hand crosses is never committed over a hold (FenceHolds): the
\* fence keeps every hold off the record from the judgement to the commit.
THEOREM FenceKeepsHoldsOut == Spec => FenceHolds
<1>1. TypeOK /\ FenceInv => \A c \in Callers : (Closes(c) /\ ~twin[c].crossed) => Admits(rec)
  BY DEF FenceInv, Alone, Owns, Closes
<1>2. Spec => [](TypeOK /\ FenceInv)
  BY Invariants, FenceInit, FenceStep, PTL DEF Spec
<1>. QED BY <1>1, <1>2, PTL DEF FenceHolds
================================================================================
