------------------------- MODULE CancelCloseoutProofs -------------------------
(***************************************************************************)
(* Proofs about CancelCloseout, for any number of calls, children and      *)
(* mishaps.                                                                *)
(***************************************************************************)
EXTENDS CancelCloseout, FiniteSetTheorems, TLAPS

\* The steps before the follow-ups are chosen, and those that deal with them.
EarlySteps == {"commit", "lease", "list", "records"}
FollowUpSteps == {"find", "create", "claim", "move"}

\* No epic but the one the token is locked on, and the row's is one that exists.
EpicPlaces ==
  /\ epic \subseteq {token}
  /\ row.postRun \in epic \cup {Nobody}
  /\ \A t \in Tickets : ticket[t].parent \in {"run", row.postRun}

\* A call holds one of the epics there are, or none; if it means to move follow-ups,
\* the row has it as well.
Holds(call, epics, onRow) ==
  /\ call.epic \in epics \cup {Nobody}
  /\ call.pc \in EarlySteps /\ call.epic # Nobody => onRow # Nobody
  /\ call.pc = "claim" => call.epic # Nobody
  /\ call.pc = "move" /\ call.moving # {} => call.epic # Nobody /\ onRow # Nobody

OneEpic == EpicPlaces /\ \A c \in Callers : Holds(caller[c], epic, row.postRun)

-------------------------------------------------------------------------------
(* Types *)

\* A create's epic is an epic, while all there is is the token's.
LEMMA MintedType ==
  ASSUME TypeOK, epic \subseteq {token}
  PROVE  Minted \in Epics /\ (token # Nobody => Minted = token)
<1>1. CASE token = Nobody
  <2>1. epic = {} BY <1>1, NobodyAssumption DEF TypeOK
  <2>2. \E e \in Epics : e \notin epic BY <2>1, EpicsAssumption
  <2>. QED BY <1>1, <2>2 DEF Minted
<1>2. CASE token # Nobody BY <1>2 DEF Minted, TypeOK
<1>. QED BY <1>1, <1>2

\* The call moves on within its types.
LEMMA CallTypes ==
  ASSUME TypeOK, NEW c \in Callers
  PROVE  /\ caller[c] \in Call /\ Idle \in Call
         /\ Leave(c) => caller' \in [Callers -> Call]
         /\ \A pc \in Steps : Goto(c, pc) \/ GotoDirty(c, pc) => caller' \in [Callers -> Call]
         /\ GiveUpMove(c) => caller' \in [Callers -> Call]
<1>1. Idle \in Call BY DEF Idle, Call, Steps
<1>2. caller[c] \in Call BY DEF TypeOK
<1>3. Leave(c) => caller' \in [Callers -> Call] BY <1>1 DEF Leave, TypeOK
<1>4. ASSUME NEW pc \in Steps, Goto(c, pc) \/ GotoDirty(c, pc)
      PROVE  caller' \in [Callers -> Call]
  <2>. DEFINE r == [caller[c] EXCEPT !.pc = pc]
              d == [caller[c] EXCEPT !.pc = pc, !.dirty = TRUE]
  <2>1. r \in Call /\ d \in Call BY <1>2 DEF Call
  <2>2. caller' = [caller EXCEPT ![c] = r] \/ caller' = [caller EXCEPT ![c] = d]
    BY <1>4 DEF Goto, GotoDirty, TypeOK
  <2>. HIDE DEF r, d
  <2>. QED BY <2>1, <2>2 DEF TypeOK
<1>5. GiveUpMove(c) => caller' \in [Callers -> Call]
  <2>. DEFINE r == [caller[c] EXCEPT !.pc = "sweep", !.moving = {}, !.dirty = TRUE]
  <2>1. r \in Call BY <1>2 DEF Call, Steps
  <2>2. GiveUpMove(c) => caller' = [caller EXCEPT ![c] = r] BY DEF GiveUpMove, TypeOK
  <2>. HIDE DEF r
  <2>. QED BY <2>1, <2>2 DEF TypeOK
<1>. QED BY <1>1, <1>2, <1>3, <1>4, <1>5

\* One more mishap stays within the bound.
LEMMA MishapType == TypeOK /\ Mishap => mishaps' \in 0 .. MaxMishaps
BY BoundAssumption DEF TypeOK, Mishap

\* The calls' first steps and the lease.
LEMMA EntryTypes ==
  ASSUME TypeOK, NEW c \in Callers
  PROVE  Read(c) \/ Commit(c) \/ ClaimCloseoutLease(c) => TypeOK'
<1>1. ASSUME Read(c) PROVE TypeOK'
  <2>. DEFINE r == [Idle EXCEPT !.pc = IF row.cancelled THEN "lease" ELSE "commit",
                        !.resume = row.cancelled, !.live = live, !.epic = row.postRun,
                        !.event = IF row.cancelled /\ ~row.owed THEN "none" ELSE "owed"]
  <2>1. r \in Call BY DEF Idle, Call, Steps, TypeOK, Row
  <2>2. caller' = [caller EXCEPT ![c] = r] BY <1>1 DEF Read
  <2>. HIDE DEF r
  <2>3. caller' \in [Callers -> Call] BY <2>1, <2>2 DEF TypeOK
  <2>. QED BY <1>1, <2>3 DEF Read, TypeOK, work
<1>2. ASSUME Commit(c) PROVE TypeOK'
  <2>1. row' \in Row BY <1>2 DEF Commit, Cancelled, PerhapsWritten, TypeOK, Row
  <2>2. caller' \in [Callers -> Call] BY <1>2, CallTypes DEF Commit, Steps
  <2>3. mishaps' \in 0 .. MaxMishaps BY <1>2, MishapType DEF Commit, TypeOK
  <2>. QED BY <1>2, <2>1, <2>2, <2>3 DEF Commit, TypeOK, work
<1>3. ASSUME ClaimCloseoutLease(c) PROVE TypeOK'
  <2>1. row' \in Row BY <1>3 DEF ClaimCloseoutLease, Leased, PerhapsWritten, TypeOK, Row
  <2>2. caller' \in [Callers -> Call] BY <1>3, CallTypes DEF ClaimCloseoutLease, Steps
  <2>3. mishaps' \in 0 .. MaxMishaps BY <1>3, MishapType DEF ClaimCloseoutLease, TypeOK
  <2>. QED BY <1>3, <2>1, <2>2, <2>3 DEF ClaimCloseoutLease, TypeOK, work
<1>. QED BY <1>1, <1>2, <1>3

\* The follow-ups.
LEMMA FollowUpTypes ==
  ASSUME TypeOK, epic \subseteq {token}, NEW c \in Callers
  PROVE  /\ List(c) \/ ChooseFollowUps(c) \/ FindPostRunEpic(c) => TypeOK'
         /\ CreatePostRunEpic(c) \/ ClaimPostRunEpic(c) \/ MovesDone(c) => TypeOK'
         /\ \A t \in Tickets : ReadFollowUpRecord(c, t) => TypeOK'
<1>0. caller[c] \in Call BY DEF TypeOK
<1>1. ASSUME List(c) PROVE TypeOK'
  <2>1. Listing \in [Tickets -> Statuses \cup {"gone"}] BY DEF Listing, TypeOK, Child
  <2>2. CdBlocked(Listing) \in SUBSET Tickets BY DEF CdBlocked, Listed
  <2>. DEFINE r == [caller[c] EXCEPT !.pc = "records", !.seen = Listing,
                                     !.todo = CdBlocked(Listing)]
  <2>3. caller' \in [Callers -> Call]
    <3>1. r \in Call BY <1>0, <2>1, <2>2 DEF Call, Steps
    <3>2. caller' = [caller EXCEPT ![c] = r] \/ GotoDirty(c, "publish")
      BY <1>1 DEF List, TypeOK
    <3>. HIDE DEF r
    <3>. QED BY <3>1, <3>2, CallTypes DEF TypeOK, Steps
  <2>4. mishaps' \in 0 .. MaxMishaps BY <1>1, MishapType DEF List, TypeOK
  <2>. QED BY <1>1, <2>3, <2>4 DEF List, TypeOK, work
<1>2. ASSUME ChooseFollowUps(c) PROVE TypeOK'
  <2>1. Listed(caller[c].seen) \ caller[c].moving \in SUBSET Tickets BY DEF Listed
  <2>2. AfterRecords(c) \in Steps BY DEF AfterRecords, Steps
  <2>3. caller' \in [Callers -> Call]
    BY <1>0, <1>2, <2>1, <2>2 DEF ChooseFollowUps, TypeOK, Call
  <2>. QED BY <1>2, <2>3 DEF ChooseFollowUps, TypeOK, work
<1>3. ASSUME FindPostRunEpic(c) PROVE TypeOK'
  <2>1. ASSUME NEW e \in epic, caller' = [caller EXCEPT ![c].pc = "claim", ![c].epic = e]
        PROVE  caller' \in [Callers -> Call]
    BY <1>0, <2>1 DEF TypeOK, Call, Steps
  <2>2. caller' \in [Callers -> Call] BY <1>3, <2>1, CallTypes DEF FindPostRunEpic, Steps
  <2>3. mishaps' \in 0 .. MaxMishaps BY <1>3, MishapType DEF FindPostRunEpic, TypeOK
  <2>. QED BY <1>3, <2>2, <2>3 DEF FindPostRunEpic, TypeOK, work
<1>4. ASSUME CreatePostRunEpic(c) PROVE TypeOK'
  <2>1. Minted \in Epics BY MintedType
  <2>2. token' \in Epics \cup {Nobody} /\ epic' \subseteq Epics
    BY <1>4, <2>1 DEF CreatePostRunEpic, TypeOK
  <2>3. ASSUME caller' = [caller EXCEPT ![c].pc = "claim", ![c].epic = Minted]
        PROVE  caller' \in [Callers -> Call]
    BY <1>0, <2>1, <2>3 DEF TypeOK, Call, Steps
  <2>4. caller' \in [Callers -> Call] BY <1>4, <2>3, CallTypes DEF CreatePostRunEpic
  <2>5. mishaps' \in 0 .. MaxMishaps BY <1>4, MishapType DEF CreatePostRunEpic, TypeOK
  <2>. QED BY <1>4, <2>2, <2>4, <2>5 DEF CreatePostRunEpic, TypeOK, work
<1>5. ASSUME ClaimPostRunEpic(c) PROVE TypeOK'
  <2>1. row' \in Row
    BY <1>0, <1>5 DEF ClaimPostRunEpic, PerhapsWritten, TypeOK, Row, Call
  <2>2. ASSUME caller' = [caller EXCEPT ![c].pc = "move", ![c].epic = row.postRun]
        PROVE  caller' \in [Callers -> Call]
    BY <1>0, <2>2 DEF TypeOK, Call, Steps, Row
  <2>3. caller' \in [Callers -> Call] BY <1>5, <2>2, CallTypes DEF ClaimPostRunEpic, Steps
  <2>4. mishaps' \in 0 .. MaxMishaps BY <1>5, MishapType DEF ClaimPostRunEpic, TypeOK
  <2>. QED BY <1>5, <2>1, <2>3, <2>4 DEF ClaimPostRunEpic, TypeOK, work
<1>6. ASSUME MovesDone(c) PROVE TypeOK'
  <2>1. caller' \in [Callers -> Call] BY <1>6, CallTypes DEF MovesDone, Steps
  <2>2. mishaps' \in 0 .. MaxMishaps BY <1>6, MishapType DEF MovesDone, TypeOK
  <2>. QED BY <1>6, <2>1, <2>2 DEF MovesDone, TypeOK, work
<1>7. ASSUME NEW t \in Tickets, ReadFollowUpRecord(c, t) PROVE TypeOK'
  <2>. DEFINE r == [caller[c] EXCEPT !.todo = @ \ {t}, !.moving = @ \cup ({t} \ record)]
              d == [caller[c] EXCEPT !.todo = @ \ {t}]
  <2>0. r \in Call /\ d \in Call BY <1>0 DEF Call
  <2>1. caller' \in [Callers -> Call]
    <3>1. caller' = [caller EXCEPT ![c] = r] \/ caller' = [caller EXCEPT ![c] = d]
      BY <1>7 DEF ReadFollowUpRecord, TypeOK
    <3>. HIDE DEF r, d
    <3>. QED BY <2>0, <3>1 DEF TypeOK
  <2>2. mishaps' \in 0 .. MaxMishaps BY <1>7, MishapType DEF ReadFollowUpRecord, TypeOK
  <2>. QED BY <1>7, <2>1, <2>2 DEF ReadFollowUpRecord, TypeOK, work
<1>. QED BY <1>1, <1>2, <1>3, <1>4, <1>5, <1>6, <1>7

\* The children's tickets.
LEMMA SweepTypes ==
  ASSUME TypeOK, NEW c \in Callers, NEW t \in Tickets
  PROVE  /\ MoveFollowUp(c, t) /\ caller[c].epic # Nobody => TypeOK'
         /\ Examine(c, t) \/ CancelTicket(c, t) => TypeOK'
<1>0. caller[c] \in Call /\ ticket[t] \in Child BY DEF TypeOK
<1>1. ASSUME MoveFollowUp(c, t), caller[c].epic # Nobody PROVE TypeOK'
  <2>1. Moved(c, t) \in Child BY <1>0, <1>1 DEF Moved, Child, Call, Statuses
  <2>2. ticket' \in [Tickets -> Child] BY <1>1, <2>1 DEF MoveFollowUp, TypeOK
  <2>3. caller' \in [Callers -> Call]
    <3>. DEFINE r == [caller[c] EXCEPT !.moving = @ \ {t}]
                d == [caller[c] EXCEPT !.moving = @ \ {t}, !.dirty = TRUE]
    <3>1. r \in Call /\ d \in Call BY <1>0 DEF Call
    <3>2. caller' = [caller EXCEPT ![c] = r] \/ caller' = [caller EXCEPT ![c] = d]
      BY <1>1 DEF MoveFollowUp, TypeOK
    <3>. HIDE DEF r, d
    <3>. QED BY <3>1, <3>2 DEF TypeOK
  <2>4. mishaps' \in 0 .. MaxMishaps BY <1>1, MishapType DEF MoveFollowUp, TypeOK
  <2>. QED BY <1>1, <2>2, <2>3, <2>4 DEF MoveFollowUp, TypeOK, work
<1>2. ASSUME Examine(c, t) PROVE TypeOK'
  <2>. DEFINE r == [caller[c] EXCEPT !.sweep = @ \ {t}]
              d == [r EXCEPT !.dirty = TRUE]
              m == [r EXCEPT !.todo = @ \cup ({t} \ record)]
  <2>0. r \in Call /\ d \in Call /\ m \in Call BY <1>0 DEF Call
  <2>1. caller' \in [Callers -> Call]
    <3>1. \E j \in {r, d, m} : caller' = [caller EXCEPT ![c] = j] BY <1>2 DEF Examine, TypeOK
    <3>. HIDE DEF r, d, m
    <3>. QED BY <2>0, <3>1 DEF TypeOK
  <2>2. mishaps' \in 0 .. MaxMishaps BY <1>2, MishapType DEF Examine, TypeOK
  <2>. QED BY <1>2, <2>1, <2>2 DEF Examine, TypeOK, work
<1>3. ASSUME CancelTicket(c, t) PROVE TypeOK'
  <2>1. [ticket EXCEPT ![t].status = "cancelled"] \in [Tickets -> Child]
    BY <1>0 DEF TypeOK, Child, Statuses, Closed
  <2>2. ticket' \in [Tickets -> Child] BY <1>3, <2>1 DEF CancelTicket, TypeOK
  <2>. DEFINE r == [caller[c] EXCEPT !.todo = @ \ {t}]
              d == [r EXCEPT !.dirty = TRUE]
  <2>0. r \in Call /\ d \in Call BY <1>0 DEF Call
  <2>3. caller' \in [Callers -> Call]
    <3>1. caller' = [caller EXCEPT ![c] = r] \/ caller' = [caller EXCEPT ![c] = d]
      BY <1>3 DEF CancelTicket, TypeOK
    <3>. HIDE DEF r, d
    <3>. QED BY <2>0, <3>1 DEF TypeOK
  <2>4. mishaps' \in 0 .. MaxMishaps BY <1>3, MishapType DEF CancelTicket, TypeOK
  <2>. QED BY <1>3, <2>2, <2>3, <2>4 DEF CancelTicket, TypeOK, work
<1>. QED BY <1>1, <1>2, <1>3

\* The end of the sweep.
LEMMA SweepDoneTypes ==
  ASSUME TypeOK, NEW c \in Callers, SweepDone(c)
  PROVE  TypeOK'
<1>. DEFINE r == [Idle EXCEPT !.pc = IF caller[c].dirty THEN "publish" ELSE "epic",
                      !.dirty = caller[c].dirty, !.event = caller[c].event]
<1>0. caller[c] \in Call BY DEF TypeOK
<1>1. r \in Call BY <1>0 DEF Idle, Call, Steps
<1>2. caller' = [caller EXCEPT ![c] = r] BY DEF SweepDone
<1>. HIDE DEF r
<1>3. caller' \in [Callers -> Call] BY <1>1, <1>2 DEF TypeOK
<1>. QED BY <1>3 DEF SweepDone, TypeOK, work

\* The end of the call.
LEMMA EndTypes ==
  ASSUME TypeOK, NEW c \in Callers
  PROVE  CloseEpic(c) \/ PublishCancelled(c) \/ ReleaseCloseoutLease(c) \/ Die(c) => TypeOK'
<1>0. caller[c] \in Call BY DEF TypeOK
<1>1. ASSUME CloseEpic(c) PROVE TypeOK'
  <2>1. caller' \in [Callers -> Call] BY <1>1, CallTypes DEF CloseEpic, Steps
  <2>2. mishaps' \in 0 .. MaxMishaps BY <1>1, MishapType DEF CloseEpic, TypeOK
  <2>3. runEpic' \in {"open", "cancelled"} BY <1>1 DEF CloseEpic, TypeOK
  <2>. QED BY <1>1, <2>1, <2>2, <2>3 DEF CloseEpic, TypeOK, work
<1>2. ASSUME PublishCancelled(c) PROVE TypeOK'
  <2>1. caller' \in [Callers -> Call]
    <3>. DEFINE r == [caller[c] EXCEPT !.pc = "release", !.event = "sent"]
                d == [caller[c] EXCEPT !.pc = "release", !.event = "unsent", !.dirty = TRUE]
    <3>1. r \in Call /\ d \in Call BY <1>0 DEF Call, Steps
    <3>2. \/ caller' = [caller EXCEPT ![c] = r] \/ caller' = [caller EXCEPT ![c] = d]
          \/ Goto(c, "release")
      BY <1>2 DEF PublishCancelled, TypeOK
    <3>. HIDE DEF r, d
    <3>. QED BY <3>1, <3>2, CallTypes DEF TypeOK, Steps
  <2>2. mishaps' \in 0 .. MaxMishaps BY <1>2, MishapType DEF PublishCancelled, TypeOK
  <2>3. sent' \in BOOLEAN BY <1>2 DEF PublishCancelled, TypeOK
  <2>. QED BY <1>2, <2>1, <2>2, <2>3 DEF PublishCancelled, TypeOK, work
<1>3. ASSUME ReleaseCloseoutLease(c) PROVE TypeOK'
  <2>1. Released(c) \in Row BY DEF Released, TypeOK, Row
  <2>2. row' \in Row BY <1>3, <2>1 DEF ReleaseCloseoutLease, PerhapsWritten, TypeOK
  <2>3. caller' \in [Callers -> Call] BY <1>3, CallTypes DEF ReleaseCloseoutLease
  <2>4. mishaps' \in 0 .. MaxMishaps BY <1>3, MishapType DEF ReleaseCloseoutLease, TypeOK
  <2>. QED BY <1>3, <2>2, <2>3, <2>4 DEF ReleaseCloseoutLease, TypeOK, work
<1>4. ASSUME Die(c) PROVE TypeOK'
  <2>1. caller' \in [Callers -> Call] BY <1>4, CallTypes DEF Die
  <2>. QED BY <1>4, <2>1, MishapType DEF Die, TypeOK, work
<1>. QED BY <1>1, <1>2, <1>3, <1>4

\* Agents, the retry route and the clock.
LEMMA WorldTypes ==
  ASSUME TypeOK
  PROVE  /\ \A t \in Tickets : Agent(t) \/ RetryRelease(t) \/ RetryReady(t) => TypeOK'
         /\ Expire => TypeOK'
<1>1. ASSUME NEW t \in Tickets, Agent(t) \/ RetryRelease(t) \/ RetryReady(t) PROVE TypeOK'
  <2>1. ticket[t] \in Child BY DEF TypeOK
  <2>2. ticket' \in [Tickets -> Child]
    BY <1>1, <2>1 DEF Agent, Start, Claim, Report, Done, RetryRelease, RetryReady, TypeOK,
                      Child, Statuses, Closed
  <2>3. /\ record' \subseteq Tickets /\ live' \subseteq Tickets
        /\ retry' \subseteq Tickets /\ reset' \subseteq Tickets
    BY <1>1 DEF Agent, Start, Claim, Report, Done, RetryRelease, RetryReady, TypeOK, work
  <2>4. UNCHANGED others
    BY <1>1 DEF Agent, Start, Claim, Report, Done, RetryRelease, RetryReady, others
  <2>. QED BY <2>2, <2>3, <2>4 DEF TypeOK, others
<1>2. ASSUME Expire PROVE TypeOK'
  <2>1. row' \in Row BY <1>2 DEF Expire, TypeOK, Row
  <2>2. mishaps' \in 0 .. MaxMishaps BY <1>2, MishapType DEF Expire, TypeOK
  <2>. QED BY <1>2, <2>1, <2>2 DEF Expire, TypeOK, work
<1>. QED BY <1>1, <1>2

-------------------------------------------------------------------------------
(* One post-run epic *)

\* One call moves on while the epics and the row's grow.
LEMMA HoldsKept ==
  ASSUME TypeOK, OneEpic, NEW c \in Callers, NEW r, caller' = [caller EXCEPT ![c] = r],
         NEW epics, epic \subseteq epics, NEW onRow, row.postRun # Nobody => onRow # Nobody,
         Holds(r, epics, onRow)
  PROVE  \A d \in Callers : Holds(caller'[d], epics, onRow)
BY DEF OneEpic, Holds, TypeOK

\* Steps of a call that leave epics, tickets and the row's epic alone.
LEMMA CallKeepsEpic ==
  ASSUME TypeOK, OneEpic, NEW c \in Callers, NEW r, caller' = [caller EXCEPT ![c] = r],
         Holds(r, epic, row.postRun), row'.postRun = row.postRun, UNCHANGED <<ticket, token, epic>>
  PROVE  OneEpic'
<1>1. \A d \in Callers : Holds(caller'[d], epic, row.postRun) BY HoldsKept
<1>. QED BY <1>1 DEF OneEpic, EpicPlaces

\* The same, said of the helpers the actions are written with.
LEMMA GoKeepsEpic ==
  ASSUME TypeOK, OneEpic, NEW c \in Callers, row'.postRun = row.postRun,
         UNCHANGED <<ticket, token, epic>>
  PROVE  /\ Leave(c) => OneEpic'
         /\ \A pc \in Steps \ {"claim", "move"} :
              /\ Goto(c, pc) \/ GotoDirty(c, pc)
              /\ pc \in EarlySteps => caller[c].pc \in EarlySteps
              => OneEpic'
         /\ GiveUpMove(c) => OneEpic'
<1>0. caller[c] \in Call /\ Holds(caller[c], epic, row.postRun) BY DEF TypeOK, OneEpic
<1>1. ASSUME Leave(c) PROVE OneEpic'
  <2>1. Holds(Idle, epic, row.postRun) BY DEF Holds, Idle, EarlySteps
  <2>. QED BY <1>1, <2>1, CallKeepsEpic DEF Leave
<1>2. ASSUME NEW pc \in Steps \ {"claim", "move"}, Goto(c, pc) \/ GotoDirty(c, pc),
             pc \in EarlySteps => caller[c].pc \in EarlySteps
      PROVE  OneEpic'
  <2>. DEFINE r == [caller[c] EXCEPT !.pc = pc]
              d == [caller[c] EXCEPT !.pc = pc, !.dirty = TRUE]
  <2>1. Holds(r, epic, row.postRun) /\ Holds(d, epic, row.postRun)
    BY <1>0, <1>2 DEF Holds, Call
  <2>2. caller' = [caller EXCEPT ![c] = r] \/ caller' = [caller EXCEPT ![c] = d]
    BY <1>2 DEF Goto, GotoDirty, TypeOK
  <2>. HIDE DEF r, d
  <2>. QED BY <2>1, <2>2, CallKeepsEpic
<1>3. ASSUME GiveUpMove(c) PROVE OneEpic'
  <2>. DEFINE r == [caller[c] EXCEPT !.pc = "sweep", !.moving = {}, !.dirty = TRUE]
  <2>1. Holds(r, epic, row.postRun) BY <1>0 DEF Holds, Call, EarlySteps
  <2>2. caller' = [caller EXCEPT ![c] = r] BY <1>3 DEF GiveUpMove, TypeOK
  <2>. HIDE DEF r
  <2>. QED BY <2>1, <2>2, CallKeepsEpic
<1>. QED BY <1>1, <1>2, <1>3

\* The calls' first steps and their last ones.
LEMMA OuterEpic ==
  ASSUME TypeOK, OneEpic, NEW c \in Callers
  PROVE  /\ Read(c) \/ Commit(c) \/ ClaimCloseoutLease(c) \/ List(c) => OneEpic'
         /\ SweepDone(c) \/ CloseEpic(c) \/ PublishCancelled(c) => OneEpic'
         /\ ReleaseCloseoutLease(c) \/ Die(c) => OneEpic'
<1>0. caller[c] \in Call /\ Holds(caller[c], epic, row.postRun) BY DEF TypeOK, OneEpic
<1>1. ASSUME Read(c) PROVE OneEpic'
  <2>. DEFINE r == [Idle EXCEPT !.pc = IF row.cancelled THEN "lease" ELSE "commit",
                        !.resume = row.cancelled, !.live = live, !.epic = row.postRun,
                        !.event = IF row.cancelled /\ ~row.owed THEN "none" ELSE "owed"]
  <2>1. Holds(r, epic, row.postRun) BY DEF Holds, Idle, EarlySteps, OneEpic, EpicPlaces
  <2>2. caller' = [caller EXCEPT ![c] = r] BY <1>1 DEF Read
  <2>. HIDE DEF r
  <2>. QED BY <1>1, <2>1, <2>2, CallKeepsEpic DEF Read
<1>2. ASSUME Commit(c) PROVE OneEpic'
  <2>1. row'.postRun = row.postRun BY <1>2 DEF Commit, Cancelled, PerhapsWritten, TypeOK, Row
  <2>2. caller[c].pc \in EarlySteps BY <1>2 DEF Commit, At, EarlySteps
  <2>3. Goto(c, "lease") \/ Leave(c) BY <1>2 DEF Commit
  <2>. QED BY <1>2, <2>1, <2>2, <2>3, GoKeepsEpic DEF Commit, Steps
<1>3. ASSUME ClaimCloseoutLease(c) PROVE OneEpic'
  <2>1. row'.postRun = row.postRun
    BY <1>3 DEF ClaimCloseoutLease, Leased, PerhapsWritten, TypeOK, Row
  <2>2. caller[c].pc \in EarlySteps BY <1>3 DEF ClaimCloseoutLease, At, EarlySteps
  <2>3. Goto(c, "list") \/ Leave(c) BY <1>3 DEF ClaimCloseoutLease
  <2>. QED BY <1>3, <2>1, <2>2, <2>3, GoKeepsEpic DEF ClaimCloseoutLease, Steps
<1>4. ASSUME List(c) PROVE OneEpic'
  <2>. DEFINE r == [caller[c] EXCEPT !.pc = "records", !.seen = Listing,
                                     !.todo = CdBlocked(Listing)]
  <2>1. Holds(r, epic, row.postRun) BY <1>0, <1>4 DEF List, At, Holds, Call, EarlySteps
  <2>2. caller' = [caller EXCEPT ![c] = r] \/ GotoDirty(c, "publish")
    BY <1>4 DEF List, TypeOK
  <2>3. "publish" \notin EarlySteps BY DEF EarlySteps
  <2>. HIDE DEF r
  <2>4. row'.postRun = row.postRun /\ UNCHANGED <<ticket, token, epic>> BY <1>4 DEF List
  <2>5. CASE caller' = [caller EXCEPT ![c] = r] BY <2>1, <2>4, <2>5, CallKeepsEpic
  <2>6. CASE GotoDirty(c, "publish") BY <2>3, <2>4, <2>6, GoKeepsEpic DEF Steps
  <2>. QED BY <2>2, <2>5, <2>6
<1>5. ASSUME SweepDone(c) PROVE OneEpic'
  <2>. DEFINE r == [Idle EXCEPT !.pc = IF caller[c].dirty THEN "publish" ELSE "epic",
                        !.dirty = caller[c].dirty, !.event = caller[c].event]
  <2>1. Holds(r, epic, row.postRun) BY DEF Holds, Idle, EarlySteps
  <2>2. caller' = [caller EXCEPT ![c] = r] BY <1>5 DEF SweepDone
  <2>. HIDE DEF r
  <2>. QED BY <1>5, <2>1, <2>2, CallKeepsEpic DEF SweepDone
<1>6. ASSUME CloseEpic(c) PROVE OneEpic'
  <2>1. Goto(c, "publish") \/ GotoDirty(c, "publish") BY <1>6 DEF CloseEpic
  <2>2. "publish" \notin EarlySteps BY DEF EarlySteps
  <2>. QED BY <1>6, <2>1, <2>2, GoKeepsEpic DEF CloseEpic, Steps
<1>7. ASSUME PublishCancelled(c) PROVE OneEpic'
  <2>. DEFINE r == [caller[c] EXCEPT !.pc = "release", !.event = "sent"]
              d == [caller[c] EXCEPT !.pc = "release", !.event = "unsent", !.dirty = TRUE]
  <2>1. Holds(r, epic, row.postRun) /\ Holds(d, epic, row.postRun)
    BY <1>0 DEF Holds, Call, EarlySteps
  <2>2. \/ caller' = [caller EXCEPT ![c] = r] \/ caller' = [caller EXCEPT ![c] = d]
        \/ Goto(c, "release")
    BY <1>7 DEF PublishCancelled, TypeOK
  <2>3. "release" \notin EarlySteps BY DEF EarlySteps
  <2>. HIDE DEF r, d
  <2>4. row'.postRun = row.postRun /\ UNCHANGED <<ticket, token, epic>>
    BY <1>7 DEF PublishCancelled
  <2>5. CASE Goto(c, "release") BY <2>3, <2>4, <2>5, GoKeepsEpic DEF Steps
  <2>. QED BY <2>1, <2>2, <2>4, <2>5, CallKeepsEpic
<1>8. ASSUME ReleaseCloseoutLease(c) PROVE OneEpic'
  <2>1. row'.postRun = row.postRun
    BY <1>8 DEF ReleaseCloseoutLease, Released, PerhapsWritten, TypeOK, Row
  <2>. QED BY <1>8, <2>1, GoKeepsEpic DEF ReleaseCloseoutLease
<1>9. ASSUME Die(c) PROVE OneEpic'
  BY <1>9, GoKeepsEpic DEF Die
<1>. QED BY <1>1, <1>2, <1>3, <1>4, <1>5, <1>6, <1>7, <1>8, <1>9

\* The follow-ups' records and their new epic.
LEMMA FollowUpEpic ==
  ASSUME TypeOK, OneEpic, NEW c \in Callers
  PROVE  /\ (\E t \in Tickets : ReadFollowUpRecord(c, t)) \/ ChooseFollowUps(c) => OneEpic'
         /\ FindPostRunEpic(c) \/ CreatePostRunEpic(c) \/ ClaimPostRunEpic(c) => OneEpic'
<1>0. /\ caller[c] \in Call /\ Holds(caller[c], epic, row.postRun)
      /\ epic \subseteq {token} /\ row.postRun \in epic \cup {Nobody}
      /\ epic \subseteq Epics /\ Nobody \notin Epics
  BY NobodyAssumption DEF TypeOK, OneEpic, EpicPlaces
<1>1. ASSUME NEW t \in Tickets, ReadFollowUpRecord(c, t) PROVE OneEpic'
  <2>. DEFINE r == [caller[c] EXCEPT !.todo = @ \ {t}, !.moving = @ \cup ({t} \ record)]
              d == [caller[c] EXCEPT !.todo = @ \ {t}]
  <2>1. Holds(r, epic, row.postRun) /\ Holds(d, epic, row.postRun)
    BY <1>0, <1>1 DEF Holds, Call, ReadFollowUpRecord, At
  <2>2. caller' = [caller EXCEPT ![c] = r] \/ caller' = [caller EXCEPT ![c] = d]
    BY <1>1 DEF ReadFollowUpRecord, TypeOK
  <2>. HIDE DEF r, d
  <2>. QED BY <1>1, <2>1, <2>2, CallKeepsEpic DEF ReadFollowUpRecord
<1>2. ASSUME ChooseFollowUps(c) PROVE OneEpic'
  <2>. DEFINE r == [caller[c] EXCEPT !.pc = AfterRecords(c),
                                !.sweep = Listed(caller[c].seen) \ caller[c].moving]
  <2>1. Holds(r, epic, row.postRun)
    BY <1>0, <1>2 DEF Holds, Call, ChooseFollowUps, At, AfterRecords, EarlySteps
  <2>2. caller' = [caller EXCEPT ![c] = r] BY <1>2 DEF ChooseFollowUps, TypeOK
  <2>. HIDE DEF r
  <2>. QED BY <1>2, <2>1, <2>2, CallKeepsEpic DEF ChooseFollowUps
<1>3. ASSUME FindPostRunEpic(c) PROVE OneEpic'
  <2>1. row'.postRun = row.postRun /\ UNCHANGED <<ticket, token, epic>>
    BY <1>3 DEF FindPostRunEpic
  <2>2. ASSUME NEW e \in epic, caller' = [caller EXCEPT ![c].pc = "claim", ![c].epic = e]
        PROVE  OneEpic'
    <3>. DEFINE r == [caller[c] EXCEPT !.pc = "claim", !.epic = e]
    <3>1. Holds(r, epic, row.postRun) BY <1>0 DEF Holds, Call, EarlySteps
    <3>2. caller' = [caller EXCEPT ![c] = r] BY <2>2 DEF TypeOK
    <3>. HIDE DEF r
    <3>. QED BY <2>1, <3>1, <3>2, CallKeepsEpic
  <2>3. "create" \notin EarlySteps BY DEF EarlySteps
  <2>4. CASE Goto(c, "create") BY <2>1, <2>3, <2>4, GoKeepsEpic DEF Steps
  <2>5. CASE GiveUpMove(c) BY <2>1, <2>5, GoKeepsEpic
  <2>. QED BY <1>3, <2>2, <2>4, <2>5 DEF FindPostRunEpic
<1>4. ASSUME CreatePostRunEpic(c) PROVE OneEpic'
  <2>1. Minted \in Epics /\ (token # Nobody => Minted = token) BY <1>0, MintedType
  <2>2. Minted # Nobody /\ epic \subseteq {Minted} BY <1>0, <2>1
  <2>3. /\ epic' \in {epic, epic \cup {Minted}} /\ UNCHANGED <<row, ticket>>
        /\ epic' # epic => token' = Minted
        /\ token' \in {token, Minted}
    BY <1>4 DEF CreatePostRunEpic
  <2>4. epic' \subseteq {token'} /\ epic \subseteq epic' BY <1>0, <2>2, <2>3
  <2>5. \A d \in Callers : Holds(caller'[d], epic', row.postRun)
    <3>. DEFINE r == [caller[c] EXCEPT !.pc = "claim", !.epic = Minted]
                g == [caller[c] EXCEPT !.pc = "sweep", !.moving = {}, !.dirty = TRUE]
    <3>1. ASSUME epic' = epic \cup {Minted} PROVE Holds(r, epic', row.postRun)
      BY <1>0, <2>2, <3>1 DEF Holds, Call, EarlySteps
    <3>2. Holds(g, epic', row.postRun) BY <1>0, <2>4 DEF Holds, Call, EarlySteps
    <3>3. \/ caller' = [caller EXCEPT ![c] = r] /\ epic' = epic \cup {Minted}
          \/ caller' = [caller EXCEPT ![c] = g]
      BY <1>4 DEF CreatePostRunEpic, GiveUpMove, TypeOK
    <3>. HIDE DEF r, g
    <3>. QED BY <2>4, <3>1, <3>2, <3>3, HoldsKept
  <2>. QED BY <1>0, <2>3, <2>4, <2>5 DEF OneEpic, EpicPlaces
<1>5. ASSUME ClaimPostRunEpic(c) PROVE OneEpic'
  <2>1. caller[c].epic \in epic /\ UNCHANGED <<ticket, token, epic>>
    BY <1>0, <1>5 DEF ClaimPostRunEpic, Holds, At
  <2>2. \/ row'.postRun = row.postRun
        \/ row.postRun = Nobody /\ row'.postRun = caller[c].epic
    BY <1>5 DEF ClaimPostRunEpic, PerhapsWritten, TypeOK, Row
  <2>3. \A d \in Callers : Holds(caller'[d], epic, row'.postRun)
    <3>. DEFINE r == [caller[c] EXCEPT !.pc = "move"]
                o == [caller[c] EXCEPT !.pc = "move", !.epic = row.postRun]
                g == [caller[c] EXCEPT !.pc = "sweep", !.moving = {}, !.dirty = TRUE]
    <3>1. row.postRun = Nobody /\ row'.postRun = caller[c].epic
            => Holds(r, epic, row'.postRun)
      BY <1>0, <2>1 DEF Holds, Call, EarlySteps
    <3>2. row'.postRun = row.postRun /\ row.postRun # Nobody => Holds(o, epic, row'.postRun)
      BY <1>0 DEF Holds, Call, EarlySteps
    <3>3. Holds(g, epic, row'.postRun) BY <1>0 DEF Holds, Call, EarlySteps
    <3>4. \/ /\ caller' = [caller EXCEPT ![c] = r]
             /\ row.postRun = Nobody /\ row'.postRun = caller[c].epic
          \/ /\ caller' = [caller EXCEPT ![c] = o]
             /\ row'.postRun = row.postRun /\ row.postRun # Nobody
          \/ caller' = [caller EXCEPT ![c] = g]
      BY <1>5 DEF ClaimPostRunEpic, Goto, GiveUpMove, TypeOK, Row
    <3>5. row.postRun # Nobody => row'.postRun # Nobody BY <2>2
    <3>. HIDE DEF r, o, g
    <3>. QED BY <3>1, <3>2, <3>3, <3>4, <3>5, HoldsKept
  <2>4. \A t \in Tickets : ticket[t].parent \in {"run", row'.postRun}
    BY <2>2, NobodyAssumption DEF OneEpic, EpicPlaces, TypeOK, Child
  <2>. QED BY <1>0, <2>1, <2>2, <2>3, <2>4 DEF OneEpic, EpicPlaces
<1>. QED BY <1>1, <1>2, <1>3, <1>4, <1>5

\* The children's tickets.
LEMMA TicketsEpic ==
  ASSUME TypeOK, OneEpic, NEW c \in Callers
  PROVE  /\ MovesDone(c) => OneEpic'
         /\ \A t \in Tickets : MoveFollowUp(c, t) \/ Examine(c, t) \/ CancelTicket(c, t) => OneEpic'
<1>0. /\ caller[c] \in Call /\ Holds(caller[c], epic, row.postRun)
      /\ epic \subseteq {token} /\ row.postRun \in epic \cup {Nobody}
  BY DEF TypeOK, OneEpic, EpicPlaces
<1>1. ASSUME MovesDone(c) PROVE OneEpic'
  <2>1. Goto(c, "sweep") \/ GotoDirty(c, "sweep") BY <1>1 DEF MovesDone
  <2>2. "sweep" \notin EarlySteps BY DEF EarlySteps
  <2>. QED BY <1>1, <2>1, <2>2, GoKeepsEpic DEF MovesDone, Steps
<1>2. ASSUME NEW t \in Tickets, MoveFollowUp(c, t) PROVE OneEpic'
  <2>1. caller[c].epic = row.postRun BY <1>0, <1>2 DEF MoveFollowUp, At, Holds
  <2>2. ticket' = ticket \/ ticket' = [ticket EXCEPT ![t] = Moved(c, t)]
    BY <1>2 DEF MoveFollowUp
  <2>3. \A u \in Tickets : ticket'[u].parent \in {"run", row.postRun}
    BY <2>1, <2>2 DEF Moved, OneEpic, EpicPlaces, TypeOK
  <2>4. \A d \in Callers : Holds(caller'[d], epic, row.postRun)
    <3>. DEFINE r == [caller[c] EXCEPT !.moving = @ \ {t}]
                g == [caller[c] EXCEPT !.moving = @ \ {t}, !.dirty = TRUE]
    <3>1. Holds(r, epic, row.postRun) /\ Holds(g, epic, row.postRun)
      BY <1>0, <1>2 DEF Holds, Call, MoveFollowUp, At
    <3>2. caller' = [caller EXCEPT ![c] = r] \/ caller' = [caller EXCEPT ![c] = g]
      BY <1>2 DEF MoveFollowUp, TypeOK
    <3>. HIDE DEF r, g
    <3>. QED BY <3>1, <3>2, HoldsKept
  <2>. QED BY <1>0, <1>2, <2>3, <2>4 DEF MoveFollowUp, OneEpic, EpicPlaces
<1>3. ASSUME NEW t \in Tickets, Examine(c, t) PROVE OneEpic'
  <2>. DEFINE r == [caller[c] EXCEPT !.sweep = @ \ {t}]
              g == [caller[c] EXCEPT !.sweep = @ \ {t}, !.dirty = TRUE]
              o == [caller[c] EXCEPT !.sweep = @ \ {t}, !.todo = @ \cup ({t} \ record)]
  <2>1. /\ Holds(r, epic, row.postRun) /\ Holds(g, epic, row.postRun)
        /\ Holds(o, epic, row.postRun)
    BY <1>0, <1>3 DEF Holds, Call
  <2>2. \/ caller' = [caller EXCEPT ![c] = r] \/ caller' = [caller EXCEPT ![c] = g]
        \/ caller' = [caller EXCEPT ![c] = o]
    BY <1>3 DEF Examine, TypeOK
  <2>. HIDE DEF r, g, o
  <2>3. row'.postRun = row.postRun /\ UNCHANGED <<ticket, token, epic>> BY <1>3 DEF Examine
  <2>. QED BY <2>1, <2>2, <2>3, CallKeepsEpic
<1>4. ASSUME NEW t \in Tickets, CancelTicket(c, t) PROVE OneEpic'
  <2>1. \A u \in Tickets : ticket'[u].parent = ticket[u].parent
    BY <1>4 DEF CancelTicket, TypeOK, Child
  <2>2. \A d \in Callers : Holds(caller'[d], epic, row.postRun)
    <3>. DEFINE r == [caller[c] EXCEPT !.todo = @ \ {t}]
                g == [caller[c] EXCEPT !.todo = @ \ {t}, !.dirty = TRUE]
    <3>1. Holds(r, epic, row.postRun) /\ Holds(g, epic, row.postRun) BY <1>0 DEF Holds, Call
    <3>2. caller' = [caller EXCEPT ![c] = r] \/ caller' = [caller EXCEPT ![c] = g]
      BY <1>4 DEF CancelTicket, TypeOK
    <3>. HIDE DEF r, g
    <3>. QED BY <3>1, <3>2, HoldsKept
  <2>. QED BY <1>0, <1>4, <2>1, <2>2 DEF CancelTicket, OneEpic, EpicPlaces
<1>. QED BY <1>1, <1>2, <1>3, <1>4

\* Nobody else touches an epic.
LEMMA WorldEpic ==
  ASSUME TypeOK, OneEpic
  PROVE  /\ \A t \in Tickets : Agent(t) \/ RetryRelease(t) \/ RetryReady(t) => OneEpic'
         /\ Expire => OneEpic'
<1>1. ASSUME NEW t \in Tickets, Agent(t) \/ RetryRelease(t) \/ RetryReady(t) PROVE OneEpic'
  <2>1. \A u \in Tickets : ticket'[u].parent = ticket[u].parent
    BY <1>1 DEF Agent, Start, Claim, Report, Done, RetryRelease, RetryReady, TypeOK, Child
  <2>2. UNCHANGED others
    BY <1>1 DEF Agent, Start, Claim, Report, Done, RetryRelease, RetryReady, others
  <2>. QED BY <2>1, <2>2 DEF others, OneEpic, EpicPlaces
<1>2. ASSUME Expire PROVE OneEpic'
  <2>1. row'.postRun = row.postRun BY <1>2 DEF Expire, TypeOK, Row
  <2>. QED BY <1>2, <2>1 DEF Expire, OneEpic, EpicPlaces
<1>. QED BY <1>1, <1>2

\* Types and OneEpic are inductive together: a create takes a fresh id only while there
\* is no epic at all.
LEMMA EpicInductive ==
  /\ Init => TypeOK /\ OneEpic
  /\ TypeOK /\ OneEpic /\ [Next]_vars => TypeOK' /\ OneEpic'
<1>1. ASSUME Init PROVE TypeOK /\ OneEpic
  <2>1. Idle \in Call BY DEF Idle, Call, Steps
  <2>2. row \in Row /\ ticket \in [Tickets -> Child]
    BY <1>1 DEF Init, Row, Child, Statuses, Closed
  <2>3. caller \in [Callers -> Call] /\ mishaps \in 0 .. MaxMishaps
    BY <1>1, <2>1, BoundAssumption DEF Init
  <2>6. TypeOK BY <1>1, <2>2, <2>3 DEF Init, TypeOK
  <2>4. Holds(Idle, {}, Nobody) BY DEF Holds, Idle, EarlySteps
  <2>5. OneEpic BY <1>1, <2>4 DEF Init, OneEpic, EpicPlaces
  <2>. QED BY <2>5, <2>6
<1>2. ASSUME TypeOK, OneEpic, NEW c \in Callers, Read(c) \/ CallStep(c) \/ Die(c)
      PROVE  TypeOK' /\ OneEpic'
  <2>1. epic \subseteq {token} BY <1>2 DEF OneEpic, EpicPlaces
  <2>2. ASSUME NEW t \in Tickets, MoveFollowUp(c, t) PROVE caller[c].epic # Nobody
    BY <1>2, <2>2 DEF MoveFollowUp, At, OneEpic, Holds
  <2>3. SweepDone(c) => TypeOK' /\ OneEpic'
    BY <1>2, OuterEpic, SweepDoneTypes
  <2>4. Read(c) \/ Commit(c) \/ ClaimCloseoutLease(c) => TypeOK' /\ OneEpic'
    BY <1>2, EntryTypes, OuterEpic
  <2>5. List(c) \/ ChooseFollowUps(c) \/ FindPostRunEpic(c) => TypeOK' /\ OneEpic'
    BY <1>2, <2>1, FollowUpTypes, FollowUpEpic, OuterEpic
  <2>6. CreatePostRunEpic(c) \/ ClaimPostRunEpic(c) \/ MovesDone(c) => TypeOK' /\ OneEpic'
    BY <1>2, <2>1, FollowUpTypes, FollowUpEpic, TicketsEpic
  <2>7. CloseEpic(c) \/ PublishCancelled(c) \/ ReleaseCloseoutLease(c) \/ Die(c)
          => TypeOK' /\ OneEpic'
    BY <1>2, EndTypes, OuterEpic
  <2>8. ASSUME NEW t \in Tickets,
               \/ ReadFollowUpRecord(c, t) \/ MoveFollowUp(c, t)
               \/ Examine(c, t) \/ CancelTicket(c, t)
        PROVE  TypeOK' /\ OneEpic'
    BY <1>2, <2>1, <2>2, <2>8, FollowUpTypes, FollowUpEpic, SweepTypes, TicketsEpic
  <2>. QED BY <1>2, <2>3, <2>4, <2>5, <2>6, <2>7, <2>8 DEF CallStep
<1>3. ASSUME TypeOK, OneEpic, UNCHANGED vars PROVE TypeOK' /\ OneEpic'
  BY <1>3 DEF vars, work, TypeOK, OneEpic, EpicPlaces
<1>. QED BY <1>1, <1>2, <1>3, WorldTypes, WorldEpic DEF Next

\* Every variable stays in its domain.
THEOREM TypeCorrect == Spec => []TypeOK
BY EpicInductive, PTL DEF Spec

\* ensurePostRunEpic creates at most one epic, and what has left the run is under the one
\* the row names: for any number of calls, each of which may find, create or lose one.
THEOREM OneEpicCorrect == Spec => []OnePostRunEpic
<1>1. OneEpic => OnePostRunEpic
  <2>. SUFFICES ASSUME OneEpic PROVE OnePostRunEpic OBVIOUS
  <2>1. IsFiniteSet({token}) /\ Cardinality({token}) = 1 BY FS_Singleton
  <2>2. IsFiniteSet(epic) /\ Cardinality(epic) <= 1
    BY <2>1, FS_Subset DEF OneEpic, EpicPlaces
  <2>. QED BY <2>2 DEF OnePostRunEpic, OneEpic, EpicPlaces
<1>. QED BY <1>1, EpicInductive, PTL DEF Spec

-------------------------------------------------------------------------------
(* The marker, and the sessions that a resumed close-out spares *)

SettledOnes == {t \in Tickets : Settled(t)}
EpicClosed == runEpic = "cancelled"

\* What a call knows of the event.
Tells(call, told) ==
  call.pc # "idle" =>
    /\ call.event \in {"none", "sent"} => told
    /\ call.event = "unsent" => call.dirty
    /\ call.pc = "release" => call.event # "owed"

\* Every child is settled, still before a call, or left open and the call dirty.
Accounts(call, settled, closed) ==
  /\ call.pc \in {"records", "sweep"} \cup FollowUpSteps =>
       \A t \in Tickets : call.seen[t] \in Closed \cup {"gone"} => t \in settled
  /\ call.pc \in {"sweep"} \cup FollowUpSteps /\ ~call.dirty =>
       \A t \in Tickets : t \in call.sweep \cup call.moving \cup call.todo \cup settled
  /\ call.pc = "sweep" => call.moving = {}
  /\ call.pc \in {"epic", "publish", "release"} /\ ~call.dirty => settled = Tickets
  /\ call.pc \in {"publish", "release"} /\ ~call.dirty => closed

\* A resumed call knows every live claim, and cancels no child at work.
Spares(call, lives, cancelled) ==
  /\ call.resume => cancelled /\ lives \subseteq call.live
  /\ call.pc \in FollowUpSteps => call.todo = {}
  /\ call.pc = "sweep" =>
       \A t \in call.todo : ~(call.seen[t] = "in_progress" /\ t \in call.live)

Sound(call, told, closed, settled, lives, cancelled) ==
  Tells(call, told) /\ Accounts(call, settled, closed) /\ Spares(call, lives, cancelled)

RowHonest == CloseoutHonest /\ (row.cancelled /\ ~row.owed => sent)

Honest ==
  /\ RowHonest
  /\ \A c \in Callers :
       Sound(caller[c], sent, EpicClosed, SettledOnes, live, row.cancelled)

\* What no step undoes.
Lasting ==
  /\ sent => sent'
  /\ EpicClosed => EpicClosed'
  /\ SettledOnes \subseteq SettledOnes'
  /\ row.cancelled => row'.cancelled /\ live' \subseteq live

\* What a call knows stays true.
LEMMA SoundStays ==
  ASSUME NEW call, NEW told, NEW closed, NEW settled \in SUBSET Tickets, NEW lives,
         NEW cancelled, NEW told2, NEW closed2, NEW settled2 \in SUBSET Tickets, NEW lives2,
         NEW cancelled2, told => told2, closed => closed2, settled \subseteq settled2,
         cancelled => cancelled2 /\ lives2 \subseteq lives,
         Sound(call, told, closed, settled, lives, cancelled)
  PROVE  Sound(call, told2, closed2, settled2, lives2, cancelled2)
<1>1. Tells(call, told2) BY DEF Sound, Tells
<1>2. Accounts(call, settled2, closed2) BY DEF Sound, Accounts
<1>3. Spares(call, lives2, cancelled2) BY DEF Sound, Spares
<1>. QED BY <1>1, <1>2, <1>3 DEF Sound

\* No step undoes an event, a closed epic, a settled child or a cancellation, and on a
\* cancelled run no claim begins.
LEMMA NothingUndone == TypeOK /\ OneEpic /\ [Next]_vars => Lasting
<1>. SUFFICES ASSUME TypeOK, OneEpic, [Next]_vars PROVE Lasting OBVIOUS
<1>. DEFINE Kept == /\ sent => sent'
                    /\ EpicClosed => EpicClosed'
                    /\ row.cancelled => row'.cancelled
            Same == UNCHANGED <<ticket, work>>
<1>1. ASSUME NEW c \in Callers, Read(c) \/ Commit(c) \/ ClaimCloseoutLease(c) \/ List(c)
      PROVE  Kept /\ Same
  BY <1>1 DEF Read, Commit, ClaimCloseoutLease, List, EpicClosed, PerhapsWritten, Cancelled,
              Leased, TypeOK, Row, work
<1>2. ASSUME NEW c \in Callers, \/ ChooseFollowUps(c) \/ FindPostRunEpic(c)
                               \/ CreatePostRunEpic(c) \/ ClaimPostRunEpic(c) \/ MovesDone(c)
      PROVE  Kept /\ Same
  BY <1>2 DEF ChooseFollowUps, FindPostRunEpic, CreatePostRunEpic, ClaimPostRunEpic,
              MovesDone, EpicClosed, PerhapsWritten, TypeOK, Row, work
<1>3. ASSUME NEW c \in Callers, \/ SweepDone(c) \/ CloseEpic(c) \/ PublishCancelled(c)
                               \/ ReleaseCloseoutLease(c) \/ Die(c)
      PROVE  Kept /\ Same
  BY <1>3 DEF SweepDone, CloseEpic, PublishCancelled, ReleaseCloseoutLease, Die, EpicClosed,
              PerhapsWritten, Released, TypeOK, Row, work
<1>4. ASSUME NEW c \in Callers, NEW t \in Tickets, ReadFollowUpRecord(c, t) \/ Examine(c, t)
      PROVE  Kept /\ Same
  BY <1>4 DEF ReadFollowUpRecord, Examine, EpicClosed, work
<1>5. Expire => Kept /\ Same BY DEF Expire, EpicClosed, TypeOK, Row, work
<1>6. ASSUME Kept, Same PROVE Lasting
  BY <1>6 DEF Lasting, SettledOnes, Settled, work
<1>7. ASSUME NEW c \in Callers, NEW t \in Tickets, MoveFollowUp(c, t) PROVE Lasting
  <2>1. caller[c].epic \in Epics
    BY <1>7 DEF MoveFollowUp, At, OneEpic, Holds, TypeOK, Call
  <2>2. \A u \in Tickets : ticket'[u] = ticket[u] \/ ticket'[u].parent # "run"
    BY <1>7, <2>1, EpicsAssumption DEF MoveFollowUp, Moved, TypeOK
  <2>3. UNCHANGED <<record, reset, live, row, runEpic, sent>> BY <1>7 DEF MoveFollowUp, work
  <2>4. \A u \in Tickets : Settled(u) => Settled(u)' BY <2>2, <2>3 DEF Settled
  <2>. QED BY <2>3, <2>4 DEF Lasting, SettledOnes, EpicClosed
<1>8. ASSUME NEW c \in Callers, NEW t \in Tickets, CancelTicket(c, t) PROVE Lasting
  <2>1. \A u \in Tickets : \/ ticket'[u] = ticket[u]
                          \/ /\ ticket'[u].parent = ticket[u].parent
                             /\ ticket'[u].status \in Closed
    BY <1>8 DEF CancelTicket, TypeOK, Child, Closed
  <2>2. UNCHANGED <<record, reset, live, row, runEpic, sent>> BY <1>8 DEF CancelTicket, work
  <2>3. \A u \in Tickets : Settled(u) => Settled(u)' BY <2>1, <2>2 DEF Settled
  <2>. QED BY <2>2, <2>3 DEF Lasting, SettledOnes, EpicClosed
<1>9. ASSUME NEW t \in Tickets, Agent(t) \/ RetryRelease(t) \/ RetryReady(t) PROVE Lasting
  <2>1. UNCHANGED <<row, runEpic, sent>>
    BY <1>9 DEF Agent, Start, Claim, Report, Done, RetryRelease, RetryReady, others
  <2>2. row.cancelled => live' \subseteq live
    BY <1>9 DEF Agent, Start, Claim, Report, Done, RetryRelease, RetryReady, work
  <2>3. /\ record \subseteq record' /\ reset \subseteq reset'
        /\ \A u \in Tickets : \/ ticket'[u] = ticket[u] \/ u \in reset'
                             \/ /\ ticket[u].status \notin Closed
                                /\ ticket'[u].parent = ticket[u].parent
    BY <1>9 DEF Agent, Start, Claim, Report, Done, RetryRelease, RetryReady, work, TypeOK,
                Child, Closed
  <2>4. \A u \in Tickets : Settled(u) => Settled(u)' BY <2>3 DEF Settled
  <2>. QED BY <2>1, <2>2, <2>4 DEF Lasting, SettledOnes, EpicClosed
<1>10. CASE UNCHANGED vars BY <1>10 DEF vars, work, Lasting, SettledOnes, Settled, EpicClosed
<1>. HIDE DEF Kept, Same
<1>11. ASSUME NEW c \in Callers, CallStep(c) PROVE Lasting
  BY <1>11, <1>1, <1>2, <1>3, <1>4, <1>6, <1>7, <1>8 DEF CallStep
<1>. QED BY <1>1, <1>3, <1>5, <1>6, <1>9, <1>10, <1>11 DEF Next

\* What a call knows after its step, and what the others knew before it.
LEMMA CallersSound ==
  ASSUME TypeOK, Honest, Lasting, NEW c \in Callers, NEW r, caller' = [caller EXCEPT ![c] = r],
         Sound(r, sent', EpicClosed', SettledOnes', live', row'.cancelled), RowHonest'
  PROVE  Honest'
<1>1. SettledOnes \in SUBSET Tickets /\ SettledOnes' \in SUBSET Tickets BY DEF SettledOnes
<1>2. ASSUME NEW d \in Callers
      PROVE  Sound(caller'[d], sent', EpicClosed', SettledOnes', live', row'.cancelled)
  <2>1. CASE d = c BY <2>1 DEF TypeOK
  <2>2. CASE d # c
    <3>1. caller'[d] = caller[d] BY <2>2 DEF TypeOK
    <3>2. Sound(caller[d], sent, EpicClosed, SettledOnes, live, row.cancelled) BY DEF Honest
    <3>. QED BY <1>1, <3>1, <3>2, SoundStays DEF Lasting
  <2>. QED BY <2>1, <2>2
<1>. QED BY <1>2 DEF Honest

\* The row goes on telling the truth as long as its markers stay.
LEMMA RowKept ==
  ASSUME TypeOK, Honest, Lasting, row'.cancelled = row.cancelled, row'.pending = row.pending,
         row'.owed = row.owed
  PROVE  RowHonest'
<1>1. EpicClosed => EpicClosed' BY DEF Lasting
<1>2. (\A t \in Tickets : Settled(t)) => \A t \in Tickets : Settled(t)'
  BY DEF Lasting, SettledOnes
<1>. QED BY <1>1, <1>2 DEF Honest, RowHonest, CloseoutHonest, Lasting, EpicClosed

\* A step that neither touches a marker nor rests on what it changes itself.
LEMMA QuietStep ==
  ASSUME TypeOK, Honest, Lasting, NEW c \in Callers, NEW r, caller' = [caller EXCEPT ![c] = r],
         Sound(r, sent, EpicClosed, SettledOnes, live, row.cancelled),
         row'.cancelled = row.cancelled, row'.pending = row.pending, row'.owed = row.owed
  PROVE  Honest'
<1>1. SettledOnes \in SUBSET Tickets /\ SettledOnes' \in SUBSET Tickets BY DEF SettledOnes
<1>2. Sound(r, sent', EpicClosed', SettledOnes', live', row'.cancelled)
  BY <1>1, SoundStays DEF Lasting
<1>. QED BY <1>2, RowKept, CallersSound

\* A call that is not at work knows nothing that could be wrong.
LEMMA IdleSound ==
  ASSUME NEW told, NEW closed, NEW settled, NEW lives, NEW cancelled
  PROVE  Sound(Idle, told, closed, settled, lives, cancelled)
BY DEF Sound, Tells, Accounts, Spares, Idle, FollowUpSteps

\* The decision and the lease.
LEMMA EntryHonest ==
  ASSUME TypeOK, Honest, Lasting, NEW c \in Callers
  PROVE  Read(c) \/ Commit(c) \/ ClaimCloseoutLease(c) \/ Die(c) => Honest'
<1>0. caller[c] \in Call /\ Sound(caller[c], sent, EpicClosed, SettledOnes, live, row.cancelled)
  BY DEF TypeOK, Honest
<1>1. ASSUME Read(c) PROVE Honest'
  <2>. DEFINE r == [Idle EXCEPT !.pc = IF row.cancelled THEN "lease" ELSE "commit",
                        !.resume = row.cancelled, !.live = live, !.epic = row.postRun,
                        !.event = IF row.cancelled /\ ~row.owed THEN "none" ELSE "owed"]
  <2>1. caller' = [caller EXCEPT ![c] = r] /\ row' = row BY <1>1 DEF Read
  <2>2. row.cancelled /\ ~row.owed => sent BY DEF Honest, RowHonest
  <2>3. Sound(r, sent, EpicClosed, SettledOnes, live, row.cancelled)
    BY <2>2 DEF Sound, Tells, Accounts, Spares, Idle, FollowUpSteps, TypeOK, Row
  <2>. HIDE DEF r
  <2>. QED BY <2>1, <2>3, QuietStep
<1>2. ASSUME Commit(c) PROVE Honest'
  <2>. DEFINE g == [caller[c] EXCEPT !.pc = "lease"]
  <2>1. Sound(g, sent, EpicClosed, SettledOnes, live, row.cancelled)
    BY <1>0, <1>2 DEF Commit, At, Sound, Tells, Accounts, Spares, FollowUpSteps, Call
  <2>2. caller' = [caller EXCEPT ![c] = g] \/ caller' = [caller EXCEPT ![c] = Idle]
    BY <1>2 DEF Commit, Goto, Leave, TypeOK
  <2>3. \/ row' = row
        \/ row'.cancelled /\ row'.pending /\ row'.owed
    BY <1>2 DEF Commit, PerhapsWritten, Cancelled, TypeOK, Row
  <2>. HIDE DEF g
  <2>4. RowHonest' BY <2>3, RowKept DEF RowHonest, CloseoutHonest
  <2>5. SettledOnes \in SUBSET Tickets /\ SettledOnes' \in SUBSET Tickets BY DEF SettledOnes
  <2>6. Sound(g, sent', EpicClosed', SettledOnes', live', row'.cancelled)
    BY <2>1, <2>5, SoundStays DEF Lasting
  <2>7. Sound(Idle, sent', EpicClosed', SettledOnes', live', row'.cancelled) BY IdleSound
  <2>. QED BY <2>2, <2>4, <2>6, <2>7, CallersSound
<1>3. ASSUME ClaimCloseoutLease(c) PROVE Honest'
  <2>. DEFINE g == [caller[c] EXCEPT !.pc = "list"]
  <2>1. Sound(g, sent, EpicClosed, SettledOnes, live, row.cancelled)
    BY <1>0, <1>3 DEF ClaimCloseoutLease, At, Sound, Tells, Accounts, Spares, FollowUpSteps, Call
  <2>2. caller' = [caller EXCEPT ![c] = g] \/ caller' = [caller EXCEPT ![c] = Idle]
    BY <1>3 DEF ClaimCloseoutLease, Goto, Leave, TypeOK
  <2>3. row'.cancelled = row.cancelled /\ row'.pending = row.pending /\ row'.owed = row.owed
    BY <1>3 DEF ClaimCloseoutLease, PerhapsWritten, Leased, TypeOK, Row
  <2>. HIDE DEF g
  <2>4. Sound(Idle, sent, EpicClosed, SettledOnes, live, row.cancelled) BY IdleSound
  <2>. QED BY <2>1, <2>2, <2>3, <2>4, QuietStep
<1>4. ASSUME Die(c) PROVE Honest'
  BY <1>4, IdleSound, QuietStep DEF Die, Leave
<1>. QED BY <1>1, <1>2, <1>3, <1>4

\* The listing and the follow-ups to move.
LEMMA ListHonest ==
  ASSUME TypeOK, Honest, Lasting, NEW c \in Callers
  PROVE  /\ List(c) \/ ChooseFollowUps(c) => Honest'
         /\ \A t \in Tickets : ReadFollowUpRecord(c, t) => Honest'
<1>0. caller[c] \in Call /\ Sound(caller[c], sent, EpicClosed, SettledOnes, live, row.cancelled)
  BY DEF TypeOK, Honest
<1>1. ASSUME List(c) PROVE Honest'
  <2>. DEFINE r == [caller[c] EXCEPT !.pc = "records", !.seen = Listing,
                                     !.todo = CdBlocked(Listing)]
              g == [caller[c] EXCEPT !.pc = "publish", !.dirty = TRUE]
  <2>1. \A t \in Tickets : Listing[t] \in Closed \cup {"gone"} => t \in SettledOnes
    BY DEF Listing, SettledOnes, Settled, TypeOK, Child, Statuses, Closed
  <2>2. caller[c].pc = "list" BY <1>1 DEF List, At
  <2>3. Sound(r, sent, EpicClosed, SettledOnes, live, row.cancelled)
    BY <1>0, <2>1, <2>2 DEF Sound, Tells, Accounts, Spares, FollowUpSteps, Call
  <2>4. Sound(g, sent, EpicClosed, SettledOnes, live, row.cancelled)
    BY <1>0, <2>2 DEF Sound, Tells, Accounts, Spares, FollowUpSteps, Call
  <2>5. caller' = [caller EXCEPT ![c] = r] \/ caller' = [caller EXCEPT ![c] = g]
    BY <1>1 DEF List, GotoDirty, TypeOK
  <2>6. row' = row BY <1>1 DEF List
  <2>. HIDE DEF r, g
  <2>. QED BY <2>3, <2>4, <2>5, <2>6, QuietStep
<1>2. ASSUME ChooseFollowUps(c) PROVE Honest'
  <2>. DEFINE r == [caller[c] EXCEPT !.pc = AfterRecords(c),
                        !.sweep = Listed(caller[c].seen) \ caller[c].moving]
  <2>1. caller[c].pc = "records" /\ caller[c].todo = {} BY <1>2 DEF ChooseFollowUps, At
  <2>2. /\ AfterRecords(c) \in {"sweep"} \cup FollowUpSteps
        /\ AfterRecords(c) = "sweep" => caller[c].moving = {}
    BY DEF AfterRecords, FollowUpSteps
  <2>3. \A t \in Tickets : t \in Listed(caller[c].seen) \/ t \in SettledOnes
    BY <1>0, <2>1 DEF Listed, Sound, Accounts
  <2>4. /\ r.pc = AfterRecords(c) /\ r.sweep = Listed(caller[c].seen) \ caller[c].moving
        /\ r.moving = caller[c].moving /\ r.todo = {} /\ r.seen = caller[c].seen
        /\ r.event = caller[c].event /\ r.dirty = caller[c].dirty
        /\ r.resume = caller[c].resume /\ r.live = caller[c].live
    BY <1>0, <2>1 DEF Call
  <2>5. caller' = [caller EXCEPT ![c] = r] /\ row' = row BY <1>2 DEF ChooseFollowUps, TypeOK
  <2>. HIDE DEF r
  <2>6. Tells(r, sent) BY <1>0, <2>1, <2>2, <2>4 DEF Sound, Tells, FollowUpSteps
  <2>7. Accounts(r, SettledOnes, EpicClosed)
    BY <1>0, <2>1, <2>2, <2>3, <2>4 DEF Sound, Accounts, FollowUpSteps
  <2>8. Spares(r, live, row.cancelled) BY <1>0, <2>1, <2>4 DEF Sound, Spares
  <2>. QED BY <2>5, <2>6, <2>7, <2>8, QuietStep DEF Sound
<1>3. ASSUME NEW t \in Tickets, ReadFollowUpRecord(c, t) PROVE Honest'
  <2>. DEFINE r == [caller[c] EXCEPT !.todo = @ \ {t}, !.moving = @ \cup ({t} \ record)]
              g == [caller[c] EXCEPT !.todo = @ \ {t}]
  <2>1. caller[c].pc = "records" BY <1>3 DEF ReadFollowUpRecord, At
  <2>2. /\ Sound(r, sent, EpicClosed, SettledOnes, live, row.cancelled)
        /\ Sound(g, sent, EpicClosed, SettledOnes, live, row.cancelled)
    BY <1>0, <2>1 DEF Sound, Tells, Accounts, Spares, FollowUpSteps, Call
  <2>3. caller' = [caller EXCEPT ![c] = r] \/ caller' = [caller EXCEPT ![c] = g]
    BY <1>3 DEF ReadFollowUpRecord, TypeOK
  <2>4. row' = row BY <1>3 DEF ReadFollowUpRecord
  <2>. HIDE DEF r, g
  <2>. QED BY <2>2, <2>3, <2>4, QuietStep
<1>. QED BY <1>1, <1>2, <1>3

\* A call that gives up its move sweeps, and is dirty.
LEMMA GiveUpHonest ==
  ASSUME TypeOK, Honest, Lasting, NEW c \in Callers, caller[c].pc \in FollowUpSteps,
         GiveUpMove(c), row'.cancelled = row.cancelled, row'.pending = row.pending,
         row'.owed = row.owed
  PROVE  Honest'
<1>. DEFINE r == [caller[c] EXCEPT !.pc = "sweep", !.moving = {}, !.dirty = TRUE]
<1>0. caller[c] \in Call /\ Sound(caller[c], sent, EpicClosed, SettledOnes, live, row.cancelled)
  BY DEF TypeOK, Honest
<1>1. Sound(r, sent, EpicClosed, SettledOnes, live, row.cancelled)
  BY <1>0 DEF Sound, Tells, Accounts, Spares, FollowUpSteps, Call
<1>2. caller' = [caller EXCEPT ![c] = r] BY DEF GiveUpMove, TypeOK
<1>. HIDE DEF r
<1>. QED BY <1>1, <1>2, QuietStep

\* From one step with the follow-ups to the next: nothing is lost on the way.
LEMMA FollowUpStays ==
  ASSUME NEW call \in Call, NEW pc \in FollowUpSteps, NEW e, call.pc \in FollowUpSteps,
         NEW told, NEW closed, NEW settled, NEW lives, NEW cancelled,
         Sound(call, told, closed, settled, lives, cancelled)
  PROVE  Sound([call EXCEPT !.pc = pc, !.epic = e], told, closed, settled, lives, cancelled)
BY DEF Sound, Tells, Accounts, Spares, FollowUpSteps, Call

\* The epic for the follow-ups: found, created or claimed.
LEMMA EpicHonest ==
  ASSUME TypeOK, OneEpic, Honest, Lasting, NEW c \in Callers
  PROVE  FindPostRunEpic(c) \/ CreatePostRunEpic(c) \/ ClaimPostRunEpic(c) => Honest'
<1>. SUFFICES ASSUME FindPostRunEpic(c) \/ CreatePostRunEpic(c) \/ ClaimPostRunEpic(c)
              PROVE  Honest'
  OBVIOUS
<1>0. caller[c] \in Call /\ Sound(caller[c], sent, EpicClosed, SettledOnes, live, row.cancelled)
  BY DEF TypeOK, Honest
<1>1. caller[c].pc \in FollowUpSteps
  BY DEF FindPostRunEpic, CreatePostRunEpic, ClaimPostRunEpic, At, FollowUpSteps
<1>2. row'.cancelled = row.cancelled /\ row'.pending = row.pending /\ row'.owed = row.owed
  BY DEF FindPostRunEpic, CreatePostRunEpic, ClaimPostRunEpic, PerhapsWritten, TypeOK, Row
<1>3. ASSUME NEW pc \in FollowUpSteps, NEW e,
             caller' = [caller EXCEPT ![c] = [caller[c] EXCEPT !.pc = pc, !.epic = e]]
      PROVE  Honest'
  <2>1. Sound([caller[c] EXCEPT !.pc = pc, !.epic = e], sent, EpicClosed, SettledOnes, live,
              row.cancelled)
    BY <1>0, <1>1, FollowUpStays
  <2>. QED BY <1>2, <1>3, <2>1, QuietStep
<1>4. CASE GiveUpMove(c) BY <1>1, <1>2, <1>4, GiveUpHonest
<1>5. ASSUME ~GiveUpMove(c)
      PROVE  \E pc \in FollowUpSteps, e \in Epics \cup {Nobody} :
               caller' = [caller EXCEPT ![c] = [caller[c] EXCEPT !.pc = pc, !.epic = e]]
  <2>1. CASE FindPostRunEpic(c)
    <3>1. CASE Goto(c, "create")
      <4>1. caller' = [caller EXCEPT ![c] = [caller[c] EXCEPT !.pc = "create",
                                                             !.epic = caller[c].epic]]
        BY <1>0, <3>1 DEF Goto, TypeOK, Call
      <4>. QED BY <1>0, <4>1 DEF FollowUpSteps, Call
    <3>2. CASE \E e \in epic : caller' = [caller EXCEPT ![c].pc = "claim", ![c].epic = e]
      <4>1. PICK e \in epic : caller' = [caller EXCEPT ![c].pc = "claim", ![c].epic = e]
        BY <3>2
      <4>2. caller' = [caller EXCEPT ![c] = [caller[c] EXCEPT !.pc = "claim", !.epic = e]]
        BY <4>1 DEF TypeOK
      <4>3. e \in Epics BY DEF TypeOK
      <4>. QED BY <4>2, <4>3 DEF FollowUpSteps
    <3>. QED BY <1>5, <2>1, <3>1, <3>2 DEF FindPostRunEpic
  <2>2. CASE CreatePostRunEpic(c)
    <3>1. caller' = [caller EXCEPT ![c].pc = "claim", ![c].epic = Minted] /\ token' = Minted
      BY <1>5, <2>2 DEF CreatePostRunEpic
    <3>2. caller' = [caller EXCEPT ![c] = [caller[c] EXCEPT !.pc = "claim", !.epic = Minted]]
      BY <3>1 DEF TypeOK
    <3>3. Minted \in Epics BY MintedType DEF OneEpic, EpicPlaces
    <3>. QED BY <3>2, <3>3 DEF FollowUpSteps
  <2>3. CASE ClaimPostRunEpic(c)
    <3>1. CASE Goto(c, "move")
      <4>1. caller' = [caller EXCEPT ![c] = [caller[c] EXCEPT !.pc = "move",
                                                             !.epic = caller[c].epic]]
        BY <1>0, <3>1 DEF Goto, TypeOK, Call
      <4>. QED BY <1>0, <4>1 DEF FollowUpSteps, Call
    <3>2. CASE caller' = [caller EXCEPT ![c].pc = "move", ![c].epic = row.postRun]
      <4>1. caller' = [caller EXCEPT ![c] = [caller[c] EXCEPT !.pc = "move",
                                                             !.epic = row.postRun]]
        BY <3>2 DEF TypeOK
      <4>. QED BY <4>1 DEF FollowUpSteps, TypeOK, Row
    <3>. QED BY <1>5, <2>3, <3>1, <3>2 DEF ClaimPostRunEpic
  <2>. QED BY <2>1, <2>2, <2>3
<1>. QED BY <1>3, <1>4, <1>5

\* The writes to the children: one that succeeds settles its child, any other is dirty.
LEMMA MoveHonest ==
  ASSUME TypeOK, OneEpic, Honest, Lasting, NEW c \in Callers
  PROVE  /\ MovesDone(c) => Honest'
         /\ \A t \in Tickets : MoveFollowUp(c, t) => Honest'
<1>0. caller[c] \in Call /\ Sound(caller[c], sent, EpicClosed, SettledOnes, live, row.cancelled)
  BY DEF TypeOK, Honest
<1>1. ASSUME MovesDone(c) PROVE Honest'
  <2>. DEFINE r == [caller[c] EXCEPT !.pc = "sweep"]
              g == [caller[c] EXCEPT !.pc = "sweep", !.dirty = TRUE]
  <2>1. caller[c].pc = "move" /\ caller[c].moving = {} BY <1>1 DEF MovesDone, At
  <2>2. /\ Sound(r, sent, EpicClosed, SettledOnes, live, row.cancelled)
        /\ Sound(g, sent, EpicClosed, SettledOnes, live, row.cancelled)
    BY <1>0, <2>1 DEF Sound, Tells, Accounts, Spares, FollowUpSteps, Call
  <2>3. caller' = [caller EXCEPT ![c] = r] \/ caller' = [caller EXCEPT ![c] = g]
    BY <1>1 DEF MovesDone, Goto, GotoDirty, TypeOK
  <2>4. row' = row BY <1>1 DEF MovesDone
  <2>. HIDE DEF r, g
  <2>. QED BY <2>2, <2>3, <2>4, QuietStep
<1>2. ASSUME NEW t \in Tickets, MoveFollowUp(c, t) PROVE Honest'
  <2>. DEFINE r == [caller[c] EXCEPT !.moving = @ \ {t}]
              g == [caller[c] EXCEPT !.moving = @ \ {t}, !.dirty = TRUE]
  <2>1. caller[c].pc = "move" /\ t \in caller[c].moving BY <1>2 DEF MoveFollowUp, At
  <2>2. UNCHANGED <<sent, row, runEpic, live>> BY <1>2 DEF MoveFollowUp, work
  <2>3. Sound(g, sent, EpicClosed, SettledOnes, live, row.cancelled)
    BY <1>0, <2>1 DEF Sound, Tells, Accounts, Spares, FollowUpSteps, Call
  <2>4. CASE caller' = [caller EXCEPT ![c] = g]
    <3>. HIDE DEF g
    <3>. QED BY <2>2, <2>3, <2>4, QuietStep
  <2>5. CASE caller' = [caller EXCEPT ![c] = r] /\ ticket' = [ticket EXCEPT ![t] = Moved(c, t)]
    <3>1. caller[c].epic \in Epics BY <1>0, <2>1 DEF OneEpic, Holds, Call
    <3>2. t \in SettledOnes' BY <2>5, <3>1, EpicsAssumption DEF SettledOnes, Settled, Moved, TypeOK
    <3>3. SettledOnes \subseteq SettledOnes' BY DEF Lasting
    <3>4. Sound(r, sent, EpicClosed, SettledOnes', live, row.cancelled)
      BY <1>0, <2>1, <3>2, <3>3 DEF Sound, Tells, Accounts, Spares, FollowUpSteps, Call
    <3>. HIDE DEF r
    <3>5. RowHonest' BY <2>2, RowKept
    <3>. QED BY <2>2, <2>5, <3>4, <3>5, CallersSound DEF EpicClosed
  <2>6. \/ caller' = [caller EXCEPT ![c] = g]
        \/ caller' = [caller EXCEPT ![c] = r] /\ ticket' = [ticket EXCEPT ![t] = Moved(c, t)]
    BY <1>2 DEF MoveFollowUp, TypeOK
  <2>. QED BY <2>4, <2>5, <2>6
<1>. QED BY <1>1, <1>2

\* The sweep: a child is examined or cancelled.
LEMMA SweepHonest ==
  ASSUME TypeOK, Honest, Lasting, NEW c \in Callers, NEW t \in Tickets
  PROVE  Examine(c, t) \/ CancelTicket(c, t) => Honest'
<1>0. caller[c] \in Call /\ Sound(caller[c], sent, EpicClosed, SettledOnes, live, row.cancelled)
  BY DEF TypeOK, Honest
<1>1. ASSUME Examine(c, t) PROVE Honest'
  <2>. DEFINE r == [caller[c] EXCEPT !.sweep = @ \ {t}]
              g == [caller[c] EXCEPT !.sweep = @ \ {t}, !.dirty = TRUE]
              o == [caller[c] EXCEPT !.sweep = @ \ {t}, !.todo = @ \cup ({t} \ record)]
  <2>1. caller[c].pc = "sweep" BY <1>1 DEF Examine, At
  <2>2. row' = row BY <1>1 DEF Examine
  <2>3. Sound(g, sent, EpicClosed, SettledOnes, live, row.cancelled)
    BY <1>0, <2>1 DEF Sound, Tells, Accounts, Spares, FollowUpSteps, Call
  <2>4. ASSUME caller[c].seen[t] \in Closed
        PROVE  Sound(r, sent, EpicClosed, SettledOnes, live, row.cancelled)
    <3>1. t \in SettledOnes BY <1>0, <2>1, <2>4 DEF Sound, Accounts
    <3>. QED BY <1>0, <2>1, <3>1 DEF Sound, Tells, Accounts, Spares, FollowUpSteps, Call
  <2>5. ASSUME ~AtWork(c, t)
        PROVE  Sound(o, sent, EpicClosed, SettledOnes, live, row.cancelled)
    <3>1. t \in record => t \in SettledOnes BY DEF SettledOnes, Settled
    <3>2. Tells(o, sent) BY <1>0, <2>1 DEF Sound, Tells, Call
    <3>3. Accounts(o, SettledOnes, EpicClosed)
      BY <1>0, <2>1, <3>1 DEF Sound, Accounts, FollowUpSteps, Call
    <3>4. Spares(o, live, row.cancelled)
      BY <1>0, <2>1, <2>5 DEF Sound, Spares, FollowUpSteps, Call, AtWork
    <3>. QED BY <3>2, <3>3, <3>4 DEF Sound
  <2>6. \/ caller' = [caller EXCEPT ![c] = r] /\ caller[c].seen[t] \in Closed
        \/ caller' = [caller EXCEPT ![c] = g]
        \/ caller' = [caller EXCEPT ![c] = o] /\ ~AtWork(c, t)
    <3>1. /\ [caller EXCEPT ![c].sweep = @ \ {t}] = [caller EXCEPT ![c] = r]
          /\ [[caller EXCEPT ![c].sweep = @ \ {t}] EXCEPT ![c].dirty = TRUE]
               = [caller EXCEPT ![c] = g]
          /\ [[caller EXCEPT ![c].sweep = @ \ {t}] EXCEPT ![c].todo = @ \cup ({t} \ record)]
               = [caller EXCEPT ![c] = o]
      BY <1>0 DEF TypeOK
    <3>. HIDE DEF r, g, o
    <3>. QED BY <1>1, <3>1 DEF Examine
  <2>. HIDE DEF r, g, o
  <2>. QED BY <2>2, <2>3, <2>4, <2>5, <2>6, QuietStep
<1>2. ASSUME CancelTicket(c, t) PROVE Honest'
  <2>. DEFINE r == [caller[c] EXCEPT !.todo = @ \ {t}]
              g == [caller[c] EXCEPT !.todo = @ \ {t}, !.dirty = TRUE]
              hit == [ticket EXCEPT ![t].status = "cancelled"]
  <2>1. caller[c].pc = "sweep" BY <1>2 DEF CancelTicket, At
  <2>2. UNCHANGED <<sent, row, runEpic, live>> BY <1>2 DEF CancelTicket, work
  <2>3. Sound(g, sent, EpicClosed, SettledOnes, live, row.cancelled)
    BY <1>0, <2>1 DEF Sound, Tells, Accounts, Spares, FollowUpSteps, Call
  <2>4. CASE caller' = [caller EXCEPT ![c] = g]
    <3>. HIDE DEF g
    <3>. QED BY <2>2, <2>3, <2>4, QuietStep
  <2>5. CASE caller' = [caller EXCEPT ![c] = r] /\ ticket' = hit
    <3>1. t \in SettledOnes' BY <2>5 DEF SettledOnes, Settled, Closed, TypeOK, Child
    <3>2. SettledOnes \subseteq SettledOnes' BY DEF Lasting
    <3>3. Sound(r, sent, EpicClosed, SettledOnes', live, row.cancelled)
      BY <1>0, <2>1, <3>1, <3>2 DEF Sound, Tells, Accounts, Spares, FollowUpSteps, Call
    <3>. HIDE DEF r
    <3>4. RowHonest' BY <2>2, RowKept
    <3>. QED BY <2>2, <2>5, <3>3, <3>4, CallersSound DEF EpicClosed
  <2>6. \/ caller' = [caller EXCEPT ![c] = g]
        \/ caller' = [caller EXCEPT ![c] = r] /\ ticket' = hit
    BY <1>2 DEF CancelTicket, TypeOK
  <2>. QED BY <2>4, <2>5, <2>6
<1>. QED BY <1>1, <1>2

\* What follows the sweep, up to the event.
LEMMA CloseHonest ==
  ASSUME TypeOK, Honest, Lasting, NEW c \in Callers
  PROVE  SweepDone(c) \/ CloseEpic(c) \/ PublishCancelled(c) => Honest'
<1>0. caller[c] \in Call /\ Sound(caller[c], sent, EpicClosed, SettledOnes, live, row.cancelled)
  BY DEF TypeOK, Honest
<1>1. ASSUME SweepDone(c) PROVE Honest'
  <2>. DEFINE r == [Idle EXCEPT !.pc = IF caller[c].dirty THEN "publish" ELSE "epic",
                        !.dirty = caller[c].dirty, !.event = caller[c].event]
  <2>1. caller[c].pc = "sweep" /\ caller[c].sweep = {} /\ caller[c].todo = {}
    BY <1>1 DEF SweepDone, At
  <2>2. ~caller[c].dirty => SettledOnes = Tickets
    <3>1. SettledOnes \subseteq Tickets BY DEF SettledOnes
    <3>. QED BY <1>0, <2>1, <3>1 DEF Sound, Accounts
  <2>3. Sound(r, sent, EpicClosed, SettledOnes, live, row.cancelled)
    BY <1>0, <2>1, <2>2 DEF Sound, Tells, Accounts, Spares, FollowUpSteps, Idle, Call
  <2>4. caller' = [caller EXCEPT ![c] = r] /\ row' = row BY <1>1 DEF SweepDone
  <2>. HIDE DEF r
  <2>. QED BY <2>3, <2>4, QuietStep
<1>2. ASSUME CloseEpic(c) PROVE Honest'
  <2>. DEFINE r == [caller[c] EXCEPT !.pc = "publish"]
              g == [caller[c] EXCEPT !.pc = "publish", !.dirty = TRUE]
  <2>1. caller[c].pc = "epic" BY <1>2 DEF CloseEpic, At
  <2>2. UNCHANGED <<sent, row, ticket, work>> BY <1>2 DEF CloseEpic
  <2>3. Sound(g, sent, EpicClosed, SettledOnes, live, row.cancelled)
    BY <1>0, <2>1 DEF Sound, Tells, Accounts, Spares, FollowUpSteps, Call
  <2>4. Sound(r, sent, TRUE, SettledOnes, live, row.cancelled)
    BY <1>0, <2>1 DEF Sound, Tells, Accounts, Spares, FollowUpSteps, Call
  <2>5. \/ caller' = [caller EXCEPT ![c] = g]
        \/ caller' = [caller EXCEPT ![c] = r] /\ EpicClosed'
    BY <1>2 DEF CloseEpic, Goto, GotoDirty, EpicClosed, TypeOK
  <2>6. SettledOnes' = SettledOnes BY <2>2 DEF SettledOnes, Settled, work
  <2>7. RowHonest' BY <2>2, RowKept
  <2>. HIDE DEF r, g
  <2>. QED BY <2>2, <2>3, <2>4, <2>5, <2>6, <2>7, QuietStep, CallersSound DEF work
<1>3. ASSUME PublishCancelled(c) PROVE Honest'
  <2>. DEFINE r == [caller[c] EXCEPT !.pc = "release"]
              s == [caller[c] EXCEPT !.pc = "release", !.event = "sent"]
              g == [caller[c] EXCEPT !.pc = "release", !.event = "unsent", !.dirty = TRUE]
  <2>1. caller[c].pc = "publish" BY <1>3 DEF PublishCancelled, At
  <2>2. UNCHANGED <<runEpic, row, ticket, work>> BY <1>3 DEF PublishCancelled
  <2>3. caller[c].event = "none" => Sound(r, sent, EpicClosed, SettledOnes, live, row.cancelled)
    BY <1>0, <2>1 DEF Sound, Tells, Accounts, Spares, FollowUpSteps, Call
  <2>4. Sound(g, sent, EpicClosed, SettledOnes, live, row.cancelled)
    BY <1>0, <2>1 DEF Sound, Tells, Accounts, Spares, FollowUpSteps, Call
  <2>5. Sound(s, TRUE, EpicClosed, SettledOnes, live, row.cancelled)
    BY <1>0, <2>1 DEF Sound, Tells, Accounts, Spares, FollowUpSteps, Call
  <2>6. \/ caller' = [caller EXCEPT ![c] = r] /\ caller[c].event = "none"
        \/ caller' = [caller EXCEPT ![c] = g]
        \/ caller' = [caller EXCEPT ![c] = s] /\ sent' = TRUE
    BY <1>3 DEF PublishCancelled, Goto, TypeOK
  <2>7. SettledOnes' = SettledOnes BY <2>2 DEF SettledOnes, Settled, work
  <2>8. RowHonest' BY <2>2, RowKept
  <2>. HIDE DEF r, s, g
  <2>. QED BY <2>2, <2>3, <2>4, <2>5, <2>6, <2>7, <2>8, QuietStep, CallersSound
           DEF work, EpicClosed
<1>. QED BY <1>1, <1>2, <1>3

\* A marker goes only from a call that knows its half of it to be true.
LEMMA ReleaseHonest ==
  ASSUME TypeOK, Honest, Lasting, NEW c \in Callers, ReleaseCloseoutLease(c)
  PROVE  Honest'
<1>0. caller[c] \in Call /\ Sound(caller[c], sent, EpicClosed, SettledOnes, live, row.cancelled)
  BY DEF TypeOK, Honest
<1>1. caller[c].pc = "release" BY DEF ReleaseCloseoutLease, At
<1>2. /\ row' = row \/ row' = Released(c)
      /\ UNCHANGED <<sent, runEpic, ticket, work>>
  BY DEF ReleaseCloseoutLease, PerhapsWritten
<1>3. ~caller[c].dirty => sent /\ EpicClosed /\ SettledOnes = Tickets
  BY <1>0, <1>1 DEF Sound, Tells, Accounts, Call
<1>4. caller[c].event = "sent" => sent BY <1>0, <1>1 DEF Sound, Tells
<1>5. \/ row' = row
      \/ /\ row'.cancelled = row.cancelled
         /\ row'.pending = (row.pending /\ caller[c].dirty)
         /\ row'.owed = (row.owed /\ caller[c].event # "sent")
  BY <1>2 DEF Released, TypeOK, Row
<1>6. RowHonest'
  <2>1. CloseoutHonest' /\ (row'.cancelled /\ ~row'.owed => sent')
    <3>1. row.cancelled /\ ~row.pending =>
            sent /\ runEpic = "cancelled" /\ \A t \in Tickets : Settled(t)
      BY DEF Honest, RowHonest, CloseoutHonest
    <3>2. row.cancelled /\ ~row.owed => sent BY DEF Honest, RowHonest
    <3>3. SettledOnes = Tickets => \A t \in Tickets : Settled(t) BY DEF SettledOnes
    <3>4. row'.cancelled /\ ~row'.pending => row.cancelled /\ (~row.pending \/ ~caller[c].dirty)
      BY <1>5 DEF TypeOK, Row
    <3>5. row'.cancelled /\ ~row'.owed => row.cancelled /\ (~row.owed \/ caller[c].event = "sent")
      BY <1>5 DEF TypeOK, Row
    <3>6. row'.cancelled /\ ~row'.pending =>
            sent /\ runEpic = "cancelled" /\ \A t \in Tickets : Settled(t)
      BY <1>3, <3>1, <3>3, <3>4 DEF EpicClosed
    <3>7. (\A t \in Tickets : Settled(t)) => \A t \in Tickets : Settled(t)'
      BY <1>2 DEF Settled, work
    <3>8. row'.cancelled /\ ~row'.owed => sent BY <1>4, <3>2, <3>5
    <3>. QED BY <1>2, <3>6, <3>7, <3>8 DEF CloseoutHonest
  <2>. QED BY <2>1 DEF RowHonest
<1>7. caller' = [caller EXCEPT ![c] = Idle] BY DEF ReleaseCloseoutLease, Leave
<1>. QED BY <1>6, <1>7, IdleSound, CallersSound

\* Agents, the retry route and the clock leave calls and markers alone.
LEMMA WorldHonest ==
  ASSUME TypeOK, Honest, Lasting, caller' = caller, row'.cancelled = row.cancelled,
         row'.pending = row.pending, row'.owed = row.owed
  PROVE  Honest'
<1>1. SettledOnes \in SUBSET Tickets /\ SettledOnes' \in SUBSET Tickets BY DEF SettledOnes
<1>2. ASSUME NEW d \in Callers
      PROVE  Sound(caller'[d], sent', EpicClosed', SettledOnes', live', row'.cancelled)
  <2>1. Sound(caller[d], sent, EpicClosed, SettledOnes, live, row.cancelled) BY DEF Honest
  <2>2. Sound(caller[d], sent', EpicClosed', SettledOnes', live', row'.cancelled)
    BY <1>1, <2>1, SoundStays DEF Lasting
  <2>. QED BY <2>2
<1>. QED BY <1>2, RowKept DEF Honest

\* The marker's invariant, with that of the epic.
LEMMA HonestInductive ==
  /\ Init => Honest
  /\ TypeOK /\ OneEpic /\ Honest /\ [Next]_vars => Honest'
<1>1. ASSUME Init PROVE Honest
  <2>1. ~row.cancelled BY <1>1 DEF Init
  <2>2. \A c \in Callers : caller[c] = Idle BY <1>1 DEF Init
  <2>3. RowHonest BY <2>1 DEF RowHonest, CloseoutHonest
  <2>. QED BY <2>2, <2>3, IdleSound DEF Honest
<1>2. ASSUME TypeOK, OneEpic, Honest, [Next]_vars PROVE Honest'
  <2>0. Lasting BY <1>2, NothingUndone
  <2>1. ASSUME NEW c \in Callers, Read(c) \/ CallStep(c) \/ Die(c) PROVE Honest'
    <3>1. ASSUME NEW t \in Tickets,
                 \/ ReadFollowUpRecord(c, t) \/ MoveFollowUp(c, t)
                 \/ Examine(c, t) \/ CancelTicket(c, t)
          PROVE  Honest'
      BY <1>2, <2>0, <3>1, ListHonest, MoveHonest, SweepHonest
    <3>2. Read(c) \/ Commit(c) \/ ClaimCloseoutLease(c) \/ Die(c) => Honest'
      BY <1>2, <2>0, EntryHonest
    <3>3. List(c) \/ ChooseFollowUps(c) \/ MovesDone(c) => Honest'
      BY <1>2, <2>0, ListHonest, MoveHonest
    <3>4. FindPostRunEpic(c) \/ CreatePostRunEpic(c) \/ ClaimPostRunEpic(c) => Honest'
      BY <1>2, <2>0, EpicHonest
    <3>5. SweepDone(c) \/ CloseEpic(c) \/ PublishCancelled(c) => Honest'
      BY <1>2, <2>0, CloseHonest
    <3>6. ReleaseCloseoutLease(c) => Honest' BY <1>2, <2>0, ReleaseHonest
    <3>. QED BY <2>1, <3>1, <3>2, <3>3, <3>4, <3>5, <3>6 DEF CallStep
  <2>2. ASSUME NEW t \in Tickets, Agent(t) \/ RetryRelease(t) \/ RetryReady(t) PROVE Honest'
    <3>1. UNCHANGED <<row, caller>>
      BY <2>2 DEF Agent, Start, Claim, Report, Done, RetryRelease, RetryReady, others
    <3>. QED BY <1>2, <2>0, <3>1, WorldHonest
  <2>3. ASSUME Expire PROVE Honest'
    <3>1. /\ caller' = caller /\ row'.cancelled = row.cancelled
          /\ row'.pending = row.pending /\ row'.owed = row.owed
      BY <1>2, <2>3 DEF Expire, TypeOK, Row
    <3>. QED BY <1>2, <2>0, <3>1, WorldHonest
  <2>4. CASE UNCHANGED vars BY <1>2, <2>0, <2>4, WorldHonest DEF vars
  <2>. QED BY <1>2, <2>1, <2>2, <2>3, <2>4 DEF Next
<1>. QED BY <1>1, <1>2

\* Once the close-out of a cancelled run is no longer pending, the event is out, the epic is
\* closed and every child is settled.
THEOREM MarkerCorrect == Spec => []CloseoutHonest
<1>1. Honest => CloseoutHonest BY DEF Honest, RowHonest
<1>. QED BY <1>1, EpicInductive, HonestInductive, PTL DEF Spec

\* A resumed close-out cancels no child under a live session: the claims it read cover all
\* there can still be, and its write is conditional on the status it has listed.
THEOREM SessionsSpared == Spec => ResumeSparesSessions
<1>. DEFINE Spared == \A c \in Callers, t \in Tickets :
                        CancelTicket(c, t) /\ ticket'[t] # ticket[t] /\ caller[c].resume
                          => ~(ticket[t].status = "in_progress" /\ t \in live)
<1>1. TypeOK /\ Honest => Spared
  <2>. SUFFICES ASSUME TypeOK, Honest, NEW c \in Callers, NEW t \in Tickets,
                       CancelTicket(c, t), ticket'[t] # ticket[t], caller[c].resume
                PROVE  ~(ticket[t].status = "in_progress" /\ t \in live)
    OBVIOUS
  <2>1. caller[c].pc = "sweep" /\ t \in caller[c].todo BY DEF CancelTicket, At
  <2>2. Spares(caller[c], live, row.cancelled) BY DEF Honest, Sound
  <2>3. live \subseteq caller[c].live BY <2>2 DEF Spares
  <2>4. ~(caller[c].seen[t] = "in_progress" /\ t \in caller[c].live)
    BY <2>1, <2>2 DEF Spares
  <2>5. Unmoved(c, t) BY DEF CancelTicket
  <2>. QED BY <2>3, <2>4, <2>5 DEF Unmoved
<1>2. TypeOK /\ Honest => [Spared]_vars BY <1>1
<1>. QED BY <1>2, EpicInductive, HonestInductive, PTL DEF Spec, ResumeSparesSessions
=============================================================================
