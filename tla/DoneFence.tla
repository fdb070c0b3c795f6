------------------------------- MODULE DoneFence -------------------------------
(***************************************************************************)
(* How a ticket whose work is reported comes to Done when the ticket        *)
(* provider is Jira.  Three hands close it: the agent's report_completion,   *)
(* the probe that drains the queue of writes a report could not make, and   *)
(* a person or an agent who calls the ticket tool.  All of them go through  *)
(* the provider's Lambda, the twin, which judges the completion record,     *)
(* fences it with a Done-intent and only then commits the transition.  The  *)
(* record is one S3 object; its ETag is a hash of its content, so a         *)
(* conditional write succeeds exactly on the content its writer last read.  *)
(***************************************************************************)
EXTENDS Integers

CONSTANTS Gated,       \* the kinds of ticket considered: TRUE is a ship-phase ticket
          Budgets      \* bound: how many calls of report_completion, moves of a person and
                       \* faults (outages, lost answers, dying Lambdas) a behaviour has

ASSUME FenceAssumption ==
    Gated \subseteq BOOLEAN /\ Budgets \subseteq [reports : Nat, moves : Nat, faults : Nat]

VARIABLES rec,      \* the completion record
          fresh,    \* its Done-intent is younger than DONE_INTENT_TTL_MS
          ticket,   \* "open" or "done"
          gated,    \* the kind of the ticket, which no step changes
          filed,    \* the follow-up the report asks for is on the board
          onGate,   \* the merge brief is on its Merge Approval gate
          queued,   \* the report's message is in the replay queue
          twin,     \* the twin's invocation for each caller
          drain,    \* the probe's drain of the message
          report,   \* the call of report_completion
          left      \* reports, moves and faults still to come

vars == <<rec, fresh, ticket, gated, filed, onGate, queued, twin, drain, report, left>>

Callers == {"person", "drain", "report"}
Attempts == 3      \* DONE_INTENT_FENCE_ATTEMPTS and RECORD_CAS_ATTEMPTS
Nonces == 1..6     \* one for each place a Done-intent can be read or kept
NoIntent == 0

\* brief: "held" is briefPending:true, "gate" briefPending:false with the brief on the
\* gate, "off" a brief posted elsewhere on a ticket that is Done, "unset" no word of it.
Record == [body : {"none", "reserved", "report"}, brief : {"unset", "held", "gate", "off"},
           follow : BOOLEAN, intent : {NoIntent} \cup Nonces,
           writes : {"none", "queued", "applied", "dropped"}]
NoRecord == [body |-> "none", brief |-> "unset", follow |-> FALSE, intent |-> NoIntent, writes |-> "none"]

\* crossed: another hand has fenced or closed the ticket while this Done was in flight.
TwinState == [pc : {"idle", "judge", "again", "fence", "commit", "clear", "answered"}, seen : Record,
              tries : 0..(Attempts - 1), crossed : BOOLEAN,
              answer : {"none", "ok", "hold", "no", "down", "refused"}]
IdleTwin == [pc |-> "idle", seen |-> NoRecord, tries |-> 0, crossed |-> FALSE, answer |-> "none"]

\* others: the record holds follow-ups unfiled that the message does not carry.
DrainState == [pc : {"idle", "read", "deliver", "stamp", "confirm", "move", "applied", "drop"},
               seen : Record, done : BOOLEAN, brief : {"none", "gate", "off"}, unfiled : BOOLEAN,
               others : BOOLEAN]
IdleDrain == [pc |-> "idle", seen |-> NoRecord, done |-> FALSE, brief |-> "none", unfiled |-> FALSE,
              others |-> FALSE]

\* brief is what the call is to write about the brief, delivered that it put the brief on
\* its gate itself, down that a follow-up failed on an outage, refused that the twin
\* refused Done on the hold.
ReportState == [pc : {"idle", "deliver", "write", "move", "rewrite", "enqueue", "stamp"}, base : Record,
                brief : {"unset", "held", "gate"}, delivered : BOOLEAN, follow : BOOLEAN,
                down : BOOLEAN, refused : BOOLEAN, tries : 0..(Attempts - 1)]
IdleReport == [pc |-> "idle", base |-> NoRecord, brief |-> "unset", delivered |-> FALSE, follow |-> FALSE,
               down |-> FALSE, refused |-> FALSE, tries |-> 0]

\* The record and what a write may change with it.
CAS(seen, new, isFresh) == rec = seen /\ rec' = new /\ fresh' = isFresh

Faulty == left.faults > 0 /\ left' = [left EXCEPT !.faults = @ - 1]
Moving == left.moves > 0 /\ left' = [left EXCEPT !.moves = @ - 1]

(***************************************************************************)
(* The judge of the guard and of the fence.                                 *)
(***************************************************************************)
\* A ship-phase ticket needs its record, with nothing pending; any other ticket is only
\* refused on a brief hold, and a reservation is no record.
Admits(r) == /\ r.brief # "held"
             /\ gated => (r.body = "report" /\ ~r.follow)

\* isBriefHoldRefusal knows a brief hold by the text, which names follow-ups first.
Refusal(r) == IF r.brief = "held" /\ (gated => ~r.follow) THEN "hold" ELSE "no"

(***************************************************************************)
(* The twin: Tickets___transition_ticket to Done.                           *)
(***************************************************************************)
\* The request reads the ticket before the guard does: Done asked for again, or not.
Call(c) == twin[c].pc = "idle" /\ twin' = [twin EXCEPT ![c].pc = IF ticket = "done" THEN "again" ELSE "judge"]

Answer(c, a) == [IdleTwin EXCEPT !.pc = IF c = "person" THEN "idle" ELSE "answered",
                                 !.answer = IF c = "person" THEN "none" ELSE a]

\* The guard.  A Done the ticket has, and still has after the guard, is acknowledged: no
\* fence and no transition.
Judge(c) ==
    /\ twin[c].pc \in {"judge", "again"}
    /\ twin' = [twin EXCEPT ![c] =
           CASE ~Admits(rec) -> Answer(c, Refusal(rec))
             [] Admits(rec) /\ twin[c].pc = "again" /\ ticket = "done" -> Answer(c, "ok")
             [] OTHER -> [twin[c] EXCEPT !.pc = "fence", !.seen = rec, !.tries = 0]]
    /\ UNCHANGED <<rec, fresh, ticket, gated, filed, onGate, queued, drain, report, left>>

InFlight == {c \in Callers : twin[c].pc = "commit"}

\* A fence and a close cross every other Done in flight.
Crossing(c, own) == [d \in Callers |-> IF d = c THEN own ELSE [twin[d] EXCEPT !.crossed = @ \/ d \in InFlight]]

Unused == CHOOSE n \in Nonces :
    n \notin {rec.intent, drain.seen.intent, report.base.intent} \cup {twin[c].seen.intent : c \in Callers}

\* The intent is written on the record admitted, or, where there is none, on a reservation.
Fenced(r) == [r EXCEPT !.body = IF @ = "none" THEN "reserved" ELSE @, !.intent = Unused]

\* Done-intents cross when two are in flight, or one starts on a ticket already closed.
Fence(c) ==
    /\ twin[c].pc = "fence"
    /\ CAS(twin[c].seen, Fenced(twin[c].seen), TRUE)
    /\ twin' = Crossing(c, [twin[c] EXCEPT !.pc = "commit", !.seen = rec',
                                           !.crossed = InFlight # {} \/ ticket = "done"])
    /\ UNCHANGED <<ticket, gated, filed, onGate, queued, drain, report, left>>

\* The conditional write lost: the record is read and judged again, three times at most.
FenceLost(c) ==
    /\ twin[c].pc = "fence" /\ rec # twin[c].seen
    /\ twin' = [twin EXCEPT ![c] = CASE ~Admits(rec) -> Answer(c, Refusal(rec))
                                     [] Admits(rec) /\ twin[c].tries + 1 = Attempts -> Answer(c, "no")
                                     [] OTHER -> [twin[c] EXCEPT !.seen = rec, !.tries = @ + 1]]
    /\ UNCHANGED <<rec, fresh, ticket, gated, filed, onGate, queued, drain, report, left>>

Closes(c) == twin[c].pc = "commit" /\ ticket = "open" /\ ticket' = "done"

Commit(c) ==
    /\ Closes(c)
    /\ twin' = Crossing(c, Answer(c, "ok"))
    /\ UNCHANGED <<rec, fresh, gated, filed, onGate, queued, drain, report, left>>

\* The transition was applied and its answer lost.
CommitUnanswered(c) ==
    /\ Closes(c)
    /\ Faulty
    /\ twin' = Crossing(c, [twin[c] EXCEPT !.pc = "clear", !.answer = "down"])
    /\ UNCHANGED <<rec, fresh, gated, filed, onGate, queued, drain, report>>

\* The transition was not applied: the ticket is closed already, Jira is down, or it
\* refuses for good (400, 403, 404 or 422).
CommitFails(c) ==
    /\ twin[c].pc = "commit"
    /\ \E a \in {"no", "down", "refused"} :
          /\ \/ a = "no" /\ ticket = "done" /\ UNCHANGED left
             \/ a # "no" /\ ticket = "open" /\ Faulty
          /\ twin' = [twin EXCEPT ![c] = [twin[c] EXCEPT !.pc = "clear", !.answer = a]]
    /\ UNCHANGED <<rec, fresh, ticket, gated, filed, onGate, queued, drain, report>>

Cleared(r) == [r EXCEPT !.intent = NoIntent]

\* The intent is taken back where the record still is as this twin has fenced it.
ClearIntent(c) ==
    /\ twin[c].pc = "clear"
    /\ \/ CAS(twin[c].seen, Cleared(twin[c].seen), FALSE)
       \/ rec # twin[c].seen /\ UNCHANGED <<rec, fresh>>
    /\ twin' = [twin EXCEPT ![c] = Answer(c, twin[c].answer)]
    /\ UNCHANGED <<ticket, gated, filed, onGate, queued, drain, report, left>>

\* The Lambda times out; the caller reads that as an outage.
TwinDies(c) ==
    /\ twin[c].pc \in {"commit", "clear"}
    /\ Faulty
    /\ twin' = [twin EXCEPT ![c] = Answer(c, "down")]
    /\ UNCHANGED <<rec, fresh, ticket, gated, filed, onGate, queued, drain, report>>

\* The TTL is twenty times the Lambda's time limit: no twin outlives its own intent.
Expire ==
    /\ fresh /\ rec.intent # NoIntent
    /\ \A c \in Callers : twin[c].pc \notin {"commit", "clear"}
    /\ fresh' = FALSE
    /\ UNCHANGED <<rec, ticket, gated, filed, onGate, queued, twin, drain, report, left>>

(***************************************************************************)
(* What the drain and the report share: a hold is not written over a Done   *)
(* in flight, unless the ticket, read now, says that Done has landed.       *)
(***************************************************************************)
\* Mutant: a Done-intent of any age puts the hold off.
DeferredByAnyIntent(seen, holdWritten, openSeen) ==
    holdWritten /\ seen.intent # NoIntent /\ (openSeen \/ ticket = "open")

Deferred(seen, holdWritten, openSeen) ==
    holdWritten /\ seen.intent # NoIntent /\ fresh /\ (openSeen \/ ticket = "open")

Unstale(r) == IF fresh THEN r ELSE Cleared(r)  \* stripStaleDoneIntent

\* Follow-ups are filed, or left unfiled: they are refused, the scan for those that are on
\* the board fails, or a re-submit asks for further ones.
Files(unfiled) == \/ filed' = TRUE /\ ~unfiled /\ UNCHANGED left
                  \/ UNCHANGED filed /\ unfiled /\ Faulty

\* The brief is put on its gate, or somewhere else when the gate cannot be told.
PutsBrief(outcome) == \/ onGate' = TRUE /\ outcome = "gate"
                      \/ ~onGate /\ UNCHANGED onGate /\ outcome = "off"

(***************************************************************************)
(* drainCompletion: one message of the replay queue.                        *)
(***************************************************************************)
Redelivered == drain' = IdleDrain /\ UNCHANGED queued
Deleted == drain' = IdleDrain /\ queued' = FALSE

DrainTake ==
    /\ queued /\ drain.pc = "idle" /\ twin["drain"].pc \in {"idle", "answered"}
    /\ twin' = [twin EXCEPT !["drain"] = IdleTwin]
    /\ IF rec.writes = "applied" /\ rec.brief # "unset" THEN Deleted
       ELSE drain' = [IdleDrain EXCEPT !.pc = "read", !.seen = rec] /\ UNCHANGED queued
    /\ UNCHANGED <<rec, fresh, ticket, gated, filed, onGate, report, left>>

DrainReadTicket ==
    /\ drain.pc = "read"
    /\ drain' = [drain EXCEPT !.pc = "deliver", !.done = ticket = "done"]
    /\ UNCHANGED <<rec, fresh, ticket, gated, filed, onGate, queued, twin, report, left>>

\* A ticket that was Done is read again after the brief was posted.
DrainDeliver ==
    /\ drain.pc = "deliver"
    /\ \E unfiled \in BOOLEAN, others \in {FALSE, drain.seen.follow}, outcome \in {"gate", "off"} :
          /\ Files(unfiled) /\ PutsBrief(outcome)
          /\ drain' = [drain EXCEPT !.pc = "stamp", !.unfiled = unfiled, !.others = others,
                                    !.brief = outcome, !.done = @ /\ ticket = "done"]
    /\ UNCHANGED <<rec, fresh, ticket, gated, queued, twin, report>>

Holding == drain.unfiled \/ (drain.brief = "off" /\ ~drain.done)

BriefAfter(brief) == CASE drain.brief = "gate" -> "gate"
                       [] drain.brief = "off" /\ ~drain.done -> "held"
                       [] drain.brief = "off" /\ drain.done /\ brief = "unset" -> "off"
                       [] OTHER -> brief

\* Mutant: a stamp for the brief forgets what is still unfiled.
StampedForTheBrief(writes) == Unstale([drain.seen EXCEPT !.brief = BriefAfter(@), !.follow = FALSE, !.writes = writes])

Stamped(writes) == Unstale([drain.seen EXCEPT !.brief = BriefAfter(@), !.follow = drain.unfiled \/ drain.others,
                                              !.writes = writes])

\* Mutant: the drop does not look at the Done-intent.
DrainHoldUnfenced ==
    /\ drain.pc = "stamp" /\ Holding
    /\ CAS(drain.seen, Stamped("dropped"), fresh)
    /\ IF drain.done THEN Deleted ELSE drain' = [drain EXCEPT !.pc = "confirm"] /\ UNCHANGED queued
    /\ UNCHANGED <<ticket, gated, filed, onGate, twin, report, left>>

\* The drop: the hold is stamped, which leaves the ticket open.
DrainHold ==
    /\ drain.pc = "stamp" /\ Holding /\ ~Deferred(drain.seen, TRUE, ~drain.done)
    /\ CAS(drain.seen, Stamped("dropped"), fresh)
    /\ IF drain.done THEN Deleted ELSE drain' = [drain EXCEPT !.pc = "confirm"] /\ UNCHANGED queued
    /\ UNCHANGED <<ticket, gated, filed, onGate, twin, report, left>>

\* The ticket, read again: closed meanwhile, and the next tick converges on that.
DrainConfirm ==
    /\ drain.pc = "confirm"
    /\ IF ticket = "done" THEN Redelivered ELSE Deleted
    /\ UNCHANGED <<rec, fresh, ticket, gated, filed, onGate, twin, report, left>>

\* A newer report stamped follow-ups that its own message carries: this one is superseded.
Superseded == drain.others /\ ~drain.done

DrainSuperseded ==
    /\ drain.pc = "stamp" /\ ~Holding /\ Superseded
    /\ Deleted
    /\ UNCHANGED <<rec, fresh, ticket, gated, filed, onGate, twin, report, left>>

DrainRestamp ==
    /\ drain.pc = "stamp" /\ ~Holding /\ ~Superseded
    /\ CAS(drain.seen, Stamped("queued"), fresh)
    /\ drain' = [drain EXCEPT !.pc = IF drain.done THEN "applied" ELSE "move", !.seen = rec']
    /\ UNCHANGED <<ticket, gated, filed, onGate, queued, twin, report, left>>

DrainMove ==
    /\ drain.pc = "move" /\ Call("drain")
    /\ UNCHANGED <<rec, fresh, ticket, gated, filed, onGate, queued, drain, report, left>>

\* transitionToDone: what the twin refused is read on the ticket once more.  A refusal that
\* no retry changes, or on a brief hold, drops the message.
DrainMoved ==
    /\ drain.pc = "move" /\ twin["drain"].pc = "answered"
    /\ twin' = [twin EXCEPT !["drain"] = IdleTwin]
    /\ LET a == twin["drain"].answer IN
       drain' = IF a = "ok" \/ ticket = "done" THEN [drain EXCEPT !.pc = "applied", !.done = a # "ok"]
                ELSE IF a \in {"refused", "hold"} THEN [drain EXCEPT !.pc = "drop"]
                ELSE IdleDrain
    /\ UNCHANGED <<rec, fresh, ticket, gated, filed, onGate, queued, report, left>>

\* The ticket itself is refused for good when it is read, by the drain or by the twin.
DrainRefused ==
    /\ drain.pc \in {"read", "move"} /\ twin["drain"].pc = "idle"
    /\ Faulty
    /\ drain' = [drain EXCEPT !.pc = "drop"]
    /\ UNCHANGED <<rec, fresh, ticket, gated, filed, onGate, queued, twin, report>>

\* The drop without a hold: the ticket is left as it is, and nothing waits for a Done.
DrainDrop ==
    /\ drain.pc = "drop"
    /\ CAS(drain.seen, Unstale([drain.seen EXCEPT !.writes = "dropped"]), fresh)
    /\ Deleted
    /\ UNCHANGED <<ticket, gated, filed, onGate, twin, report, left>>

\* A Done of the drain's own moved the record, so that one is read again first; a stamp
\* that does not land is only logged.  The probe may die before it deletes the message.
DrainApplied ==
    /\ drain.pc = "applied"
    /\ \/ (drain.done => rec = drain.seen) /\ rec' = [rec EXCEPT !.writes = "applied"]
       \/ rec # drain.seen /\ UNCHANGED rec
    /\ \/ Deleted /\ UNCHANGED left
       \/ Redelivered /\ Faulty
    /\ UNCHANGED <<fresh, ticket, gated, filed, onGate, twin, report>>

\* The message comes back: a Done is in flight, the record moved, or the probe died.
DrainRetry ==
    /\ \/ drain.pc = "stamp" /\ Holding /\ Deferred(drain.seen, TRUE, ~drain.done) /\ UNCHANGED left
       \/ drain.pc \in {"stamp", "drop"} /\ rec # drain.seen /\ UNCHANGED left
       \/ drain.pc # "idle" /\ Faulty
    /\ Redelivered
    /\ UNCHANGED <<rec, fresh, ticket, gated, filed, onGate, twin, report>>

(***************************************************************************)
(* report_completion.                                                       *)
(***************************************************************************)
\* A brief that was queued and of which nothing has been recorded is owed like a held one.
Owed(r) == r.brief = "held" \/ (r.writes = "queued" /\ r.brief = "unset")

ReportStart ==
    /\ report.pc = "idle" /\ left.reports > 0 /\ twin["report"].pc \in {"idle", "answered"}
    /\ left' = [left EXCEPT !.reports = @ - 1]
    /\ twin' = [twin EXCEPT !["report"] = IdleTwin]
    /\ report' = [IdleReport EXCEPT !.pc = "deliver", !.base = rec]
    /\ UNCHANGED <<rec, fresh, ticket, gated, filed, onGate, queued, drain>>

\* Follow-ups are filed and a brief that is owed is put on its gate before the record is
\* written; down says that an outage is all that kept them from being filed.
Delivers(unfiled, down, outcome) ==
    /\ Files(unfiled) /\ (down => unfiled)
    /\ IF Owed(report.base) THEN PutsBrief(outcome) ELSE outcome = "off" /\ UNCHANGED onGate
    /\ report' = [report EXCEPT !.pc = "write", !.follow = unfiled, !.down = down,
                     !.delivered = outcome = "gate",
                     !.brief = IF ~Owed(report.base) THEN "unset"
                               ELSE IF outcome = "gate" THEN "gate" ELSE "held"]

ReportDeliver ==
    /\ report.pc = "deliver"
    /\ \E unfiled, down \in BOOLEAN, outcome \in {"gate", "off"} : Delivers(unfiled, down, outcome)
    /\ UNCHANGED <<rec, fresh, ticket, gated, queued, twin, drain>>

\* Mutant: the call's own word on the brief stands, whatever the record says by now.
AdoptNothing(current, force) == IF force THEN "held" ELSE report.brief

\* Mutant: any word of the record on the brief wins, a delivery off the gate too.
AdoptAnything(current, force) == IF current.brief # "unset" THEN current.brief ELSE AdoptNothing(current, force)

\* adoptHold: what the current record states about the brief wins, unless this call has
\* delivered it; a refusal of the Done forces the hold over anything but a delivery.
AdoptHold(current, force) ==
    LET adopted == IF /\ current.brief \in {"held", "gate"}
                      /\ ~report.delivered \/ (force /\ current.brief = "held")
                   THEN current.brief ELSE report.brief
    IN  IF force /\ current.brief # "gate" THEN "held" ELSE adopted

\* The Done-intent is carried over; ticketWrites is only what this call knows of it.
Reported(writes, force) ==
    [body |-> "report", brief |-> AdoptHold(report.base, force), follow |-> report.follow,
     intent |-> report.base.intent, writes |-> writes]

HoldWritten(new) == \/ new.follow /\ ~report.base.follow
                    \/ new.brief = "held" /\ report.base.brief # "held"

Defers(writes, force) == Deferred(report.base, HoldWritten(Reported(writes, force)), FALSE)

\* writeRecord: one conditional write, where a Done in flight does not forbid it.
Writes(writes, force) ==
    IF Defers(writes, force) THEN UNCHANGED <<rec, fresh>>
    ELSE CAS(report.base, Reported(writes, force), fresh)

\* What the first write leads to: the Done, the queue where an outage is in the way, or
\* an answer that asks for a retry.
AfterWrite(new) == IF ~new.follow /\ new.brief # "held" THEN "move"
                   ELSE IF new.follow /\ report.down THEN "enqueue" ELSE "idle"

\* What the call goes on with: every attempt leaves on its report what it has adopted, and
\* the one that wins moves on to the record it has written.
Adopting(force) == [report EXCEPT !.brief = AdoptHold(report.base, force)]

ReportGoes(pc, force, written) ==
    report' = IF pc = "idle" THEN IdleReport
              ELSE [Adopting(force) EXCEPT !.base = IF written THEN rec' ELSE @, !.pc = pc, !.tries = 0]

ReportWrite ==
    /\ report.pc = "write"
    /\ Writes("none", FALSE)
    /\ ReportGoes(IF Defers("none", FALSE) THEN "idle" ELSE AfterWrite(rec'), FALSE, TRUE)
    /\ UNCHANGED <<ticket, gated, filed, onGate, queued, twin, drain, left>>

ReportMove ==
    /\ report.pc = "move" /\ Call("report")
    /\ UNCHANGED <<rec, fresh, ticket, gated, filed, onGate, queued, drain, report, left>>

ReportMoved ==
    /\ report.pc = "move" /\ twin["report"].pc = "answered"
    /\ twin' = [twin EXCEPT !["report"] = IdleTwin]
    /\ LET a == twin["report"].answer IN
       report' = IF a = "ok" \/ ticket = "done" THEN IdleReport
                 ELSE [report EXCEPT !.pc = "rewrite", !.refused = a = "hold", !.down = a = "down"]
    /\ UNCHANGED <<rec, fresh, ticket, gated, filed, onGate, queued, drain, left>>

\* The record's status is rewritten after a refused Done, where that is still possible.
ReportRewrite ==
    /\ report.pc = "rewrite"
    /\ Writes("none", report.refused)
    /\ ReportGoes(IF report.down THEN "enqueue" ELSE "idle", report.refused, ~Defers("none", report.refused))
    /\ UNCHANGED <<ticket, gated, filed, onGate, queued, twin, drain, left>>

\* The same message twice within the dedup window is one message.
ReportEnqueue ==
    /\ report.pc = "enqueue"
    /\ queued' = TRUE
    /\ report' = [report EXCEPT !.pc = "stamp"]
    /\ UNCHANGED <<rec, fresh, ticket, gated, filed, onGate, twin, drain, left>>

ReportStamp ==
    /\ report.pc = "stamp"
    /\ Writes("queued", FALSE)
    /\ report' = IdleReport
    /\ UNCHANGED <<ticket, gated, filed, onGate, queued, twin, drain, left>>

\* The conditional write lost: the record is read again, three times at most.
ReportLost ==
    /\ report.pc \in {"write", "rewrite", "stamp"} /\ rec # report.base
    /\ LET tried == Adopting(report.pc = "rewrite" /\ report.refused) IN
       report' = IF report.tries + 1 < Attempts THEN [tried EXCEPT !.base = rec, !.tries = @ + 1]
                 ELSE IF report.pc = "rewrite" /\ report.down THEN [tried EXCEPT !.pc = "enqueue", !.tries = 0]
                 ELSE IdleReport
    /\ UNCHANGED <<rec, fresh, ticket, gated, filed, onGate, queued, twin, drain, left>>

\* The call dies: the persona, or nobody, calls again.
ReportDies ==
    /\ report.pc # "idle" /\ Faulty
    /\ report' = IdleReport
    /\ UNCHANGED <<rec, fresh, ticket, gated, filed, onGate, queued, twin, drain>>

(***************************************************************************)
(* A person, or an agent with the ticket tool: asks for Done, closes the    *)
(* ticket in Jira itself, or opens it again.                                *)
(***************************************************************************)
PersonCalls ==
    /\ Moving /\ Call("person")
    /\ UNCHANGED <<rec, fresh, ticket, gated, filed, onGate, queued, drain, report>>

PersonCloses ==
    /\ ticket = "open" /\ ticket' = "done"
    /\ Moving
    /\ twin' = Crossing("person", [twin["person"] EXCEPT !.crossed = @ \/ "person" \in InFlight])
    /\ UNCHANGED <<rec, fresh, gated, filed, onGate, queued, drain, report>>

PersonReopens ==
    /\ ticket = "done" /\ ticket' = "open"
    /\ Moving
    /\ UNCHANGED <<rec, fresh, gated, filed, onGate, queued, twin, drain, report>>

(***************************************************************************)
Init == /\ rec = NoRecord /\ fresh = FALSE /\ ticket = "open" /\ gated \in Gated
        /\ filed = FALSE /\ onGate = FALSE /\ queued = FALSE
        /\ twin = [c \in Callers |-> IdleTwin] /\ drain = IdleDrain /\ report = IdleReport
        /\ left \in Budgets

TwinNext(c) == Judge(c) \/ Fence(c) \/ FenceLost(c) \/ Commit(c) \/ CommitUnanswered(c)
                 \/ CommitFails(c) \/ ClearIntent(c) \/ TwinDies(c)

DrainNext == DrainTake \/ DrainReadTicket \/ DrainDeliver \/ DrainHold \/ DrainConfirm
               \/ DrainSuperseded \/ DrainRestamp \/ DrainMove \/ DrainMoved \/ DrainRefused
               \/ DrainDrop \/ DrainApplied \/ DrainRetry

ReportRuns == ReportDeliver \/ ReportWrite \/ ReportMove \/ ReportMoved \/ ReportRewrite
                \/ ReportEnqueue \/ ReportStamp \/ ReportLost \/ ReportDies

ReportNext == ReportStart \/ ReportRuns

PersonNext == PersonCalls \/ PersonCloses \/ PersonReopens

Next == DrainNext \/ ReportNext \/ PersonNext \/ Expire \/ (\E c \in Callers : TwinNext(c))

Spec == Init /\ [][Next]_vars

\* The probe's schedule comes back to the queue; an invocation ends, and so does a TTL.
FairSpec == /\ Spec /\ WF_vars(DrainNext) /\ WF_vars(Expire)
            /\ \A c \in Callers : WF_vars(TwinNext(c))
            /\ WF_vars(ReportRuns)

(***************************************************************************)
(* Properties.                                                              *)
(***************************************************************************)
\* Every variable has its type.
TypeOK ==
    /\ rec \in Record /\ fresh \in BOOLEAN /\ ticket \in {"open", "done"} /\ gated \in BOOLEAN
    /\ filed \in BOOLEAN /\ onGate \in BOOLEAN /\ queued \in BOOLEAN
    /\ twin \in [Callers -> TwinState] /\ drain \in DrainState /\ report \in ReportState
    /\ left \in [reports : Nat, moves : Nat, faults : Nat]

\* A Done the twin commits with no other hand on the ticket never lands over a hold: the
\* fence on the completion record keeps the drain and the report from writing one
\* between the twin's judgement and its commit.
FenceHolds == [][\A c \in Callers : (Closes(c) /\ ~twin[c].crossed) => Admits(rec)]_vars

\* A brief hold leaves the record only when the brief is on its gate: no write built on
\* an older record erases a hold the drain has stamped.
HoldSticks == [][(rec.brief = "held" /\ rec'.brief # "held") => onGate']_vars

\* A record that states no pending follow-ups is one whose follow-ups are on the board,
\* at every instant: whoever reads it may let the ticket go Done.
FollowUpsHonest == (rec.body = "report" /\ ~rec.follow) => filed

\* A message of the replay queue is dealt with in the end: it waits for no Done-intent for
\* ever, and neither a retry nor a drop leaves it in the queue for good.
QueueDrains == queued ~> ~queued

================================================================================
