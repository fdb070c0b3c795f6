--------------------------- MODULE ReviewGateProofs ---------------------------
(***************************************************************************)
(* Proofs about ReviewGate, for any number of handlers, notes, decisions,  *)
(* rounds and mishaps, in every deployment.                                *)
(***************************************************************************)
EXTENDS ReviewGate, FiniteSetTheorems, SequenceTheorems, TLAPS

\* A ledger's escalations and authorizations name rounds it has.
Bounded(l) == l.escalated \cup l.authorized \subseteq 1..Len(l.rounds)

\* An event waits for a decision that has been made; behind a rejection is a note.
KnownEvent(e, decided, note) ==
  /\ e.kind # "none"
  /\ e.kind = "reject" => e.n \in 1..decided /\ note \in Notes

\* A handler is where its event leads, and its copy of the ledger is an earlier one.
Right(r, decided, len) ==
  /\ r.event.kind = "reject" => r.event.n \in 1..decided /\ r.note \in Notes
  /\ r.pc \in RejectingAt \/ r.round > 0 => r.event.kind = "reject"
  /\ r.pc \in {"ackRead", "ackWrite"} => r.event.kind \in {"approve", "reject"}
  /\ r.pc = "approve" => r.event.kind = "approve"
  /\ r.event.kind = "none" => r.event = NoEvent /\ r.pc \in {"idle", "end"} \cup PresentingAt
  /\ r.pc = "idle" => r.event = NoEvent
  /\ r.pc = "authorize" => OpenEscalations(r.wf.ledger) # {}
  /\ r.pc = "escalate" => r.round > 0
  /\ r.round <= len
  /\ Bounded(r.wf.ledger) /\ Len(r.wf.ledger.rounds) <= len

Known ==
  /\ \A i \in DOMAIN inbox : KnownEvent(inbox[i], said, gate.note)
  /\ \A h \in Handlers : Right(handler[h], said, Len(row.ledger.rounds))
  /\ Bounded(row.ledger)

-------------------------------------------------------------------------------
(* The ledger *)

\* A nonempty set of numbers with a bound has a greatest: the one above which the fewest
\* are left.
LEMMA MaxIn ==
  ASSUME NEW n \in Nat, NEW S \in SUBSET (1..n), S # {}
  PROVE  Max(S) \in S
<1>. DEFINE Above(x) == {y \in S : y > x}
            Aboves == {Above(x) : x \in S}
<1>0. \A y \in S : y \in Int OBVIOUS
<1>1. IsFiniteSet(S)
  <2>1. IsFiniteSet(1..n) BY FS_Interval
  <2>. QED BY <2>1, FS_Subset
<1>2. Aboves \subseteq FiniteSubsetsOf(S) /\ Aboves # {}
  <2>1. FiniteSubsetsOf(S) = SUBSET S BY <1>1, FS_FiniteSubsetsOfFinite
  <2>2. \A x \in S : Above(x) \in SUBSET S OBVIOUS
  <2>. HIDE DEF Above
  <2>3. Aboves \in SUBSET SUBSET S /\ Aboves # {} BY <2>2
  <2>. QED BY <2>1, <2>3
<1>3. PICK A \in Aboves : \A B \in Aboves : <<B, A>> \notin StrictSubsetOrdering(S)
  <2>. HIDE DEF Aboves
  <2>1. IsWellFoundedOn(StrictSubsetOrdering(S), FiniteSubsetsOf(S))
    BY FS_StrictSubsetOrderingWellFounded
  <2>. QED BY <1>2, <2>1, WFMin
<1>4. PICK x \in S : A = Above(x) OBVIOUS
<1>5. ASSUME NEW y \in S, ~(x >= y) PROVE FALSE
  <2>1. y \in Int /\ x \in Int /\ y > x BY <1>5
  <2>2. \A z \in S : z > y => z > x BY <1>0, <2>1
  <2>4. /\ \A z \in Above(y) : z \in S /\ z > y
        /\ \A z \in S : z > x => z \in Above(x)
        /\ ~(y > y) /\ y \notin Above(y)
    BY <2>1
  <2>5. Above(y) \subseteq Above(x) /\ y \in Above(x) /\ y \notin Above(y)
    <3>. HIDE DEF Above
    <3>. QED BY <2>1, <2>2, <2>4
  <2>3. <<Above(y), A>> \in StrictSubsetOrdering(S)
    BY <1>4, <2>5 DEF StrictSubsetOrdering
  <2>. QED BY <1>3, <2>3
<1>. QED BY <1>5 DEF Max

\* A record written over an older ledger's is one of the new ledger's rounds.
LEMMA RoundWritten ==
  ASSUME NEW l \in Ledger, NEW seen \in Ledger, NEW note \in Notes, Bounded(l),
         Len(seen.rounds) <= Len(l.rounds)
  PROVE  LET new == WithRound(l, seen, note)
             k == RoundOf(seen, note)
         IN /\ new \in Ledger /\ Bounded(new)
            /\ new.escalated = l.escalated /\ new.authorized = l.authorized
            /\ k \in 1..Len(new.rounds)
            /\ Len(new.rounds) = IF k <= Len(l.rounds) THEN Len(l.rounds) ELSE Len(l.rounds) + 1
<1>. DEFINE k == RoundOf(seen, note)
            r == [note |-> note, regression |-> Regression(seen, note)]
            rounds == IF k <= Len(l.rounds) THEN [l.rounds EXCEPT ![k] = r]
                                            ELSE Append(l.rounds, r)
<1>1. l.rounds \in Seq([note : Notes, regression : BOOLEAN]) /\ seen.rounds \in Seq([note : Notes, regression : BOOLEAN])
      /\ l.escalated \in SUBSET Nat /\ l.authorized \in SUBSET Nat
  BY DEF Ledger
<1>2. k \in 1..(Len(l.rounds) + 1)
  BY <1>1 DEF RoundOf, SameRound
<1>3. r \in [note : Notes, regression : BOOLEAN] BY DEF Regression
<1>. HIDE DEF r, k
<1>4. /\ rounds \in Seq([note : Notes, regression : BOOLEAN])
      /\ Len(rounds) = IF k <= Len(l.rounds) THEN Len(l.rounds) ELSE Len(l.rounds) + 1
  <2>. DEFINE Q == [note : Notes, regression : BOOLEAN]
              q == l.rounds
  <2>1. q \in Seq(Q) /\ r \in Q /\ k \in Nat BY <1>1, <1>2, <1>3
  <2>. HIDE DEF Q, q
  <2>2. Append(q, r) \in Seq(Q) /\ Len(Append(q, r)) = Len(q) + 1 BY <2>1
  <2>3. ASSUME k <= Len(q)
        PROVE  [q EXCEPT ![k] = r] \in Seq(Q) /\ Len([q EXCEPT ![k] = r]) = Len(q)
    <3>1. k \in 1..Len(q) BY <1>2, <2>3 DEF q
    <3>. QED BY <2>1, <3>1, ExceptSeq
  <2>. QED BY <2>2, <2>3 DEF Q, q
<1>5. WithRound(l, seen, note) = [l EXCEPT !.rounds = rounds] BY DEF WithRound, r, k, Ledger
<1>. HIDE DEF rounds
<1>6. WithRound(l, seen, note) = [rounds |-> rounds, escalated |-> l.escalated,
                                  authorized |-> l.authorized]
  BY <1>5 DEF Ledger
<1>. QED BY <1>1, <1>2, <1>4, <1>6 DEF Ledger, Bounded, k

-------------------------------------------------------------------------------
(* Types *)

\* The domains of what is neither the gate's, the row's, the inbox's nor a handler's.
OthersOK ==
  /\ upstream \in {"open", "done"} /\ said \in 0..MaxDecisions /\ posted \in Nat
  /\ reworks \in [1..MaxDecisions -> Nat] /\ newRounds \in Nat /\ setting \in Settings
  /\ heard \in [admitted : SUBSET (1..MaxDecisions),
                dropped : SUBSET [note : Notes \cup {"none"}, parked : BOOLEAN]]
  /\ budget \in [looks : Nat, others : 0..MaxOthers, crashes : Nat, errors : Nat]

\* What is right stays so while decisions and rounds are added.
LEMMA RightGrows ==
  ASSUME NEW x \in Handler, NEW decided \in Nat, NEW len \in Nat, NEW decided2 \in Nat,
         NEW len2 \in Nat, decided <= decided2, len <= len2, Right(x, decided, len)
  PROVE  Right(x, decided2, len2)
<1>1. x.round \in Nat /\ x.wf \in Row /\ x.event \in Event BY DEF Handler
<1>2. Len(x.wf.ledger.rounds) \in Nat /\ x.event.n \in Nat BY <1>1 DEF Row, Ledger, Event
<1>. QED BY <1>1, <1>2 DEF Right

\* One handler moves on, the person has not spoken and no round is lost.
LEMMA HandlerStep ==
  ASSUME TypeOK, Known, NEW h \in Handlers, NEW r \in Handler,
         handler' = [handler EXCEPT ![h] = r], Right(r, said, Len(row'.ledger.rounds)),
         row' \in Row, Bounded(row'.ledger), Len(row.ledger.rounds) <= Len(row'.ledger.rounds),
         gate' \in Gate, gate'.note = gate.note, UNCHANGED <<inbox, said>>, OthersOK'
  PROVE  TypeOK' /\ Known'
<1>1. ASSUME NEW g \in Handlers PROVE Right(handler[g], said, Len(row'.ledger.rounds))
  <2>1. Len(row.ledger.rounds) \in Nat /\ Len(row'.ledger.rounds) \in Nat /\ said \in Nat
    BY DEF TypeOK, Row, Ledger
  <2>2. Right(handler[g], said, Len(row.ledger.rounds)) BY DEF Known
  <2>3. handler[g] \in Handler BY DEF TypeOK
  <2>4. said <= said /\ Len(row.ledger.rounds) <= Len(row'.ledger.rounds) BY <2>1
  <2>5. PICK n \in Nat : n = Len(row'.ledger.rounds) BY <2>1
  <2>6. Right(handler[g], said, n) BY <2>1, <2>2, <2>3, <2>4, <2>5, RightGrows
  <2>. QED BY <2>5, <2>6
<1>2. \A g \in Handlers : Right(handler'[g], said', Len(row'.ledger.rounds))
  BY <1>1 DEF TypeOK
<1>3. Known' BY <1>2 DEF Known
<1>4. TypeOK' BY DEF TypeOK, OthersOK
<1>. QED BY <1>3, <1>4

\* The same, with the ledger as it was.
LEMMA SameLedger ==
  ASSUME TypeOK, Known, NEW h \in Handlers, NEW r \in Handler,
         handler' = [handler EXCEPT ![h] = r], Right(r, said, Len(row.ledger.rounds)),
         row' \in Row, row'.ledger = row.ledger, gate' \in Gate, gate'.note = gate.note,
         UNCHANGED <<inbox, said>>, OthersOK'
  PROVE  TypeOK' /\ Known'
<1>1. Len(row.ledger.rounds) \in Nat BY DEF TypeOK, Row, Ledger
<1>2. /\ Bounded(row'.ledger) /\ Len(row.ledger.rounds) <= Len(row'.ledger.rounds)
      /\ Right(r, said, Len(row'.ledger.rounds))
  BY <1>1 DEF Known
<1>. QED BY <1>2, HandlerStep

\* What a handler record is made of.
LEMMA HandlerParts ==
  ASSUME TypeOK, Known, NEW h \in Handlers
  PROVE  /\ handler[h] \in Handler /\ handler[h].wf \in Row /\ handler[h].fresh \in Row
         /\ handler[h].round \in Nat /\ handler[h].tries \in 0..Attempts
         /\ handler[h].event \in Event /\ handler[h].event.n \in Nat
         /\ Right(handler[h], said, Len(row.ledger.rounds))
         /\ Idle \in Handler /\ NewRow \in Row
         /\ Bounded(NewRow.ledger) /\ Len(NewRow.ledger.rounds) = 0
         /\ row \in Row /\ row.ledger \in Ledger /\ Len(row.ledger.rounds) \in Nat
         /\ gate \in Gate /\ OthersOK
         /\ Right(Idle, said, Len(row.ledger.rounds))
<1>1. Unreviewed \in Ledger BY DEF Unreviewed, Ledger
<1>2. NewRow \in Row BY <1>1 DEF NewRow, Row
<1>3. NoEvent \in Event BY DEF NoEvent, Event
<1>4. Idle \in Handler BY <1>2, <1>3 DEF Idle, Handler, Attempts
<1>5. /\ handler[h] \in Handler /\ handler[h].wf \in Row /\ handler[h].fresh \in Row
      /\ handler[h].round \in Nat /\ handler[h].tries \in 0..Attempts
      /\ handler[h].event \in Event /\ handler[h].event.n \in Nat
  BY DEF TypeOK, Handler, Event
<1>6. Bounded(NewRow.ledger) /\ Len(NewRow.ledger.rounds) = 0
  BY DEF Bounded, NewRow, Unreviewed
<1>7. row \in Row /\ row.ledger \in Ledger /\ Len(row.ledger.rounds) \in Nat
  BY DEF TypeOK, Row, Ledger
<1>8. Right(Idle, said, Len(row.ledger.rounds))
  BY <1>6, <1>7 DEF Right, Idle, NoEvent, PresentingAt, RejectingAt
<1>. QED BY <1>2, <1>4, <1>5, <1>6, <1>7, <1>8 DEF Known, TypeOK, OthersOK

\* A step that changes the handler alone.
LEMMA OwnStep ==
  ASSUME TypeOK, Known, NEW h \in Handlers, NEW r \in Handler,
         handler' = [handler EXCEPT ![h] = r], Right(r, said, Len(row.ledger.rounds)),
         UNCHANGED <<gate, upstream, row, inbox, said, posted, reworks, newRounds, setting>>,
         heard' = heard \/ OthersOK', budget' = budget \/ OthersOK'
  PROVE  TypeOK' /\ Known'
<1>1. row' \in Row /\ gate' \in Gate /\ OthersOK' BY DEF TypeOK, OthersOK
<1>2. Len(row.ledger.rounds) \in Nat BY DEF TypeOK, Row, Ledger
<1>3. /\ Bounded(row'.ledger) /\ Len(row.ledger.rounds) <= Len(row'.ledger.rounds)
      /\ Right(r, said, Len(row'.ledger.rounds))
  BY <1>2 DEF Known
<1>. QED BY <1>1, <1>3, HandlerStep

\* Taking an event, and what the sweep starts.
LEMMA TakeTypes ==
  ASSUME TypeOK, Known, setting' = setting, NEW h \in Handlers
  PROVE  /\ \A e \in Deliverable : Take(h, e) => TypeOK' /\ Known'
         /\ Rewake(h) => TypeOK' /\ Known'
<1>0. /\ Idle \in Handler /\ Right(Idle, said, Len(row.ledger.rounds))
      /\ gate.note \in Notes \cup {"none"} /\ Len(row.ledger.rounds) \in Nat
  BY HandlerParts DEF Gate
<1>1. ASSUME NEW e \in Deliverable, Take(h, e) PROVE TypeOK' /\ Known'
  <2>. DEFINE r == [Idle EXCEPT !.pc = FirstStep(e.kind), !.event = e, !.note = gate.note,
                                !.tries = Attempts]
  <2>1. e \in Event /\ KnownEvent(e, said, gate.note)
    <3>1. PICK i \in DOMAIN inbox : e = inbox[i] BY DEF Deliverable
    <3>2. inbox[i] \in Event BY DEF TypeOK
    <3>. QED BY <3>1, <3>2 DEF Known
  <2>2. /\ FirstStep(e.kind) \in {"park", "begin", "guard", "ackRead"}
        /\ FirstStep(e.kind) \in {"begin", "guard"} => e.kind = "reject"
        /\ FirstStep(e.kind) = "ackRead" => e.kind = "approve"
    BY <2>1 DEF FirstStep, KnownEvent, Event
  <2>3. r \in Handler
    <3>1. FirstStep(e.kind) \in {"idle"} \cup PresentingAt \cup RejectingAt \cup ConcludingAt
      BY <2>2 DEF PresentingAt, RejectingAt, ConcludingAt
    <3>2. Attempts \in 0..Attempts BY DEF Attempts
    <3>. QED BY <1>0, <2>1, <3>1, <3>2 DEF Handler
  <2>4. Right(r, said, Len(row.ledger.rounds))
    BY <1>0, <2>1, <2>2 DEF Right, KnownEvent, Idle, PresentingAt, RejectingAt
  <2>5. handler' = [handler EXCEPT ![h] = r] BY <1>1 DEF Take
  <2>. HIDE DEF r
  <2>. QED BY <1>1, <2>3, <2>4, <2>5, OwnStep DEF Take
<1>2. ASSUME Rewake(h) PROVE TypeOK' /\ Known'
  <2>. DEFINE r == [Idle EXCEPT !.pc = "park", !.tries = Attempts]
  <2>1. r \in Handler
    <3>1. "park" \in PresentingAt /\ Attempts \in 0..Attempts BY DEF PresentingAt, Attempts
    <3>. QED BY <1>0, <3>1 DEF Handler
  <2>2. Right(r, said, Len(row.ledger.rounds))
    BY <1>0 DEF Right, Idle, PresentingAt, RejectingAt
  <2>3. handler' = [handler EXCEPT ![h] = r] BY <1>2 DEF Rewake
  <2>. HIDE DEF r
  <2>. QED BY <1>2, <2>1, <2>2, <2>3, OwnStep DEF Rewake
<1>. QED BY <1>1, <1>2

\* A handler goes on to the next step of the code, or ends.
LEMMA GoTypes ==
  ASSUME TypeOK, Known, NEW h \in Handlers
  PROVE  /\ \A pc \in PresentingAt \cup RejectingAt \cup ConcludingAt :
              [handler[h] EXCEPT !.pc = pc] \in Handler
         /\ Right([handler[h] EXCEPT !.pc = "end"], said, Len(row.ledger.rounds))
<1>0. handler[h] \in Handler /\ Right(handler[h], said, Len(row.ledger.rounds))
  BY HandlerParts
<1>1. \A pc \in PresentingAt \cup RejectingAt \cup ConcludingAt :
        [handler[h] EXCEPT !.pc = pc] \in Handler
  BY <1>0 DEF Handler
<1>2. Right([handler[h] EXCEPT !.pc = "end"], said, Len(row.ledger.rounds))
  BY <1>0 DEF Right, RejectingAt, PresentingAt, Handler
<1>. QED BY <1>1, <1>2

\* Where a presentation leads.
LEMMA AfterTypes ==
  ASSUME TypeOK, Known, NEW h \in Handlers
  PROVE  /\ [handler[h] EXCEPT !.pc = AfterPresenting(h)] \in Handler
         /\ Right([handler[h] EXCEPT !.pc = AfterPresenting(h)], said, Len(row.ledger.rounds))
<1>0. handler[h] \in Handler /\ Right(handler[h], said, Len(row.ledger.rounds))
  BY HandlerParts
<1>1. CASE AfterPresenting(h) = "end" BY <1>1, GoTypes DEF ConcludingAt
<1>2. CASE AfterPresenting(h) = "escalate" /\ handler[h].round > 0
  <2>1. Right([handler[h] EXCEPT !.pc = "escalate"], said, Len(row.ledger.rounds))
    BY <1>0, <1>2 DEF Right, RejectingAt, PresentingAt, Handler
  <2>. QED BY <1>2, <2>1, GoTypes DEF RejectingAt
<1>. QED BY <1>1, <1>2 DEF AfterPresenting

\* A row whose notifications are written as a whole.
Rewritten(x, list, v) == [x EXCEPT !.notifs = list, !.version = v + 1]

\* A write of the notifications changes them and their version, and nothing else of the row.
LEMMA ListWritten ==
  ASSUME NEW x \in Row, NEW list \in SUBSET Notification, NEW v \in Nat
  PROVE  LET new == Rewritten(x, list, v)
         IN /\ new \in Row /\ new.ledger = x.ledger /\ new.state = x.state
            /\ new.notifs = list /\ new.version = v + 1
<1>. DEFINE n == v + 1
<1>1. n \in Nat OBVIOUS
<1>. HIDE DEF n
<1>2. [x EXCEPT !.notifs = list, !.version = n] \in Row BY <1>1 DEF Row
<1>3. LET new == [x EXCEPT !.notifs = list, !.version = n]
      IN /\ new.ledger = x.ledger /\ new.state = x.state
         /\ new.notifs = list /\ new.version = n
  BY DEF Row
<1>. QED BY <1>2, <1>3 DEF n, Rewritten

\* Presenting the gate.
LEMMA PresentTypes ==
  ASSUME TypeOK, Known, setting' = setting, NEW h \in Handlers
  PROVE  Park(h) \/ AppendRead(h) \/ AppendWrite(h) \/ Mark(h) => TypeOK' /\ Known'
<1>0. /\ handler[h] \in Handler /\ Right(handler[h], said, Len(row.ledger.rounds))
      /\ handler[h].fresh \in Row /\ handler[h].tries \in 0..Attempts
      /\ row \in Row /\ NewRow \in Row /\ Len(row.ledger.rounds) \in Nat /\ OthersOK
  BY HandlerParts
<1>1. ASSUME Park(h) PROVE TypeOK' /\ Known'
  <2>. DEFINE r == [handler[h] EXCEPT !.pc = "appendRead"]
  <2>1. r \in Handler BY GoTypes DEF PresentingAt
  <2>2. Right(r, said, Len(row.ledger.rounds))
    BY <1>0, <1>1 DEF Park, Right, Handler, PresentingAt, RejectingAt
  <2>3. handler' = [handler EXCEPT ![h] = r] BY <1>1 DEF Park, Goto, TypeOK
  <2>4. gate' \in Gate /\ gate'.note = gate.note BY <1>1 DEF Park, TypeOK, Gate
  <2>5. row' = row /\ UNCHANGED <<inbox, said>> /\ OthersOK'
    BY <1>0, <1>1 DEF Park, OthersOK
  <2>. HIDE DEF r
  <2>. QED BY <1>0, <2>1, <2>2, <2>3, <2>4, <2>5, SameLedger
<1>2. ASSUME AppendRead(h) PROVE TypeOK' /\ Known'
  <2>. DEFINE r == [handler[h] EXCEPT !.pc = "appendWrite", !.fresh = row]
              g == [handler[h] EXCEPT !.pc = AfterPresenting(h)]
  <2>1. r \in Handler BY <1>0 DEF Handler, PresentingAt
  <2>2. Right(r, said, Len(row.ledger.rounds))
    BY <1>0, <1>2 DEF AppendRead, Right, Handler, PresentingAt, RejectingAt
  <2>3. g \in Handler /\ Right(g, said, Len(row.ledger.rounds)) BY AfterTypes
  <2>4. handler' = [handler EXCEPT ![h] = r] \/ handler' = [handler EXCEPT ![h] = g]
    BY <1>2 DEF AppendRead, Goto, TypeOK
  <2>. HIDE DEF r, g
  <2>. QED BY <1>2, <2>1, <2>2, <2>3, <2>4, OwnStep DEF AppendRead
<1>3. ASSUME AppendWrite(h) PROVE TypeOK' /\ Known'
  <2>1. CASE Unmoved(h) /\ posted' = posted + 1
    <3>. DEFINE new == [id |-> posted + 1, review |-> TRUE, open |-> TRUE]
                pc == IF setting.guard = "off" THEN AfterPresenting(h) ELSE "mark"
                r == [handler[h] EXCEPT !.pc = pc, !.fresh = NewRow]
    <3>1. new \in Notification BY <1>0 DEF Notification, OthersOK
    <3>2. row' \in Row /\ row'.ledger = row.ledger
      <4>. DEFINE list == handler[h].fresh.notifs \cup {new}
                  v == handler[h].fresh.version
      <4>1. row' = Rewritten(row, list, v) BY <1>3, <2>1 DEF AppendWrite, Rewritten
      <4>. HIDE DEF new
      <4>2. handler[h].fresh.notifs \in SUBSET Notification /\ v \in Nat
        BY <1>0 DEF Row
      <4>3. list \in SUBSET Notification BY <3>1, <4>2
      <4>. HIDE DEF list, v
      <4>. QED BY <1>0, <4>1, <4>2, <4>3, ListWritten
    <3>3. [handler[h] EXCEPT !.pc = pc] \in Handler
          /\ Right([handler[h] EXCEPT !.pc = pc], said, Len(row.ledger.rounds))
      <4>1. CASE pc = "mark"
        <5>1. Right([handler[h] EXCEPT !.pc = "mark"], said, Len(row.ledger.rounds))
          BY <1>0, <1>3 DEF AppendWrite, Right, Handler, PresentingAt, RejectingAt
        <5>. QED BY <4>1, <5>1, GoTypes DEF PresentingAt
      <4>2. CASE pc = AfterPresenting(h) BY <4>2, AfterTypes
      <4>. QED BY <4>1, <4>2
    <3>. HIDE DEF pc
    <3>4. r \in Handler BY <1>0, <3>3 DEF Handler
    <3>5. Right(r, said, Len(row.ledger.rounds)) BY <1>0, <3>3 DEF Right, Handler
    <3>6. handler' = [handler EXCEPT ![h] = r] BY <1>3, <2>1 DEF AppendWrite, TypeOK, pc
    <3>7. UNCHANGED <<gate, inbox, said>> /\ OthersOK'
      BY <1>0, <1>3, <2>1 DEF AppendWrite, OthersOK
    <3>8. gate' \in Gate BY <3>7 DEF TypeOK
    <3>. HIDE DEF r
    <3>. QED BY <3>2, <3>4, <3>5, <3>6, <3>7, <3>8, SameLedger
  <2>2. CASE LostRace(h, "appendRead", AfterPresenting(h)) /\ UNCHANGED <<row, posted>>
    <3>. DEFINE again == handler[h].tries > 1
                pc == IF again THEN "appendRead" ELSE AfterPresenting(h)
                n == IF again THEN handler[h].tries - 1 ELSE Attempts
                r == [handler[h] EXCEPT !.pc = pc, !.tries = n, !.fresh = NewRow]
    <3>1. [handler[h] EXCEPT !.pc = pc] \in Handler
          /\ Right([handler[h] EXCEPT !.pc = pc], said, Len(row.ledger.rounds))
      <4>1. CASE pc = "appendRead"
        <5>1. Right([handler[h] EXCEPT !.pc = "appendRead"], said, Len(row.ledger.rounds))
          BY <1>0, <1>3 DEF AppendWrite, Right, Handler, PresentingAt, RejectingAt
        <5>. QED BY <4>1, <5>1, GoTypes DEF PresentingAt
      <4>2. CASE pc = AfterPresenting(h) BY <4>2, AfterTypes
      <4>. QED BY <4>1, <4>2
    <3>2. n \in 0..Attempts BY <1>0 DEF Attempts
    <3>3. handler' = [handler EXCEPT ![h] = r]
      BY <2>2 DEF LostRace, TypeOK
    <3>. HIDE DEF pc, n
    <3>4. r \in Handler BY <1>0, <3>1, <3>2 DEF Handler
    <3>5. Right(r, said, Len(row.ledger.rounds)) BY <1>0, <3>1 DEF Right, Handler
    <3>. HIDE DEF r
    <3>. QED BY <1>3, <2>2, <3>3, <3>4, <3>5, OwnStep DEF AppendWrite
  <2>. QED BY <1>3, <2>1, <2>2 DEF AppendWrite
<1>4. ASSUME Mark(h) PROVE TypeOK' /\ Known'
  <2>. DEFINE g == [handler[h] EXCEPT !.pc = AfterPresenting(h)]
  <2>1. g \in Handler /\ Right(g, said, Len(row.ledger.rounds)) BY AfterTypes
  <2>2. handler' = [handler EXCEPT ![h] = g] BY <1>4 DEF Mark, Goto, TypeOK
  <2>3. row' \in Row /\ row'.ledger = row.ledger BY <1>0, <1>4 DEF Mark, Row, GATE_STATES
  <2>4. UNCHANGED <<gate, inbox, said>> /\ OthersOK' BY <1>0, <1>4 DEF Mark, OthersOK
  <2>5. gate' \in Gate BY <2>4 DEF TypeOK
  <2>. HIDE DEF g
  <2>. QED BY <2>1, <2>2, <2>3, <2>4, <2>5, SameLedger
<1>. QED BY <1>1, <1>2, <1>3, <1>4

\* An acknowledgement, and the way on from it.
LEMMA AckTypes ==
  ASSUME TypeOK, Known, setting' = setting, NEW h \in Handlers
  PROVE  AckRead(h) \/ AckWrite(h) \/ MarkApproved(h) => TypeOK' /\ Known'
<1>0. /\ handler[h] \in Handler /\ Right(handler[h], said, Len(row.ledger.rounds))
      /\ handler[h].fresh \in Row /\ handler[h].tries \in 0..Attempts
      /\ row \in Row /\ NewRow \in Row /\ Len(row.ledger.rounds) \in Nat /\ OthersOK
  BY HandlerParts
<1>. DEFINE Go(pc, tries, fresh) ==
              [handler[h] EXCEPT !.pc = pc, !.tries = tries, !.fresh = fresh]
<1>1. ASSUME handler[h].pc \in {"ackRead", "ackWrite"},
             NEW pc \in {AfterAck(h), "ackRead", "ackWrite"}, NEW tries \in 0..Attempts,
             NEW fresh \in Row
      PROVE  Go(pc, tries, fresh) \in Handler
             /\ Right(Go(pc, tries, fresh), said, Len(row.ledger.rounds))
  <2>1. /\ pc \in {"ackRead", "ackWrite", "decide", "approve", "end"}
        /\ pc = "approve" => handler[h].event.kind = "approve"
        /\ pc = "decide" => handler[h].event.kind = "reject"
    BY <1>0, <1>1 DEF AfterAck, Right
  <2>2. pc \in {"idle"} \cup PresentingAt \cup RejectingAt \cup ConcludingAt
    BY <2>1 DEF PresentingAt, RejectingAt, ConcludingAt
  <2>3. Go(pc, tries, fresh) \in Handler BY <1>0, <1>1, <2>2 DEF Handler
  <2>4. Right(Go(pc, tries, fresh), said, Len(row.ledger.rounds))
    BY <1>0, <1>1, <2>1 DEF Right, Handler, PresentingAt, RejectingAt
  <2>. QED BY <2>3, <2>4
<1>2. Attempts \in 0..Attempts BY DEF Attempts
<1>3. ASSUME AckRead(h) PROVE TypeOK' /\ Known'
  <2>1. handler[h].pc = "ackRead" BY <1>3 DEF AckRead
  <2>2. \/ handler' = [handler EXCEPT ![h] = Go(AfterAck(h), Attempts, handler[h].fresh)]
        \/ handler' = [handler EXCEPT ![h] = Go("ackWrite", handler[h].tries, row)]
    BY <1>0, <1>3 DEF AckRead, TypeOK, Handler
  <2>. HIDE DEF Go
  <2>. QED BY <1>0, <1>1, <1>2, <1>3, <2>1, <2>2, OwnStep DEF AckRead
<1>4. ASSUME AckWrite(h) PROVE TypeOK' /\ Known'
  <2>1. handler[h].pc = "ackWrite" BY <1>4 DEF AckWrite
  <2>2. CASE Unmoved(h) /\ handler' = [handler EXCEPT ![h] = Go(AfterAck(h), Attempts, NewRow)]
             /\ row' = [row EXCEPT !.notifs = Acknowledged(handler[h].fresh.notifs),
                                   !.version = handler[h].fresh.version + 1]
    <3>. DEFINE list == Acknowledged(handler[h].fresh.notifs)
                v == handler[h].fresh.version
    <3>1. handler[h].fresh.notifs \in SUBSET Notification /\ v \in Nat BY <1>0 DEF Row
    <3>2. list \in SUBSET Notification BY <3>1 DEF Acknowledged, Notification
    <3>7. row' = Rewritten(row, list, v) BY <2>2 DEF Rewritten
    <3>. HIDE DEF list, v
    <3>3. row' \in Row /\ row'.ledger = row.ledger
      BY <1>0, <3>1, <3>2, <3>7, ListWritten
    <3>4. UNCHANGED <<gate, inbox, said>> /\ OthersOK' BY <1>0, <1>4 DEF AckWrite, OthersOK
    <3>5. gate' \in Gate BY <3>4 DEF TypeOK
    <3>6. /\ Go(AfterAck(h), Attempts, NewRow) \in Handler
          /\ Right(Go(AfterAck(h), Attempts, NewRow), said, Len(row.ledger.rounds))
      BY <1>0, <1>1, <1>2, <2>1
    <3>. HIDE DEF Go
    <3>. QED BY <2>2, <3>3, <3>4, <3>5, <3>6, SameLedger
  <2>3. CASE LostRace(h, "ackRead", AfterAck(h)) /\ UNCHANGED row
    <3>. DEFINE again == handler[h].tries > 1
                pc == IF again THEN "ackRead" ELSE AfterAck(h)
                n == IF again THEN handler[h].tries - 1 ELSE Attempts
    <3>1. pc \in {AfterAck(h), "ackRead", "ackWrite"} /\ n \in 0..Attempts
      BY <1>0 DEF Attempts
    <3>2. handler' = [handler EXCEPT ![h] = Go(pc, n, NewRow)] BY <2>3 DEF LostRace, TypeOK
    <3>. HIDE DEF Go, pc, n
    <3>3. Go(pc, n, NewRow) \in Handler /\ Right(Go(pc, n, NewRow), said, Len(row.ledger.rounds))
      BY <1>0, <1>1, <2>1, <3>1
    <3>. QED BY <1>4, <2>3, <3>2, <3>3, OwnStep DEF AckWrite
  <2>4. \/ Unmoved(h) /\ handler' = [handler EXCEPT ![h] = Go(AfterAck(h), Attempts, NewRow)]
           /\ row' = [row EXCEPT !.notifs = Acknowledged(handler[h].fresh.notifs),
                                 !.version = handler[h].fresh.version + 1]
        \/ LostRace(h, "ackRead", AfterAck(h)) /\ UNCHANGED row
    BY <1>4 DEF AckWrite, TypeOK
  <2>. QED BY <2>2, <2>3, <2>4
<1>5. ASSUME MarkApproved(h) PROVE TypeOK' /\ Known'
  <2>. DEFINE r == [handler[h] EXCEPT !.pc = "end"]
  <2>1. r \in Handler /\ Right(r, said, Len(row.ledger.rounds)) BY GoTypes DEF ConcludingAt
  <2>2. handler' = [handler EXCEPT ![h] = r] BY <1>5 DEF MarkApproved, Goto, TypeOK
  <2>3. row' \in Row /\ row'.ledger = row.ledger
    BY <1>0, <1>5 DEF MarkApproved, Row, GATE_STATES
  <2>4. UNCHANGED <<gate, inbox, said>> /\ OthersOK' BY <1>0, <1>5 DEF MarkApproved, OthersOK
  <2>5. gate' \in Gate BY <2>4 DEF TypeOK
  <2>. HIDE DEF r
  <2>. QED BY <2>1, <2>2, <2>3, <2>4, <2>5, SameLedger
<1>. QED BY <1>3, <1>4, <1>5

\* What the guard notes of a rejection.
LEMMA HeardTypes ==
  ASSUME TypeOK, Known, NEW h \in Handlers, handler[h].pc \in {"guard", "claim"}
  PROVE  LET kind == [admitted : SUBSET (1..MaxDecisions),
                      dropped : SUBSET [note : Notes \cup {"none"}, parked : BOOLEAN]]
         IN /\ handler[h].event.kind = "reject"
            /\ Admit(h) => heard' \in kind
            /\ Ignore(h) => heard' \in kind
<1>0. /\ handler[h] \in Handler /\ Right(handler[h], said, Len(row.ledger.rounds))
      /\ OthersOK /\ gate \in Gate
  BY HandlerParts
<1>1. handler[h].event.kind = "reject" /\ handler[h].event.n \in 1..said
  BY <1>0 DEF Right, RejectingAt
<1>2. handler[h].event.n \in 1..MaxDecisions
  <2>1. said \in 0..MaxDecisions /\ MaxDecisions \in Nat BY <1>0, GateAssumption DEF OthersOK
  <2>. QED BY ONLY <1>1, <2>1
<1>3. handler[h].note \in Notes \cup {"none"} /\ gate.parked \in BOOLEAN
  BY <1>0 DEF Handler, Gate
<1>4. Admit(h) => heard' = [heard EXCEPT !.admitted = @ \cup {handler[h].event.n}]
  BY DEF Admit
<1>5. Ignore(h) => \/ heard' = heard
                   \/ \E d \in [note : Notes \cup {"none"}, parked : BOOLEAN] :
                        heard' = [heard EXCEPT !.dropped = @ \cup {d}]
  <2>. DEFINE d == [note |-> handler[h].note, parked |-> gate.parked]
  <2>1. d \in [note : Notes \cup {"none"}, parked : BOOLEAN] BY <1>3
  <2>2. Ignore(h) => heard' = heard \/ heard' = [heard EXCEPT !.dropped = @ \cup {d}]
    BY DEF Ignore
  <2>. QED BY <2>1, <2>2
<1>6. heard \in [admitted : SUBSET (1..MaxDecisions),
                 dropped : SUBSET [note : Notes \cup {"none"}, parked : BOOLEAN]]
  BY <1>0 DEF OthersOK
<1>7. Admit(h) => heard' \in [admitted : SUBSET (1..MaxDecisions),
                               dropped : SUBSET [note : Notes \cup {"none"}, parked : BOOLEAN]]
  BY ONLY <1>2, <1>4, <1>6
<1>8. Ignore(h) => heard' \in [admitted : SUBSET (1..MaxDecisions),
                                dropped : SUBSET [note : Notes \cup {"none"}, parked : BOOLEAN]]
  BY ONLY <1>5, <1>6
<1>. QED BY <1>1, <1>7, <1>8

\* The guard and the claim of a rejection.
LEMMA GuardTypes ==
  ASSUME TypeOK, Known, setting' = setting, NEW h \in Handlers
  PROVE  Guard(h) \/ ClaimRejection(h) \/ Begin(h) => TypeOK' /\ Known'
<1>0. /\ handler[h] \in Handler /\ Right(handler[h], said, Len(row.ledger.rounds))
      /\ row \in Row /\ NewRow \in Row /\ Len(row.ledger.rounds) \in Nat /\ OthersOK
      /\ Bounded(row.ledger) /\ Bounded(NewRow.ledger) /\ Len(NewRow.ledger.rounds) = 0
  BY HandlerParts DEF Known
<1>. DEFINE Go(pc, wf) == [handler[h] EXCEPT !.pc = pc, !.wf = wf]
<1>1. ASSUME NEW pc \in {"claim", "begin", "ackRead", "end"},
             NEW wf \in Row, Bounded(wf.ledger),
             Len(wf.ledger.rounds) <= Len(row.ledger.rounds), handler[h].event.kind = "reject"
      PROVE  Go(pc, wf) \in Handler /\ Right(Go(pc, wf), said, Len(row.ledger.rounds))
  <2>1. pc \in {"idle"} \cup PresentingAt \cup RejectingAt \cup ConcludingAt
    BY DEF PresentingAt, RejectingAt, ConcludingAt
  <2>2. Go(pc, wf) \in Handler BY <1>0, <2>1 DEF Handler
  <2>3. Right(Go(pc, wf), said, Len(row.ledger.rounds))
    BY <1>0, <1>1 DEF Right, Handler, PresentingAt, RejectingAt
  <2>. QED BY <2>2, <2>3
<1>2. /\ handler[h].wf \in Row /\ Bounded(handler[h].wf.ledger)
      /\ Len(handler[h].wf.ledger.rounds) <= Len(row.ledger.rounds)
  BY <1>0 DEF Handler, Right
<1>3. ASSUME Ignore(h), handler[h].pc \in {"guard", "claim"}
      PROVE  /\ \/ handler' = [handler EXCEPT ![h] = Go("end", handler[h].wf)]
                \/ handler' = [handler EXCEPT ![h] = Go("begin", NewRow)]
             /\ heard' \in [admitted : SUBSET (1..MaxDecisions),
                            dropped : SUBSET [note : Notes \cup {"none"}, parked : BOOLEAN]]
  <2>1. handler[h] = [handler[h] EXCEPT !.wf = handler[h].wf] BY <1>0 DEF Handler
  <2>2. Go("end", handler[h].wf) = [handler[h] EXCEPT !.pc = "end"] BY <1>0 DEF Handler
  <2>. QED BY <1>3, <2>2, HeardTypes DEF Ignore, Goto, TypeOK
<1>4. ASSUME Guard(h) PROVE TypeOK' /\ Known'
  <2>1. handler[h].pc = "guard" BY <1>4 DEF Guard
  <2>2. handler[h].event.kind = "reject" BY <2>1, HeardTypes
  <2>3. \/ handler' = [handler EXCEPT ![h] = Go("claim", row)]
        \/ handler' = [handler EXCEPT ![h] = Go("end", handler[h].wf)]
        \/ handler' = [handler EXCEPT ![h] = Go("begin", NewRow)]
        \/ handler' = [handler EXCEPT ![h] = Go("begin", handler[h].wf)]
    <3>1. Go("begin", handler[h].wf) = [handler[h] EXCEPT !.pc = "begin"] BY <1>0 DEF Handler
    <3>2. handler' = [handler EXCEPT ![h] = Go("claim", row)] \/ Ignore(h) \/ Goto(h, "begin")
      BY <1>4 DEF Guard, TypeOK
    <3>. QED BY <1>3, <2>1, <3>1, <3>2 DEF Goto, TypeOK
  <2>4. /\ heard' \in [admitted : SUBSET (1..MaxDecisions),
                       dropped : SUBSET [note : Notes \cup {"none"}, parked : BOOLEAN]]
        /\ budget' \in [looks : Nat, others : 0..MaxOthers, crashes : Nat, errors : Nat]
    <3>1. heard' = heard \/ Ignore(h) \/ Admit(h) BY <1>4 DEF Guard
    <3>2. heard' \in [admitted : SUBSET (1..MaxDecisions),
                      dropped : SUBSET [note : Notes \cup {"none"}, parked : BOOLEAN]]
      BY <1>0, <2>1, <3>1, HeardTypes DEF OthersOK
    <3>3. budget' = budget \/ budget' = [budget EXCEPT !.errors = @ + 1] BY <1>4 DEF Guard
    <3>. QED BY <1>0, <3>2, <3>3 DEF OthersOK
  <2>5. UNCHANGED <<gate, upstream, row, inbox, said, posted, reworks, newRounds, setting>>
    BY <1>4 DEF Guard
  <2>6. OthersOK' BY <1>0, <2>4, <2>5 DEF OthersOK
  <2>. HIDE DEF Go
  <2>7. \E r \in Handler : handler' = [handler EXCEPT ![h] = r]
                           /\ Right(r, said, Len(row.ledger.rounds))
    BY <1>0, <1>1, <1>2, <2>2, <2>3
  <2>. QED BY <2>5, <2>6, <2>7, OwnStep
<1>5. ASSUME ClaimRejection(h) PROVE TypeOK' /\ Known'
  <2>1. handler[h].pc = "claim" BY <1>5 DEF ClaimRejection
  <2>2. handler[h].event.kind = "reject" BY <2>1, HeardTypes
  <2>3. \/ handler' = [handler EXCEPT ![h] = Go("end", handler[h].wf)]
        \/ handler' = [handler EXCEPT ![h] = Go("begin", NewRow)]
    BY <1>3, <1>5, <2>1 DEF ClaimRejection, TypeOK
  <2>4. row' \in Row /\ row'.ledger = row.ledger
    BY <1>0, <1>5 DEF ClaimRejection, Claimed, Row, GATE_STATES
  <2>5. heard' \in [admitted : SUBSET (1..MaxDecisions),
                    dropped : SUBSET [note : Notes \cup {"none"}, parked : BOOLEAN]]
    BY <1>5, <2>1, HeardTypes DEF ClaimRejection
  <2>6. UNCHANGED <<gate, upstream, inbox, said, posted, reworks, newRounds, budget, setting>>
    BY <1>5 DEF ClaimRejection
  <2>7. OthersOK' /\ gate' \in Gate BY <1>0, <2>5, <2>6 DEF OthersOK, TypeOK
  <2>. HIDE DEF Go
  <2>8. \E r \in Handler : handler' = [handler EXCEPT ![h] = r]
                           /\ Right(r, said, Len(row.ledger.rounds))
    BY <1>0, <1>1, <1>2, <2>2, <2>3
  <2>. QED BY <2>4, <2>6, <2>7, <2>8, SameLedger
<1>6. ASSUME Begin(h) PROVE TypeOK' /\ Known'
  <2>1. handler[h].pc = "begin" BY <1>6 DEF Begin
  <2>2. handler[h].event.kind = "reject" BY <1>0, <2>1 DEF Right, RejectingAt
  <2>3. handler' = [handler EXCEPT ![h] = Go("ackRead", row)] BY <1>6 DEF Begin, TypeOK
  <2>. HIDE DEF Go
  <2>4. Go("ackRead", row) \in Handler
        /\ Right(Go("ackRead", row), said, Len(row.ledger.rounds))
    BY <1>0, <1>1, <2>2
  <2>. QED BY <1>6, <2>3, <2>4, OwnStep DEF Begin
<1>. QED BY <1>4, <1>5, <1>6

\* The decision, and what is done about it.
LEMMA DecideTypes ==
  ASSUME TypeOK, Known, setting' = setting, NEW h \in Handlers
  PROVE  Decide(h) \/ Authorize(h) \/ Escalate(h) \/ Reopen(h) => TypeOK' /\ Known'
<1>0. /\ handler[h] \in Handler /\ Right(handler[h], said, Len(row.ledger.rounds))
      /\ row \in Row /\ Len(row.ledger.rounds) \in Nat /\ OthersOK /\ gate \in Gate
      /\ row.ledger \in Ledger /\ Bounded(row.ledger) /\ handler[h].round \in Nat
  BY HandlerParts DEF Known
<1>1. ASSUME NEW pc \in {"reopen", "record", "authorize"}, handler[h].event.kind = "reject",
             pc = "authorize" => OpenEscalations(handler[h].wf.ledger) # {}
      PROVE  [handler[h] EXCEPT !.pc = pc] \in Handler
             /\ Right([handler[h] EXCEPT !.pc = pc], said, Len(row.ledger.rounds))
  BY <1>0, <1>1, GoTypes DEF Right, Handler, PresentingAt, RejectingAt
<1>2. ASSUME Decide(h) PROVE TypeOK' /\ Known'
  <2>1. handler[h].event.kind = "reject" BY <1>0, <1>2 DEF Decide, Right, RejectingAt
  <2>2. \/ Goto(h, "end") \/ Goto(h, "reopen") \/ Goto(h, "record")
        \/ Goto(h, "authorize") /\ OpenEscalations(handler[h].wf.ledger) # {}
    BY <1>2 DEF Decide
  <2>3. \E r \in Handler : handler' = [handler EXCEPT ![h] = r]
                           /\ Right(r, said, Len(row.ledger.rounds))
    <3>1. [handler[h] EXCEPT !.pc = "end"] \in Handler BY GoTypes DEF ConcludingAt
    <3>2. \A pc : Goto(h, pc) => handler' = [handler EXCEPT ![h] = [handler[h] EXCEPT !.pc = pc]]
      BY DEF Goto, TypeOK
    <3>. QED BY <1>1, <2>1, <2>2, <3>1, <3>2, GoTypes
  <2>4. gate' \in Gate /\ gate'.note = gate.note BY <1>0, <1>2 DEF Decide, Gate
  <2>5. row' = row /\ UNCHANGED <<inbox, said>> /\ OthersOK' BY <1>0, <1>2 DEF Decide, OthersOK
  <2>. QED BY <1>0, <2>3, <2>4, <2>5, SameLedger
<1>3. ASSUME Authorize(h) PROVE TypeOK' /\ Known'
  <2>. DEFINE l == handler[h].wf.ledger
              r == [handler[h] EXCEPT !.pc = "record"]
              n == Max(OpenEscalations(l))
  <2>1. handler[h].pc = "authorize" /\ handler[h].event.kind = "reject"
    BY <1>0, <1>3 DEF Authorize, Right, RejectingAt
  <2>2. n \in 1..Len(row.ledger.rounds)
    <3>1. OpenEscalations(l) # {} /\ Bounded(l) /\ Len(l.rounds) <= Len(row.ledger.rounds)
      BY <1>0, <2>1 DEF Right
    <3>2. handler[h].wf \in Row BY <1>0 DEF Handler
    <3>3. Len(l.rounds) \in Nat BY <3>2 DEF Row, Ledger
    <3>4. OpenEscalations(l) \in SUBSET (1..Len(l.rounds)) BY <3>1 DEF Bounded, OpenEscalations
    <3>. HIDE DEF l
    <3>5. n \in OpenEscalations(l) BY <3>1, <3>3, <3>4, MaxIn
    <3>. QED BY <1>0, <3>1, <3>3, <3>4, <3>5
  <2>. HIDE DEF n
  <2>3. row' = [row EXCEPT !.ledger.authorized = @ \cup {n}] BY <1>3 DEF Authorize, n
  <2>4. /\ row' \in Row /\ Bounded(row'.ledger)
        /\ row'.ledger.rounds = row.ledger.rounds
    <3>. DEFINE new == [row.ledger EXCEPT !.authorized = @ \cup {n}]
    <3>1. new \in Ledger /\ Bounded(new) /\ new.rounds = row.ledger.rounds
      BY <1>0, <2>2 DEF Ledger, Bounded
    <3>2. row' = [row EXCEPT !.ledger = new] BY <1>0, <2>3 DEF Row
    <3>. HIDE DEF new
    <3>. QED BY <1>0, <3>1, <3>2 DEF Row
  <2>5. r \in Handler /\ Right(r, said, Len(row.ledger.rounds)) BY <1>1, <2>1
  <2>6. handler' = [handler EXCEPT ![h] = r] BY <1>3 DEF Authorize, Goto, TypeOK
  <2>7. UNCHANGED <<gate, inbox, said>> /\ OthersOK' BY <1>0, <1>3 DEF Authorize, OthersOK
  <2>8. gate' \in Gate /\ gate'.note = gate.note BY <1>0, <2>7
  <2>9. Right(r, said, Len(row'.ledger.rounds)) /\ Len(row.ledger.rounds) <= Len(row'.ledger.rounds)
    BY <1>0, <2>4, <2>5
  <2>. HIDE DEF r
  <2>. QED BY <2>4, <2>5, <2>6, <2>7, <2>8, <2>9, HandlerStep
<1>4. ASSUME Escalate(h) PROVE TypeOK' /\ Known'
  <2>. DEFINE n == handler[h].round
              r == [handler[h] EXCEPT !.pc = "end"]
  <2>1. n \in 1..Len(row.ledger.rounds) BY <1>0, <1>4 DEF Escalate, Right
  <2>2. row' = [row EXCEPT !.ledger.escalated = @ \cup {n}] BY <1>4 DEF Escalate
  <2>. HIDE DEF n
  <2>3. /\ row' \in Row /\ Bounded(row'.ledger)
        /\ row'.ledger.rounds = row.ledger.rounds
    <3>. DEFINE new == [row.ledger EXCEPT !.escalated = @ \cup {n}]
    <3>1. new \in Ledger /\ Bounded(new) /\ new.rounds = row.ledger.rounds
      BY <1>0, <2>1 DEF Ledger, Bounded
    <3>2. row' = [row EXCEPT !.ledger = new] BY <1>0, <2>2 DEF Row
    <3>. HIDE DEF new
    <3>. QED BY <1>0, <3>1, <3>2 DEF Row
  <2>4. r \in Handler /\ Right(r, said, Len(row.ledger.rounds)) BY GoTypes DEF ConcludingAt
  <2>5. handler' = [handler EXCEPT ![h] = r] BY <1>4 DEF Escalate, Goto, TypeOK
  <2>6. UNCHANGED <<gate, inbox, said>> /\ OthersOK' BY <1>0, <1>4 DEF Escalate, OthersOK
  <2>7. gate' \in Gate /\ gate'.note = gate.note BY <1>0, <2>6
  <2>8. Right(r, said, Len(row'.ledger.rounds)) /\ Len(row.ledger.rounds) <= Len(row'.ledger.rounds)
    BY <1>0, <2>3, <2>4
  <2>. HIDE DEF r
  <2>. QED BY <2>3, <2>4, <2>5, <2>6, <2>7, <2>8, HandlerStep
<1>5. ASSUME Reopen(h) PROVE TypeOK' /\ Known'
  <2>. DEFINE r == [handler[h] EXCEPT !.pc = "end"]
  <2>1. r \in Handler /\ Right(r, said, Len(row.ledger.rounds)) BY GoTypes DEF ConcludingAt
  <2>2. handler' = [handler EXCEPT ![h] = r] BY <1>5 DEF Reopen, Goto, TypeOK
  <2>3. row' = row /\ UNCHANGED <<gate, inbox, said>> /\ OthersOK'
    <3>1. handler[h].event.n \in 1..MaxDecisions
      <4>1. handler[h].event.kind = "reject" BY <1>0, <1>5 DEF Reopen, Right, RejectingAt
      <4>2. handler[h].event.n \in 1..said BY <1>0, <4>1 DEF Right
      <4>. QED BY <1>0, <4>2, GateAssumption DEF OthersOK
    <3>2. reworks \in [1..MaxDecisions -> Nat] BY DEF TypeOK
    <3>3. \/ reworks' = reworks
          \/ reworks' = [reworks EXCEPT ![handler[h].event.n] = @ + 1]
      BY <1>5 DEF Reopen
    <3>4. reworks' \in [1..MaxDecisions -> Nat] BY ONLY <3>1, <3>2, <3>3
    <3>5. budget' \in [looks : Nat, others : 0..MaxOthers, crashes : Nat, errors : Nat]
      <4>1. budget' = budget \/ budget' = [budget EXCEPT !.errors = @ + 1] BY <1>5 DEF Reopen
      <4>. QED BY <1>0, <4>1 DEF OthersOK
    <3>6. upstream' \in {"open", "done"} BY <1>0, <1>5 DEF Reopen, OthersOK
    <3>7. UNCHANGED <<gate, row, inbox, said, posted, newRounds, heard>> BY <1>5 DEF Reopen
    <3>. QED BY <1>0, <3>4, <3>5, <3>6, <3>7 DEF OthersOK
  <2>. HIDE DEF r
  <2>. QED BY <1>0, <2>1, <2>2, <2>3, SameLedger
<1>. QED BY <1>2, <1>3, <1>4, <1>5

\* A round is recorded.
LEMMA RecordTypes ==
  ASSUME TypeOK, Known, setting' = setting, NEW h \in Handlers, Record(h)
  PROVE  TypeOK' /\ Known'
<1>. DEFINE l == WithRound(row.ledger, handler[h].wf.ledger, handler[h].note)
            k == RoundOf(handler[h].wf.ledger, handler[h].note)
            pc == AfterRound(l)
            n == IF CapReached(l) /\ OpenEscalations(l) = {} THEN k ELSE 0
<1>0. /\ handler[h] \in Handler /\ Right(handler[h], said, Len(row.ledger.rounds))
      /\ row \in Row /\ NewRow \in Row /\ Len(row.ledger.rounds) \in Nat /\ OthersOK
      /\ row.ledger \in Ledger /\ Bounded(row.ledger) /\ gate \in Gate
      /\ Bounded(NewRow.ledger) /\ Len(NewRow.ledger.rounds) = 0
  BY HandlerParts DEF Known
<1>1. handler[h].event.kind = "reject" /\ handler[h].note \in Notes
      /\ handler[h].pc = "record"
  BY <1>0 DEF Record, Right, RejectingAt
<1>2. handler[h].wf.ledger \in Ledger /\ Len(handler[h].wf.ledger.rounds) <= Len(row.ledger.rounds)
  <2>1. handler[h].wf \in Row BY <1>0 DEF Handler
  <2>. QED BY <1>0, <2>1 DEF Row, Right
<1>3. /\ l \in Ledger /\ Bounded(l) /\ k \in 1..Len(l.rounds)
      /\ Len(l.rounds) \in Nat /\ Len(row.ledger.rounds) <= Len(l.rounds)
  BY <1>0, <1>1, <1>2, RoundWritten
<1>4. pc \in {"park", "reopen"} BY DEF AfterRound
<1>8. UNCHANGED <<gate, upstream, inbox, said, posted, reworks, heard>> BY DEF Record
<1>5. CASE /\ row' = [row EXCEPT !.ledger = l] /\ UNCHANGED budget
           /\ handler' = [handler EXCEPT ![h].pc = pc, ![h].round = n, ![h].wf = NewRow]
           /\ newRounds' \in {newRounds, newRounds + 1}
  <2>. DEFINE r == [handler[h] EXCEPT !.pc = pc, !.round = n, !.wf = NewRow]
  <2>1. handler' = [handler EXCEPT ![h] = r] BY <1>5 DEF TypeOK
  <2>2. n \in 0..Len(l.rounds) /\ n \in Nat BY <1>3
  <2>3. pc \in {"idle"} \cup PresentingAt \cup RejectingAt \cup ConcludingAt
    BY <1>4 DEF PresentingAt, RejectingAt, ConcludingAt
  <2>. HIDE DEF l, n, pc
  <2>4. r \in Handler BY <1>0, <2>2, <2>3 DEF Handler
  <2>5. Right(r, said, Len(l.rounds))
    BY <1>0, <1>1, <1>3, <1>4, <2>2 DEF Right, Handler, PresentingAt, RejectingAt
  <2>6. row' \in Row /\ row'.ledger = l BY <1>0, <1>3, <1>5 DEF Row
  <2>7. UNCHANGED <<gate, inbox, said>> /\ OthersOK' BY <1>0, <1>5, <1>8 DEF OthersOK
  <2>8. gate' \in Gate /\ gate'.note = gate.note BY <1>0, <2>7
  <2>9. /\ Right(r, said, Len(row'.ledger.rounds)) /\ Bounded(row'.ledger)
        /\ Len(row.ledger.rounds) <= Len(row'.ledger.rounds)
    BY <1>3, <2>5, <2>6
  <2>. HIDE DEF r
  <2>. QED BY <2>1, <2>4, <2>6, <2>7, <2>8, <2>9, HandlerStep
<1>6. CASE /\ UNCHANGED <<row, newRounds>> /\ budget' = [budget EXCEPT !.errors = @ + 1]
           /\ handler' = [handler EXCEPT ![h].pc = "reopen", ![h].wf = NewRow]
  <2>. DEFINE r == [handler[h] EXCEPT !.pc = "reopen", !.wf = NewRow]
  <2>1. handler' = [handler EXCEPT ![h] = r] BY <1>6 DEF TypeOK
  <2>2. r \in Handler BY <1>0 DEF Handler, RejectingAt
  <2>3. Right(r, said, Len(row.ledger.rounds))
    BY <1>0, <1>1 DEF Right, Handler, PresentingAt, RejectingAt
  <2>4. UNCHANGED <<gate, inbox, said>> /\ OthersOK' BY <1>0, <1>6, <1>8 DEF OthersOK
  <2>5. gate' \in Gate /\ gate'.note = gate.note /\ row' = row BY <1>0, <1>6, <2>4
  <2>. HIDE DEF r
  <2>. QED BY <1>0, <2>1, <2>2, <2>3, <2>4, <2>5, SameLedger
<1>7. newRounds' \in {newRounds, newRounds + 1} BY DEF Record
<1>. QED BY <1>5, <1>6, <1>7 DEF Record

\* What is left of a sequence without one of its places.
LEMMA WithoutType ==
  ASSUME NEW S, NEW q \in Seq(S), NEW i \in DOMAIN q
  PROVE  /\ Without(q, i) \in Seq(S) /\ Len(Without(q, i)) = Len(q) - 1
         /\ \A j \in 1..(Len(q) - 1) : Without(q, i)[j] = q[IF j < i THEN j ELSE j + 1]
<1>1. Len(q) \in Nat /\ i \in 1..Len(q) OBVIOUS
<1>2. Len(q) - 1 \in Nat BY <1>1
<1>3. ASSUME NEW j \in 1..(Len(q) - 1) PROVE q[IF j < i THEN j ELSE j + 1] \in S
  BY <1>1, <1>2
<1>. QED BY <1>1, <1>2, <1>3 DEF Without

\* Nothing new is among the events that are left.
LEMMA LeftKnown ==
  ASSUME TypeOK, Known, NEW i \in DOMAIN inbox, inbox' = Without(inbox, i), said' = said,
         gate'.note = gate.note
  PROVE  inbox' \in Seq(Event) /\ \A j \in DOMAIN inbox' : KnownEvent(inbox'[j], said', gate'.note)
<1>1. inbox \in Seq(Event) BY DEF TypeOK
<1>2. inbox' \in Seq(Event) /\ Len(inbox') = Len(inbox) - 1 BY <1>1, WithoutType
<1>3. ASSUME NEW j \in DOMAIN inbox' PROVE \E g \in DOMAIN inbox : inbox'[j] = inbox[g]
  <2>1. j \in 1..(Len(inbox) - 1) BY <1>2
  <2>2. inbox'[j] = inbox[IF j < i THEN j ELSE j + 1] BY <1>1, <2>1, WithoutType
  <2>3. (IF j < i THEN j ELSE j + 1) \in DOMAIN inbox BY <1>1, <2>1
  <2>. QED BY <2>2, <2>3
<1>. QED BY <1>2, <1>3 DEF Known

\* An event of the queue is deleted, or there was none.
LEMMA ConsumeLeaves ==
  ASSUME NEW h \in Handlers, Consume(h)
  PROVE  inbox' = inbox \/ \E i \in DOMAIN inbox : inbox[i] = handler[h].event
                                                   /\ inbox' = Without(inbox, i)
BY DEF Consume

\* A handler that is idle again knows of nothing, and what is left of the queue is known.
LEMMA IdleTypes ==
  ASSUME TypeOK, Known, NEW h \in Handlers, handler' = [handler EXCEPT ![h] = Idle],
         inbox' = inbox \/ Consume(h), OthersOK', UNCHANGED <<gate, row, said>>
  PROVE  TypeOK' /\ Known'
<1>0. Idle \in Handler /\ Right(Idle, said, Len(row.ledger.rounds)) BY HandlerParts
<1>1. inbox' = inbox \/ \E i \in DOMAIN inbox : inbox' = Without(inbox, i) BY ConsumeLeaves
<1>2. inbox' \in Seq(Event) /\ \A j \in DOMAIN inbox' : KnownEvent(inbox'[j], said', gate'.note)
  <2>1. inbox \in Seq(Event) BY DEF TypeOK
  <2>. QED BY <1>1, <2>1, LeftKnown DEF Known
<1>3. /\ handler' \in [Handlers -> Handler]
      /\ \A g \in Handlers : Right(handler'[g], said, Len(row.ledger.rounds))
  BY <1>0 DEF TypeOK, Known
<1>4. TypeOK' BY <1>2, <1>3 DEF TypeOK, OthersOK
<1>5. Known' BY <1>2, <1>3 DEF Known
<1>. QED BY <1>4, <1>5

\* A handler returns, is lost, or goes on after a call that has failed.
LEMMA LeaveTypes ==
  ASSUME TypeOK, Known, setting' = setting, NEW h \in Handlers
  PROVE  End(h) \/ Crash(h) \/ CallFails(h) => TypeOK' /\ Known'
<1>0. /\ handler[h] \in Handler /\ Right(handler[h], said, Len(row.ledger.rounds))
      /\ NewRow \in Row /\ OthersOK /\ Idle \in Handler
      /\ Right(Idle, said, Len(row.ledger.rounds))
  BY HandlerParts
<1>1. ASSUME End(h) PROVE TypeOK' /\ Known'
  <2>1. UNCHANGED <<gate, upstream, row, said, posted, reworks, newRounds, heard, budget>>
    BY <1>1 DEF End
  <2>2. OthersOK' BY <1>0, <2>1 DEF OthersOK
  <2>. QED BY <1>1, <2>1, <2>2, IdleTypes DEF End
<1>2. budget' = [budget EXCEPT !.errors = @ + 1] \/ budget' = [budget EXCEPT !.crashes = @ + 1]
        => budget' \in [looks : Nat, others : 0..MaxOthers, crashes : Nat, errors : Nat]
  <2>1. budget \in [looks : Nat, others : 0..MaxOthers, crashes : Nat, errors : Nat]
    BY <1>0 DEF OthersOK
  <2>. QED BY ONLY <2>1
<1>3. ASSUME Crash(h) PROVE TypeOK' /\ Known'
  <2>1. UNCHANGED <<gate, upstream, row, said, posted, reworks, newRounds, setting, heard>>
    BY <1>3 DEF Crash
  <2>2. OthersOK' BY <1>0, <1>2, <1>3, <2>1 DEF Crash, OthersOK
  <2>. QED BY <1>3, <2>1, <2>2, IdleTypes DEF Crash
<1>4. ASSUME CallFails(h) PROVE TypeOK' /\ Known'
  <2>1. UNCHANGED <<gate, upstream, row, inbox, said, posted, reworks, newRounds, setting, heard>>
    BY <1>4 DEF CallFails
  <2>2. OthersOK' BY <1>0, <1>2, <1>4, <2>1 DEF CallFails, OthersOK
  <2>. DEFINE g == [handler[h] EXCEPT !.pc = AfterPresenting(h)]
              e == [handler[h] EXCEPT !.pc = "end"]
              f == [handler[h] EXCEPT !.pc = "end", !.fresh = NewRow]
  <2>3. g \in Handler /\ Right(g, said, Len(row.ledger.rounds)) BY AfterTypes
  <2>4. e \in Handler /\ Right(e, said, Len(row.ledger.rounds)) BY GoTypes DEF ConcludingAt
  <2>5. f \in Handler BY <1>0 DEF Handler, ConcludingAt
  <2>6. Right(f, said, Len(row.ledger.rounds)) BY <1>0, <2>4 DEF Right, Handler
  <2>7. \/ handler' = [handler EXCEPT ![h] = g] \/ handler' = [handler EXCEPT ![h] = e]
        \/ handler' = [handler EXCEPT ![h] = f]
    BY <1>4 DEF CallFails, Goto, TypeOK
  <2>. HIDE DEF g, e, f
  <2>. QED BY <2>1, <2>2, <2>3, <2>4, <2>5, <2>6, <2>7, OwnStep
<1>. QED BY <1>1, <1>3, <1>4

\* One event more, of a decision that has been made.
LEMMA OneMore ==
  ASSUME TypeOK, Known, NEW e \in Event, inbox' = Append(inbox, e), said' \in 0..MaxDecisions,
         said <= said', gate'.note \in Notes \/ gate'.note = gate.note,
         KnownEvent(e, said', gate'.note), gate' \in Gate, OthersOK', UNCHANGED <<row, handler>>
  PROVE  TypeOK' /\ Known'
<1>1. inbox \in Seq(Event) /\ said \in Nat /\ said' \in Nat BY GateAssumption DEF TypeOK
<1>2. inbox' \in Seq(Event) BY <1>1
<1>3. ASSUME NEW i \in DOMAIN inbox' PROVE KnownEvent(inbox'[i], said', gate'.note)
  <2>1. CASE i \in DOMAIN inbox
    <3>1. inbox'[i] = inbox[i] BY <1>1, <2>1
    <3>2. KnownEvent(inbox[i], said, gate.note) BY <2>1 DEF Known
    <3>. QED BY <1>1, <3>1, <3>2 DEF KnownEvent
  <2>2. CASE i \notin DOMAIN inbox
    <3>1. inbox'[i] = e BY <1>1, <2>2
    <3>. QED BY <3>1
  <2>. QED BY <2>1, <2>2
<1>4. ASSUME NEW g \in Handlers PROVE Right(handler[g], said', Len(row.ledger.rounds))
  <2>1. handler[g] \in Handler /\ Len(row.ledger.rounds) \in Nat
    BY DEF TypeOK, Row, Ledger
  <2>2. Right(handler[g], said, Len(row.ledger.rounds)) BY DEF Known
  <2>3. PICK n \in Nat : n = Len(row.ledger.rounds) BY <2>1
  <2>4. Right(handler[g], said', n) BY <1>1, <2>1, <2>2, <2>3, RightGrows
  <2>. QED BY <2>3, <2>4
<1>5. TypeOK' BY <1>2 DEF TypeOK, OthersOK
<1>6. Known' BY <1>3, <1>4 DEF Known
<1>. QED BY <1>5, <1>6

\* The person, the agent and the other writers.
LEMMA PersonTypes ==
  ASSUME TypeOK, Known, setting' = setting
  PROVE  /\ \A note \in Notes : Reject(note) => TypeOK' /\ Known'
         /\ Approve \/ LookAgain \/ UpstreamDone \/ AppendNotification => TypeOK' /\ Known'
<1>0. /\ OthersOK /\ gate \in Gate /\ row \in Row /\ said \in Nat /\ MaxDecisions \in Nat
      /\ inbox \in Seq(Event)
  BY GateAssumption DEF TypeOK, OthersOK
<1>1. MayDecide /\ said' = said + 1 => said' \in 0..MaxDecisions
  BY <1>0, GateAssumption DEF MayDecide
<1>2. ASSUME NEW note \in Notes, Reject(note) PROVE TypeOK' /\ Known'
  <2>. DEFINE e == [kind |-> "reject", n |-> said + 1]
  <2>1. e \in Event BY <1>0 DEF Event
  <2>2. gate' \in Gate /\ gate'.note = note BY <1>0, <1>2 DEF Reject, Gate
  <2>3. said' = said + 1 /\ said' \in 0..MaxDecisions BY <1>1, <1>2 DEF Reject
  <2>4. KnownEvent(e, said', gate'.note) BY <1>0, <2>2, <2>3 DEF KnownEvent
  <2>5. OthersOK' BY <1>0, <1>2, <2>3 DEF Reject, OthersOK
  <2>6. said <= said' BY <1>0, <2>3
  <2>. QED BY <1>2, <2>1, <2>2, <2>3, <2>4, <2>5, <2>6, OneMore DEF Reject
<1>3. ASSUME Approve PROVE TypeOK' /\ Known'
  <2>. DEFINE e == [kind |-> "approve", n |-> said + 1]
  <2>1. e \in Event BY <1>0 DEF Event
  <2>2. gate' \in Gate /\ gate'.note = gate.note BY <1>0, <1>3 DEF Approve, Gate
  <2>3. said' = said + 1 /\ said' \in 0..MaxDecisions BY <1>1, <1>3 DEF Approve
  <2>4. KnownEvent(e, said', gate'.note) BY DEF KnownEvent
  <2>5. OthersOK' BY <1>0, <1>3, <2>3 DEF Approve, OthersOK
  <2>6. said <= said' BY <1>0, <2>3
  <2>. QED BY <1>3, <2>1, <2>2, <2>3, <2>4, <2>5, <2>6, OneMore DEF Approve
<1>4. ASSUME LookAgain PROVE TypeOK' /\ Known'
  <2>1. gate' \in Gate /\ gate'.note = gate.note BY <1>0, <1>4 DEF LookAgain, Gate
  <2>2. UNCHANGED <<upstream, row, inbox, handler, said, posted, reworks, newRounds, heard>>
    BY <1>4 DEF LookAgain
  <2>3. budget' \in [looks : Nat, others : 0..MaxOthers, crashes : Nat, errors : Nat]
    <3>1. budget' = [budget EXCEPT !.looks = @ + 1] BY <1>4 DEF LookAgain
    <3>2. budget \in [looks : Nat, others : 0..MaxOthers, crashes : Nat, errors : Nat]
      BY <1>0 DEF OthersOK
    <3>. QED BY <3>1, <3>2
  <2>. QED BY <2>1, <2>2, <2>3 DEF TypeOK, Known
<1>5. ASSUME UpstreamDone PROVE TypeOK' /\ Known'
  <2>1. UNCHANGED <<row, handler, said, posted, reworks, newRounds, heard, budget>>
    BY <1>5 DEF UpstreamDone
  <2>2. OthersOK' BY <1>0, <1>5, <2>1 DEF UpstreamDone, OthersOK
  <2>3. CASE UNCHANGED <<gate, inbox>> BY <2>1, <2>2, <2>3 DEF TypeOK, Known, OthersOK
  <2>4. CASE gate' = [gate EXCEPT !.status = "ready"]
             /\ inbox' = Append(inbox, [kind |-> "ready", n |-> said])
    <3>. DEFINE e == [kind |-> "ready", n |-> said]
    <3>1. e \in Event BY <1>0 DEF Event
    <3>2. gate' \in Gate /\ gate'.note = gate.note BY <1>0, <2>4 DEF Gate
    <3>3. KnownEvent(e, said', gate'.note) BY DEF KnownEvent
    <3>4. said' \in 0..MaxDecisions /\ said <= said' BY <1>0, <2>1 DEF OthersOK
    <3>. QED BY <2>1, <2>2, <2>4, <3>1, <3>2, <3>3, <3>4, OneMore
  <2>. QED BY <1>5, <2>3, <2>4 DEF UpstreamDone
<1>6. ASSUME AppendNotification PROVE TypeOK' /\ Known'
  <2>. DEFINE new == [id |-> posted + 1, review |-> FALSE, open |-> TRUE]
  <2>1. new \in Notification BY <1>0 DEF Notification, OthersOK
  <2>2. row' = Rewritten(row, row.notifs \cup {new}, row.version)
    BY <1>6 DEF AppendNotification, Rewritten
  <2>. HIDE DEF new
  <2>3. row' \in Row /\ row'.ledger = row.ledger
    <3>1. row.notifs \cup {new} \in SUBSET Notification /\ row.version \in Nat
      BY <1>0, <2>1 DEF Row
    <3>. QED BY <1>0, <2>2, <3>1, ListWritten
  <2>4. UNCHANGED <<gate, upstream, inbox, handler, said, reworks, newRounds, heard>>
    BY <1>6 DEF AppendNotification
  <2>5. OthersOK'
    <3>1. budget' \in [looks : Nat, others : 0..MaxOthers, crashes : Nat, errors : Nat]
      <4>1. budget' = [budget EXCEPT !.others = @ + 1] /\ budget.others < MaxOthers
        BY <1>6 DEF AppendNotification
      <4>2. budget.others \in 0..MaxOthers BY <1>0 DEF OthersOK
      <4>3. budget.others + 1 \in 0..MaxOthers BY <4>1, <4>2, GateAssumption
      <4>. QED BY <1>0, <4>1, <4>3 DEF OthersOK
    <3>2. posted' = posted + 1 /\ setting' = setting BY <1>6 DEF AppendNotification
    <3>. QED BY <1>0, <2>4, <3>1, <3>2 DEF OthersOK
  <2>6. TypeOK' BY <2>3, <2>4, <2>5 DEF TypeOK, OthersOK
  <2>. QED BY <2>3, <2>4, <2>6 DEF Known
<1>. QED BY <1>2, <1>3, <1>4, <1>5, <1>6

\* The domains are inductive together with what waits and what is copied.
LEMMA TypesInductive ==
  /\ Init => TypeOK /\ Known
  /\ TypeOK /\ Known /\ [Next]_vars => TypeOK' /\ Known'
<1>1. ASSUME Init PROVE TypeOK /\ Known
  <2>1. Unreviewed \in Ledger BY DEF Unreviewed, Ledger
  <2>2. NewRow \in Row /\ NewRow.ledger = Unreviewed BY <2>1 DEF NewRow, Row
  <2>3. NoEvent \in Event BY DEF NoEvent, Event
  <2>4. Idle \in Handler BY <2>2, <2>3 DEF Idle, Handler, Attempts
  <2>5. Bounded(Unreviewed) /\ Len(Unreviewed.rounds) = 0 BY DEF Bounded, Unreviewed
  <2>6. Right(Idle, 0, 0)
    BY <2>2, <2>5 DEF Right, Idle, NoEvent, PresentingAt, RejectingAt
  <2>7. inbox \in Seq(Event) /\ DOMAIN inbox = {} BY <1>1 DEF Init
  <2>8. gate \in Gate BY <1>1 DEF Init, Gate
  <2>9. OthersOK BY <1>1, GateAssumption DEF Init, OthersOK
  <2>10. TypeOK BY <1>1, <2>2, <2>4, <2>7, <2>8, <2>9 DEF Init, TypeOK, OthersOK
  <2>11. Known BY <1>1, <2>2, <2>5, <2>6, <2>7 DEF Init, Known
  <2>. QED BY <2>10, <2>11
<1>2. ASSUME TypeOK, Known, setting' = setting, NEW h \in Handlers,
             Work(h) \/ Rewake(h) \/ Crash(h) \/ CallFails(h)
      PROVE  TypeOK' /\ Known'
  <2>1. (\E e \in Deliverable : Take(h, e)) \/ Rewake(h) => TypeOK' /\ Known'
    BY <1>2, TakeTypes
  <2>2. Park(h) \/ AppendRead(h) \/ AppendWrite(h) \/ Mark(h) => TypeOK' /\ Known'
    BY <1>2, PresentTypes
  <2>3. AckRead(h) \/ AckWrite(h) \/ MarkApproved(h) => TypeOK' /\ Known' BY <1>2, AckTypes
  <2>4. Guard(h) \/ ClaimRejection(h) \/ Begin(h) => TypeOK' /\ Known' BY <1>2, GuardTypes
  <2>5. Decide(h) \/ Authorize(h) \/ Escalate(h) \/ Reopen(h) => TypeOK' /\ Known'
    BY <1>2, DecideTypes
  <2>6. Record(h) => TypeOK' /\ Known' BY <1>2, RecordTypes
  <2>7. End(h) \/ Crash(h) \/ CallFails(h) => TypeOK' /\ Known' BY <1>2, LeaveTypes
  <2>. QED BY <1>2, <2>1, <2>2, <2>3, <2>4, <2>5, <2>6, <2>7 DEF Work
<1>3. ASSUME TypeOK, Known, UNCHANGED vars PROVE TypeOK' /\ Known'
  <2>1. TypeOK' BY <1>3 DEF vars, TypeOK
  <2>2. Known' BY <1>3 DEF vars, Known
  <2>. QED BY <2>1, <2>2
<1>. QED BY <1>1, <1>2, <1>3, PersonTypes DEF Next

\* Every variable stays in its domain.
THEOREM TypeCorrect == Spec => []TypeOK
BY TypesInductive, PTL DEF Spec

-------------------------------------------------------------------------------
(* The notifications *)

WritesAt == {"appendWrite", "ackWrite"}

\* A handler about to write the list back has read it at its version or at an earlier one;
\* about to append, it has seen no open review.
Fenced(r, version, notifs) ==
  /\ r.pc \in WritesAt => /\ r.fresh.version <= version
                          /\ r.fresh.version = version => r.fresh.notifs = notifs
  /\ r.pc = "appendWrite" => OpenReviews(r.fresh) = {}

Fence == /\ OneOpenReview /\ NothingLost
         /\ \A h \in Handlers : Fenced(handler[h], row.version, row.notifs)

\* A step that leaves the list alone, and moves no handler to a write of it.
ListLeft ==
  /\ row'.notifs = row.notifs /\ row'.version = row.version /\ posted' = posted
  /\ \A g \in Handlers : handler'[g] = handler[g] \/ handler'[g].pc \notin WritesAt

\* Such a step keeps the fence.
LEMMA LeftFenced == TypeOK /\ Fence /\ ListLeft => Fence'
<1>. SUFFICES ASSUME TypeOK, Fence, ListLeft PROVE Fence' OBVIOUS
<1>1. \A g \in Handlers : Fenced(handler'[g], row.version, row.notifs)
  BY DEF Fence, ListLeft, Fenced, WritesAt
<1>2. OneOpenReview' /\ NothingLost' BY DEF Fence, ListLeft, OneOpenReview, NothingLost, OpenReviews
<1>. QED BY <1>1, <1>2 DEF Fence, ListLeft

\* A write of the list closes the fence before every handler that has read it.
LEMMA BumpFenced ==
  ASSUME TypeOK, Fence, row'.version = row.version + 1, OneOpenReview', NothingLost',
         \A g \in Handlers : handler'[g] = handler[g] \/ handler'[g].pc \notin WritesAt
  PROVE  Fence'
<1>1. ASSUME NEW g \in Handlers PROVE Fenced(handler'[g], row'.version, row'.notifs)
  <2>1. CASE handler'[g].pc \notin WritesAt BY <2>1 DEF Fenced, WritesAt
  <2>2. CASE handler'[g] = handler[g]
    <3>1. handler[g] \in Handler /\ Fenced(handler[g], row.version, row.notifs)
      BY DEF TypeOK, Fence
    <3>2. handler[g].fresh \in Row /\ row \in Row BY <3>1 DEF Handler, TypeOK
    <3>3. handler[g].fresh.version \in Nat /\ row.version \in Nat BY <3>2 DEF Row
    <3>4. handler[g].pc \in WritesAt => handler[g].fresh.version <= row.version
      BY <3>1 DEF Fenced
    <3>5. handler[g].pc \in WritesAt => handler[g].fresh.version <= row'.version
                                        /\ handler[g].fresh.version # row'.version
      BY <3>3, <3>4
    <3>. QED BY <2>2, <3>1, <3>5 DEF Fenced
  <2>. QED BY <2>1, <2>2
<1>. QED BY <1>1 DEF Fence

\* The handlers' steps that are not about the list.
LEMMA HandlersLeaveList ==
  ASSUME TypeOK, Known, NEW h \in Handlers
  PROVE  /\ (\E e \in Deliverable : Take(h, e)) \/ Rewake(h) \/ Park(h) \/ Mark(h) => ListLeft
         /\ MarkApproved(h) \/ Guard(h) \/ ClaimRejection(h) \/ Begin(h) => ListLeft
         /\ Decide(h) \/ Authorize(h) \/ Record(h) \/ Escalate(h) \/ Reopen(h) => ListLeft
         /\ End(h) \/ Crash(h) \/ CallFails(h) => ListLeft
<1>0. /\ handler \in [Handlers -> Handler] /\ handler[h] \in Handler /\ row \in Row
      /\ AfterPresenting(h) \notin WritesAt /\ Idle.pc \notin WritesAt
  BY DEF TypeOK, AfterPresenting, WritesAt, Idle
<1>1. \A pc : Goto(h, pc) /\ pc \notin WritesAt =>
        \A g \in Handlers : handler'[g] = handler[g] \/ handler'[g].pc \notin WritesAt
  BY <1>0 DEF Goto, Handler
<1>2. (handler' = [handler EXCEPT ![h] = Idle]) =>
        \A g \in Handlers : handler'[g] = handler[g] \/ handler'[g].pc \notin WritesAt
  BY <1>0
<1>3. ASSUME NEW e \in Deliverable, Take(h, e) PROVE ListLeft
  <2>1. KnownEvent(e, said, gate.note) /\ e \in Event
    <3>1. PICK i \in DOMAIN inbox : e = inbox[i] BY DEF Deliverable
    <3>. QED BY <3>1 DEF Known, TypeOK
  <2>2. FirstStep(e.kind) \notin WritesAt BY <2>1 DEF FirstStep, KnownEvent, Event, WritesAt
  <2>. QED BY <1>0, <1>3, <2>2 DEF Take, ListLeft, Idle
<1>4. Rewake(h) => ListLeft BY <1>0 DEF Rewake, ListLeft, WritesAt, Idle
<1>5. Park(h) \/ Mark(h) => ListLeft BY <1>0, <1>1 DEF Park, Mark, ListLeft, WritesAt, Row
<1>6. MarkApproved(h) => ListLeft BY <1>0, <1>1 DEF MarkApproved, ListLeft, WritesAt, Row
<1>7. ASSUME Guard(h) \/ ClaimRejection(h) \/ Begin(h) PROVE ListLeft
  <2>1. \A g \in Handlers : handler'[g] = handler[g] \/ handler'[g].pc \notin WritesAt
    BY <1>0, <1>1, <1>7 DEF Guard, ClaimRejection, Begin, Ignore, WritesAt, Handler
  <2>. QED BY <1>0, <1>7, <2>1 DEF Guard, ClaimRejection, Begin, Claimed, ListLeft, Row
<1>8. ASSUME Decide(h) PROVE ListLeft
  <2>1. Goto(h, "end") \/ Goto(h, "reopen") \/ Goto(h, "record") \/ Goto(h, "authorize")
    BY <1>8 DEF Decide
  <2>2. \A g \in Handlers : handler'[g] = handler[g] \/ handler'[g].pc \notin WritesAt
    BY <1>1, <2>1 DEF WritesAt
  <2>. QED BY <1>8, <2>2 DEF Decide, ListLeft
<1>9. Authorize(h) \/ Escalate(h) \/ Reopen(h) => ListLeft
  BY <1>0, <1>1 DEF Authorize, Escalate, Reopen, ListLeft, WritesAt, Row
<1>10. ASSUME Record(h) PROVE ListLeft
  <2>1. \A l : AfterRound(l) \notin WritesAt BY DEF AfterRound, WritesAt
  <2>2. \A g \in Handlers : handler'[g] = handler[g] \/ handler'[g].pc \notin WritesAt
    <3>. DEFINE l == WithRound(row.ledger, handler[h].wf.ledger, handler[h].note)
                k == RoundOf(handler[h].wf.ledger, handler[h].note)
                n == IF CapReached(l) /\ OpenEscalations(l) = {} THEN k ELSE 0
                pc == AfterRound(l)
    <3>1. \/ handler' = [handler EXCEPT ![h].pc = pc, ![h].round = n, ![h].wf = NewRow]
          \/ handler' = [handler EXCEPT ![h].pc = "reopen", ![h].wf = NewRow]
      BY <1>10 DEF Record
    <3>2. pc \notin WritesAt /\ "reopen" \notin WritesAt BY <2>1 DEF WritesAt
    <3>. HIDE DEF pc, n
    <3>3. CASE handler' = [handler EXCEPT ![h].pc = pc, ![h].round = n, ![h].wf = NewRow]
      <4>1. handler'[h].pc = pc BY <1>0, <3>3 DEF Handler
      <4>2. \A g \in Handlers : g # h => handler'[g] = handler[g] BY <1>0, <3>3
      <4>. QED BY <3>2, <4>1, <4>2
    <3>4. CASE handler' = [handler EXCEPT ![h].pc = "reopen", ![h].wf = NewRow]
      <4>1. handler'[h].pc = "reopen" BY <1>0, <3>4 DEF Handler
      <4>2. \A g \in Handlers : g # h => handler'[g] = handler[g] BY <1>0, <3>4
      <4>. QED BY <3>2, <4>1, <4>2
    <3>. QED BY <3>1, <3>3, <3>4
  <2>3. row'.notifs = row.notifs /\ row'.version = row.version /\ posted' = posted
    BY <1>0, <1>10 DEF Record, Row
  <2>. QED BY <2>2, <2>3 DEF ListLeft
<1>11. End(h) \/ Crash(h) => ListLeft BY <1>2 DEF End, Crash, ListLeft
<1>12. CallFails(h) => ListLeft BY <1>0, <1>1 DEF CallFails, ListLeft, WritesAt, Handler
<1>. QED BY <1>3, <1>4, <1>5, <1>6, <1>7, <1>8, <1>9, <1>10, <1>11, <1>12

\* A person's decisions and the agent's do not touch the list either.
LEMMA PersonLeavesList ==
  (\E note \in Notes : Reject(note)) \/ Approve \/ LookAgain \/ UpstreamDone => ListLeft
BY DEF Reject, Approve, LookAgain, UpstreamDone, ListLeft

\* One of several writers appends; the list stays whole.
LEMMA AppendKeeps ==
  ASSUME TypeOK, NothingLost, NEW b \in BOOLEAN, posted' = posted + 1,
         row'.notifs = row.notifs \cup {[id |-> posted + 1, review |-> b, open |-> TRUE]}
  PROVE  /\ NothingLost'
         /\ OpenReviews(row)' = OpenReviews(row)
              \cup (IF b THEN {[id |-> posted + 1, review |-> b, open |-> TRUE]} ELSE {})
<1>. DEFINE new == [id |-> posted + 1, review |-> b, open |-> TRUE]
<1>1. posted \in Nat /\ {m.id : m \in row.notifs} = 1..posted BY DEF TypeOK, NothingLost
<1>2. new.id = posted + 1 /\ new.review = b /\ new.open = TRUE OBVIOUS
<1>3. row'.notifs = row.notifs \cup {new} OBVIOUS
<1>. HIDE DEF new
<1>4. {m.id : m \in row'.notifs} = {m.id : m \in row.notifs} \cup {posted + 1}
  BY <1>2, <1>3
<1>5. (1..posted) \cup {posted + 1} = 1..(posted + 1) BY <1>1
<1>6. NothingLost' BY <1>1, <1>4, <1>5 DEF NothingLost
<1>7. OpenReviews(row)' = OpenReviews(row) \cup (IF b THEN {new} ELSE {})
  BY <1>2, <1>3 DEF OpenReviews
<1>. QED BY <1>6, <1>7 DEF new

\* The reads of the list take it as it is.
LEMMA ReadFenced ==
  ASSUME TypeOK, Known, Fence, NEW h \in Handlers
  PROVE  AppendRead(h) \/ AckRead(h) => Fence'
<1>. SUFFICES ASSUME AppendRead(h) \/ AckRead(h) PROVE Fence' OBVIOUS
<1>0. handler \in [Handlers -> Handler] /\ row \in Row /\ row.version \in Nat
  BY DEF TypeOK, Row
<1>1. UNCHANGED <<row, posted>> BY DEF AppendRead, AckRead
<1>2. ASSUME NEW g \in Handlers PROVE Fenced(handler'[g], row.version, row.notifs)
  <2>1. CASE handler'[g] = handler[g] BY <2>1 DEF Fence
  <2>2. CASE handler'[g].pc \notin WritesAt BY <2>2 DEF Fenced, WritesAt
  <2>3. CASE /\ handler'[g].pc \in WritesAt /\ handler'[g].fresh = row
             /\ handler'[g].pc = "appendWrite" => OpenReviews(row) = {}
    BY <1>0, <2>3 DEF Fenced
  <2>4. AfterPresenting(h) \notin WritesAt /\ AfterAck(h) \notin WritesAt
    BY DEF AfterPresenting, AfterAck, WritesAt
  <2>5. \/ handler'[g] = handler[g] \/ handler'[g].pc \notin WritesAt
        \/ /\ handler'[g].pc \in WritesAt /\ handler'[g].fresh = row
           /\ handler'[g].pc = "appendWrite" => OpenReviews(row) = {}
    BY <1>0, <2>4 DEF AppendRead, AckRead, Goto, Handler, WritesAt
  <2>. QED BY <2>1, <2>2, <2>3, <2>5
<1>3. OneOpenReview' /\ NothingLost' BY <1>1 DEF Fence, OneOpenReview, NothingLost, OpenReviews
<1>. QED BY <1>1, <1>2, <1>3 DEF Fence

\* Once the version fits, what the handler has read is what is there.
LEMMA WriteFenced ==
  ASSUME TypeOK, Known, Fence, NEW h \in Handlers
  PROVE  AppendWrite(h) \/ AckWrite(h) => Fence'
<1>0. /\ handler \in [Handlers -> Handler] /\ handler[h] \in Handler /\ row \in Row
      /\ handler[h].fresh \in Row /\ Fenced(handler[h], row.version, row.notifs)
  BY HandlerParts DEF TypeOK, Fence
<1>1. AfterPresenting(h) \notin WritesAt /\ AfterAck(h) \notin WritesAt
  BY DEF AfterPresenting, AfterAck, WritesAt
<1>2. ASSUME NEW retryAt, NEW giveUpAt, retryAt \notin WritesAt, giveUpAt \notin WritesAt,
             LostRace(h, retryAt, giveUpAt), UNCHANGED <<row, posted>>
      PROVE  Fence'
  <2>1. handler'[h].pc \notin WritesAt BY <1>0, <1>2 DEF LostRace, Handler
  <2>2. \A g \in Handlers : handler'[g] = handler[g] \/ handler'[g].pc \notin WritesAt
    BY <1>0, <1>2, <2>1 DEF LostRace
  <2>. QED BY <1>2, <2>2, LeftFenced DEF ListLeft
<1>3. ASSUME Unmoved(h), handler[h].pc \in WritesAt PROVE handler[h].fresh.notifs = row.notifs
  BY <1>0, <1>3 DEF Unmoved, Fenced
<1>4. ASSUME AppendWrite(h) PROVE Fence'
  <2>1. handler[h].pc = "appendWrite" BY <1>4 DEF AppendWrite
  <2>2. CASE LostRace(h, "appendRead", AfterPresenting(h)) /\ UNCHANGED <<row, posted>>
    BY <1>1, <1>2, <2>2 DEF WritesAt
  <2>3. CASE Unmoved(h) /\ posted' = posted + 1
    <3>. DEFINE new == [id |-> posted + 1, review |-> TRUE, open |-> TRUE]
                pc == IF setting.guard = "off" THEN AfterPresenting(h) ELSE "mark"
    <3>1. handler[h].fresh.notifs = row.notifs BY <1>3, <2>1, <2>3 DEF WritesAt
    <3>2. OpenReviews(row) = {} BY <1>0, <2>1, <3>1 DEF Fenced, OpenReviews
    <3>3. /\ row' = [row EXCEPT !.notifs = handler[h].fresh.notifs \cup {new},
                                !.version = handler[h].fresh.version + 1]
          /\ handler' = [handler EXCEPT ![h].pc = pc, ![h].fresh = NewRow]
      BY <1>4, <2>3 DEF AppendWrite
    <3>4. pc \notin WritesAt BY <1>1 DEF WritesAt
    <3>. HIDE DEF pc
    <3>5. \A g \in Handlers : handler'[g] = handler[g] \/ handler'[g].pc \notin WritesAt
      BY <1>0, <3>3, <3>4 DEF Handler
    <3>6. row'.version = row.version + 1 BY <1>0, <2>3, <3>3 DEF Unmoved, Row
    <3>7. row'.notifs = row.notifs \cup {new} BY <1>0, <3>1, <3>3 DEF Row
    <3>8. NothingLost' /\ OpenReviews(row)' = {new}
      BY <2>3, <3>2, <3>7, AppendKeeps DEF Fence
    <3>9. OneOpenReview' BY <3>8 DEF OneOpenReview
    <3>. QED BY <3>5, <3>6, <3>8, <3>9, BumpFenced
  <2>. QED BY <1>4, <2>2, <2>3 DEF AppendWrite
<1>5. ASSUME AckWrite(h) PROVE Fence'
  <2>1. handler[h].pc = "ackWrite" /\ posted' = posted BY <1>5 DEF AckWrite
  <2>2. CASE LostRace(h, "ackRead", AfterAck(h)) /\ UNCHANGED row
    BY <1>1, <1>2, <2>1, <2>2 DEF WritesAt
  <2>3. CASE /\ Unmoved(h)
             /\ row' = [row EXCEPT !.notifs = Acknowledged(handler[h].fresh.notifs),
                                   !.version = handler[h].fresh.version + 1]
             /\ handler' = [handler EXCEPT ![h].pc = AfterAck(h), ![h].fresh = NewRow,
                                           ![h].tries = Attempts]
    <3>1. handler[h].fresh.notifs = row.notifs BY <1>3, <2>1, <2>3 DEF WritesAt
    <3>2. \A g \in Handlers : handler'[g] = handler[g] \/ handler'[g].pc \notin WritesAt
      BY <1>0, <1>1, <2>3 DEF Handler
    <3>3. row'.version = row.version + 1 BY <1>0, <2>3 DEF Unmoved, Row
    <3>4. row'.notifs = Acknowledged(row.notifs) BY <1>0, <2>3, <3>1 DEF Row
    <3>5. row.notifs \in SUBSET Notification BY <1>0 DEF Row
    <3>6. \A m \in row.notifs : LET n == IF m.review THEN [m EXCEPT !.open = FALSE] ELSE m
                                IN n.id = m.id /\ ~(n.review /\ n.open)
      BY <3>5 DEF Notification
    <3>7. OpenReviews(row)' = {} BY <3>4, <3>6 DEF OpenReviews, Acknowledged
    <3>8. {m.id : m \in row'.notifs} = {m.id : m \in row.notifs}
      BY <3>4, <3>6 DEF Acknowledged
    <3>9. NothingLost' BY <2>1, <3>8 DEF NothingLost, Fence
    <3>10. OneOpenReview' BY <3>7 DEF OneOpenReview
    <3>. QED BY <3>2, <3>3, <3>9, <3>10, BumpFenced
  <2>. QED BY <1>5, <2>2, <2>3 DEF AckWrite
<1>. QED BY <1>4, <1>5

\* Another writer's append, as an atomic one, needs no fence of its own.
LEMMA AppendFenced == TypeOK /\ Fence /\ AppendNotification => Fence'
<1>. SUFFICES ASSUME TypeOK, Fence, AppendNotification PROVE Fence' OBVIOUS
<1>. DEFINE new == [id |-> posted + 1, review |-> FALSE, open |-> TRUE]
<1>1. row \in Row /\ posted' = posted + 1 /\ handler' = handler
  BY DEF TypeOK, AppendNotification
<1>2. row' = [row EXCEPT !.notifs = @ \cup {new}, !.version = @ + 1] BY DEF AppendNotification
<1>3. row'.notifs = row.notifs \cup {new} /\ row'.version = row.version + 1
  BY <1>1, <1>2 DEF Row
<1>4. NothingLost' /\ OpenReviews(row)' = OpenReviews(row)
  BY <1>1, <1>3, AppendKeeps DEF Fence
<1>5. OneOpenReview' BY <1>4 DEF OneOpenReview, Fence
<1>. QED BY <1>1, <1>3, <1>4, <1>5, BumpFenced

\* The fence is inductive, in every deployment.
LEMMA FenceInductive ==
  /\ Init => Fence
  /\ TypeOK /\ Known /\ Fence /\ [Next]_vars => Fence'
<1>1. ASSUME Init PROVE Fence
  <2>1. row.notifs = {} /\ posted = 0 BY <1>1 DEF Init, NewRow
  <2>2. \A h \in Handlers : handler[h].pc = "idle" BY <1>1 DEF Init, Idle
  <2>3. NothingLost BY <2>1 DEF NothingLost
  <2>4. OneOpenReview BY <2>1 DEF OneOpenReview, OpenReviews
  <2>. QED BY <2>2, <2>3, <2>4 DEF Fence, Fenced, WritesAt
<1>2. ASSUME TypeOK, Known, Fence, Next PROVE Fence'
  <2>1. ASSUME NEW h \in Handlers, Work(h) \/ Rewake(h) \/ Crash(h) \/ CallFails(h)
        PROVE  Fence'
    <3>1. ListLeft \/ AppendRead(h) \/ AckRead(h) \/ AppendWrite(h) \/ AckWrite(h)
      BY <1>2, <2>1, HandlersLeaveList DEF Work
    <3>. QED BY <1>2, <3>1, LeftFenced, ReadFenced, WriteFenced
  <2>. QED BY <1>2, <2>1, PersonLeavesList, LeftFenced, AppendFenced DEF Next
<1>3. ASSUME TypeOK, Fence, UNCHANGED vars PROVE Fence'
  BY <1>3, LeftFenced DEF vars, ListLeft
<1>. QED BY <1>1, <1>2, <1>3

\* A person is asked once at a time, whatever handlers present the gate at once.
THEOREM OneReviewCorrect == Spec => []OneOpenReview
<1>1. Fence => OneOpenReview BY DEF Fence
<1>. QED BY <1>1, TypesInductive, FenceInductive, PTL DEF Spec

\* No notification is lost to a list written back from an old copy.
THEOREM NotificationsKept == Spec => []NothingLost
<1>1. Fence => NothingLost BY DEF Fence
<1>. QED BY <1>1, TypesInductive, FenceInductive, PTL DEF Spec

-------------------------------------------------------------------------------
(* The queue *)

\* With a queue, only the handler of the first event works on one.
Alone ==
  \A h \in Handlers : handler[h].event.kind # "none" =>
    /\ inbox # <<>> /\ handler[h].event = inbox[1]
    /\ \A g \in Handlers \ {h} : handler[g].event.kind = "none"

\* While the sweep of the DynamoDB board presents the gate, nothing is in the queue.
Quiet ==
  setting.board = "ddb" =>
    \A h \in Handlers : handler[h].event.kind = "none" /\ handler[h].pc \in PresentingAt => inbox = <<>>

\* A rejection is in the queue once.
Distinct ==
  \A i, j \in DOMAIN inbox :
    inbox[i].kind = "reject" /\ inbox[j].kind = "reject" /\ inbox[i].n = inbox[j].n => i = j

InOrder == setting.delivery = "queue" => Alone /\ Quiet /\ Distinct

\* A step of the code on the way of one handler from its event to its end.
Onward(h) ==
  /\ \A g \in Handlers \ {h} : handler'[g] = handler[g]
  /\ handler'[h].event = handler[h].event
  /\ handler[h].pc \notin {"idle", "end"}
  /\ inbox' = inbox /\ said' = said

\* The steps of a handler that is past its first one go onward.
LEMMA GoesOnward ==
  ASSUME TypeOK, NEW h \in Handlers
  PROVE  /\ Park(h) \/ AppendRead(h) \/ AppendWrite(h) \/ Mark(h) => Onward(h)
         /\ AckRead(h) \/ AckWrite(h) \/ MarkApproved(h) => Onward(h)
         /\ Guard(h) \/ ClaimRejection(h) \/ Begin(h) \/ Decide(h) => Onward(h)
         /\ Authorize(h) \/ Record(h) \/ Escalate(h) \/ Reopen(h) => Onward(h)
         /\ CallFails(h) => Onward(h)
<1>0. handler \in [Handlers -> Handler] /\ handler[h] \in Handler BY DEF TypeOK
<1>1. \A pc : Goto(h, pc) =>
        (\A g \in Handlers \ {h} : handler'[g] = handler[g]) /\ handler'[h].event = handler[h].event
  BY <1>0 DEF Goto, Handler
<1>2. Park(h) \/ Mark(h) => Onward(h) BY <1>1 DEF Park, Mark, Onward
<1>3. AppendRead(h) => Onward(h) BY <1>0, <1>1 DEF AppendRead, Onward, Handler
<1>4. \A a, b : LostRace(h, a, b) =>
        (\A g \in Handlers \ {h} : handler'[g] = handler[g]) /\ handler'[h].event = handler[h].event
  BY <1>0 DEF LostRace, Handler
<1>5. AppendWrite(h) => Onward(h) BY <1>0, <1>4 DEF AppendWrite, Onward, Handler
<1>6. AckRead(h) => Onward(h) BY <1>0 DEF AckRead, Onward, Handler
<1>7. AckWrite(h) => Onward(h) BY <1>0, <1>4 DEF AckWrite, Onward, Handler
<1>8. MarkApproved(h) => Onward(h) BY <1>1 DEF MarkApproved, Onward
<1>9. Guard(h) => Onward(h) BY <1>0, <1>1 DEF Guard, Ignore, Onward, Handler
<1>10. ClaimRejection(h) => Onward(h) BY <1>0, <1>1 DEF ClaimRejection, Ignore, Onward, Handler
<1>11. Begin(h) => Onward(h) BY <1>0 DEF Begin, Onward, Handler
<1>12. Decide(h) \/ Authorize(h) \/ Escalate(h) \/ Reopen(h) => Onward(h)
  BY <1>1 DEF Decide, Authorize, Escalate, Reopen, Onward
<1>13. ASSUME Record(h) PROVE Onward(h)
  <2>. DEFINE l == WithRound(row.ledger, handler[h].wf.ledger, handler[h].note)
              k == RoundOf(handler[h].wf.ledger, handler[h].note)
              n == IF CapReached(l) /\ OpenEscalations(l) = {} THEN k ELSE 0
              pc == AfterRound(l)
  <2>1. \/ handler' = [handler EXCEPT ![h].pc = pc, ![h].round = n, ![h].wf = NewRow]
        \/ handler' = [handler EXCEPT ![h].pc = "reopen", ![h].wf = NewRow]
    BY <1>13 DEF Record
  <2>2. handler[h].pc = "record" /\ inbox' = inbox /\ said' = said BY <1>13 DEF Record
  <2>. HIDE DEF pc, n
  <2>3. /\ \A g \in Handlers \ {h} : handler'[g] = handler[g]
        /\ handler'[h].event = handler[h].event
    BY <1>0, <2>1 DEF Handler
  <2>. QED BY <2>2, <2>3 DEF Onward
<1>14. CallFails(h) => Onward(h) BY <1>0, <1>1 DEF CallFails, Onward, Handler
<1>. QED BY <1>2, <1>3, <1>5, <1>6, <1>7, <1>8, <1>9, <1>10, <1>11, <1>12, <1>13, <1>14

\* On its way a handler changes nothing about who works on what.
LEMMA OnwardInOrder ==
  ASSUME TypeOK, Known, InOrder, setting' = setting, NEW h \in Handlers, Onward(h)
  PROVE  InOrder'
<1>. SUFFICES ASSUME setting.delivery = "queue" PROVE Alone' /\ Quiet' /\ Distinct'
  BY DEF InOrder
<1>1. Alone /\ Quiet /\ Distinct BY DEF InOrder
<1>2. \A g \in Handlers : handler'[g].event = handler[g].event BY DEF Onward
<1>3. Alone' BY <1>1, <1>2 DEF Alone, Onward
<1>4. \A g \in Handlers : handler'[g].event.kind = "none" /\ handler'[g].pc \in PresentingAt
        => handler[g].event.kind = "none" /\ handler[g].pc \in PresentingAt
  BY <1>2 DEF Known, Right, Onward
<1>5. Quiet' BY <1>1, <1>4 DEF Quiet, Onward
<1>6. Distinct' BY <1>1 DEF Distinct, Onward
<1>. QED BY <1>3, <1>5, <1>6

\* An event is taken while nobody works on one; on the DynamoDB board the sweep comes while
\* none waits.
LEMMA StartInOrder ==
  ASSUME TypeOK, Known, InOrder, setting' = setting, NEW h \in Handlers
  PROVE  /\ (\E e \in Deliverable : Take(h, e)) => InOrder'
         /\ Rewake(h) => InOrder'
<1>. SUFFICES ASSUME setting.delivery = "queue"
              PROVE  /\ (\E e \in Deliverable : Take(h, e)) => Alone' /\ Quiet' /\ Distinct'
                     /\ Rewake(h) => Alone' /\ Quiet' /\ Distinct'
  BY DEF InOrder
<1>0. /\ Alone /\ Quiet /\ Distinct /\ handler \in [Handlers -> Handler]
      /\ handler[h].pc = "idle" => handler[h].event = NoEvent
  BY DEF InOrder, TypeOK, Known, Right
<1>1. ASSUME NEW e \in Deliverable, Take(h, e) PROVE Alone' /\ Quiet' /\ Distinct'
  <2>1. /\ inbox # <<>> /\ e = inbox[1]
        /\ \A g \in Handlers : handler[g].event = NoEvent
    <3>1. 1 \in DOMAIN inbox => inbox # <<>> OBVIOUS
    <3>. QED BY <3>1 DEF Deliverable
  <2>2. e.kind # "none"
    <3>1. 1 \in DOMAIN inbox BY DEF Deliverable
    <3>. QED BY <2>1, <3>1 DEF Known, KnownEvent
  <2>3. /\ handler'[h].event = e /\ inbox' = inbox
        /\ \A g \in Handlers \ {h} : handler'[g] = handler[g]
    BY <1>0, <1>1 DEF Take, Idle
  <2>4. Alone' BY <2>1, <2>3 DEF Alone, NoEvent
  <2>5. Quiet' BY <1>0, <2>2, <2>3 DEF Quiet
  <2>. QED BY <1>0, <2>3, <2>4, <2>5 DEF Distinct
<1>2. ASSUME Rewake(h) PROVE Alone' /\ Quiet' /\ Distinct'
  <2>1. /\ handler'[h].event = NoEvent /\ handler[h].event = NoEvent
        /\ inbox' = inbox /\ (setting.board = "ddb" => inbox = <<>>)
        /\ \A g \in Handlers \ {h} : handler'[g] = handler[g]
    BY <1>0, <1>2 DEF Rewake, Idle
  <2>2. Alone' BY <1>0, <2>1 DEF Alone
  <2>3. Quiet' BY <2>1 DEF Quiet
  <2>. QED BY <1>0, <2>1, <2>2, <2>3 DEF Distinct
<1>. QED BY <1>1, <1>2

\* What is left of the queue when the i-th event is deleted.
LEMMA LeftOver ==
  ASSUME TypeOK, NEW i \in DOMAIN inbox, inbox' = Without(inbox, i)
  PROVE  \A j \in DOMAIN inbox' :
           \E p \in DOMAIN inbox : inbox'[j] = inbox[p] /\ p # i /\ p = (IF j < i THEN j ELSE j + 1)
<1>1. inbox \in Seq(Event) /\ Len(inbox) \in Nat BY DEF TypeOK
<1>2. inbox' \in Seq(Event) /\ Len(inbox') = Len(inbox) - 1 BY <1>1, WithoutType
<1>. SUFFICES ASSUME NEW j \in DOMAIN inbox'
              PROVE  \E p \in DOMAIN inbox :
                       inbox'[j] = inbox[p] /\ p # i /\ p = (IF j < i THEN j ELSE j + 1)
  OBVIOUS
<1>3. j \in 1..(Len(inbox) - 1) BY <1>2
<1>4. inbox'[j] = inbox[IF j < i THEN j ELSE j + 1] BY <1>1, <1>3, WithoutType
<1>5. (IF j < i THEN j ELSE j + 1) \in DOMAIN inbox /\ (IF j < i THEN j ELSE j + 1) # i
  BY <1>1, <1>3
<1>. QED BY <1>4, <1>5

\* A handler that ends or dies works on nothing any more.
LEMMA StopInOrder ==
  ASSUME TypeOK, Known, InOrder, setting' = setting, NEW h \in Handlers
  PROVE  End(h) \/ Crash(h) => InOrder'
<1>. SUFFICES ASSUME setting.delivery = "queue"
              PROVE  End(h) \/ Crash(h) => Alone' /\ Quiet' /\ Distinct'
  BY DEF InOrder
<1>0. Alone /\ Quiet /\ Distinct /\ handler \in [Handlers -> Handler]
  BY DEF InOrder, TypeOK
<1>1. ASSUME handler' = [handler EXCEPT ![h] = Idle]
      PROVE  /\ handler'[h].event.kind = "none" /\ handler'[h].pc \notin PresentingAt
             /\ \A g \in Handlers \ {h} : handler'[g] = handler[g]
  BY <1>0, <1>1 DEF Idle, NoEvent, PresentingAt
<1>2. ASSUME End(h) \/ Crash(h) PROVE Alone' /\ Quiet' /\ Distinct'
  <2>1. handler' = [handler EXCEPT ![h] = Idle] BY <1>2 DEF End, Crash
  <2>2. CASE inbox' = inbox
    <3>1. Alone' BY <1>0, <1>1, <2>1, <2>2 DEF Alone
    <3>2. Quiet' BY <1>0, <1>1, <2>1, <2>2 DEF Quiet
    <3>. QED BY <1>0, <2>2, <3>1, <3>2 DEF Distinct
  <2>3. ASSUME NEW i \in DOMAIN inbox, inbox[i] = handler[h].event, inbox' = Without(inbox, i)
        PROVE  Alone' /\ Quiet' /\ Distinct'
    <3>1. handler[h].event.kind # "none" BY <2>3 DEF Known, KnownEvent
    <3>2. inbox # <<>> /\ \A g \in Handlers \ {h} : handler[g].event.kind = "none"
      BY <1>0, <3>1 DEF Alone
    <3>3. \A g \in Handlers : handler'[g].event.kind = "none" BY <1>1, <2>1, <3>2
    <3>4. setting.board = "ddb" => \A g \in Handlers : handler'[g].pc \notin PresentingAt
      BY <1>0, <1>1, <2>1, <3>2 DEF Quiet
    <3>5. Alone' /\ Quiet' BY <3>3, <3>4 DEF Alone, Quiet
    <3>6. ASSUME NEW a \in DOMAIN inbox', NEW b \in DOMAIN inbox', inbox'[a].kind = "reject",
                 inbox'[b].kind = "reject", inbox'[a].n = inbox'[b].n
          PROVE  a = b
      <4>1. PICK p \in DOMAIN inbox : inbox'[a] = inbox[p] /\ p = (IF a < i THEN a ELSE a + 1)
        BY <2>3, LeftOver
      <4>2. PICK q \in DOMAIN inbox : inbox'[b] = inbox[q] /\ q = (IF b < i THEN b ELSE b + 1)
        BY <2>3, LeftOver
      <4>3. p = q BY <1>0, <3>6, <4>1, <4>2 DEF Distinct
      <4>4. a \in Int /\ b \in Int /\ i \in Int
        <5>1. inbox \in Seq(Event) BY DEF TypeOK
        <5>2. inbox' \in Seq(Event) BY <2>3, <5>1, WithoutType
        <5>. QED BY <5>1, <5>2
      <4>. QED BY <4>1, <4>2, <4>3, <4>4
    <3>. QED BY <3>5, <3>6 DEF Distinct
  <2>4. inbox' = inbox \/ Consume(h) BY <1>2 DEF End, Crash
  <2>. QED BY <2>2, <2>3, <2>4, ConsumeLeaves
<1>. QED BY <1>2

\* A decision goes to the end of the queue; its number is new.
LEMMA PersonInOrder ==
  ASSUME TypeOK, Known, InOrder, setting' = setting
  PROVE  /\ \A note \in Notes : Reject(note) => InOrder'
         /\ Approve \/ LookAgain \/ UpstreamDone \/ AppendNotification => InOrder'
<1>. SUFFICES ASSUME setting.delivery = "queue"
              PROVE  /\ \A note \in Notes : Reject(note) => Alone' /\ Quiet' /\ Distinct'
                     /\ Approve \/ LookAgain \/ UpstreamDone \/ AppendNotification
                          => Alone' /\ Quiet' /\ Distinct'
  BY DEF InOrder
<1>0. /\ Alone /\ Quiet /\ Distinct /\ inbox \in Seq(Event) /\ said \in Nat
      /\ \A i \in DOMAIN inbox : inbox[i].kind = "reject" => inbox[i].n # said + 1
  BY GateAssumption DEF InOrder, TypeOK, Known, KnownEvent
<1>1. ASSUME handler' = handler, inbox' = inbox PROVE Alone' /\ Quiet' /\ Distinct'
  BY <1>0, <1>1 DEF Alone, Quiet, Distinct
<1>2. ASSUME NEW e \in Event, inbox' = Append(inbox, e), handler' = handler,
             \A h \in Handlers : handler[h].event.kind = "none" => handler[h].pc \notin PresentingAt,
             e.kind = "reject" => e.n = said + 1
      PROVE  Alone' /\ Quiet' /\ Distinct'
  <2>1. /\ DOMAIN inbox' = 1..(Len(inbox) + 1) /\ Len(inbox) \in Nat /\ DOMAIN inbox = 1..Len(inbox)
        /\ \A i \in DOMAIN inbox : inbox'[i] = inbox[i]
        /\ inbox'[Len(inbox) + 1] = e
    BY <1>0, <1>2
  <2>2. inbox' # <<>> BY <2>1
  <2>3. inbox # <<>> => inbox'[1] = inbox[1] BY <1>0, <2>1
  <2>4. Alone' BY <1>0, <1>2, <2>2, <2>3 DEF Alone
  <2>5. Quiet' BY <1>2 DEF Quiet
  <2>6. ASSUME NEW a \in DOMAIN inbox', NEW b \in DOMAIN inbox', inbox'[a].kind = "reject",
               inbox'[b].kind = "reject", inbox'[a].n = inbox'[b].n
        PROVE  a = b
    <3>1. CASE a \in DOMAIN inbox /\ b \in DOMAIN inbox BY <1>0, <2>1, <2>6, <3>1 DEF Distinct
    <3>2. CASE a \notin DOMAIN inbox /\ b \notin DOMAIN inbox BY <2>1, <3>2
    <3>3. CASE a \in DOMAIN inbox /\ b \notin DOMAIN inbox
      <4>1. inbox'[b] = e /\ inbox'[a] = inbox[a] BY <2>1, <3>3
      <4>. QED BY <1>0, <1>2, <2>6, <3>3, <4>1
    <3>4. CASE a \notin DOMAIN inbox /\ b \in DOMAIN inbox
      <4>1. inbox'[a] = e /\ inbox'[b] = inbox[b] BY <2>1, <3>4
      <4>. QED BY <1>0, <1>2, <2>6, <3>4, <4>1
    <3>. QED BY <3>1, <3>2, <3>3, <3>4
  <2>. QED BY <2>4, <2>5, <2>6 DEF Distinct
<1>3. ASSUME NEW note \in Notes, Reject(note) PROVE Alone' /\ Quiet' /\ Distinct'
  <2>1. [kind |-> "reject", n |-> said + 1] \in Event BY <1>0 DEF Event
  <2>. QED BY <1>2, <1>3, <2>1 DEF Reject, Presenting
<1>4. ASSUME Approve PROVE Alone' /\ Quiet' /\ Distinct'
  <2>1. [kind |-> "approve", n |-> said + 1] \in Event BY <1>0 DEF Event
  <2>. QED BY <1>2, <1>4, <2>1 DEF Approve, Presenting
<1>5. ASSUME UpstreamDone PROVE Alone' /\ Quiet' /\ Distinct'
  <2>1. [kind |-> "ready", n |-> said] \in Event BY <1>0 DEF Event
  <2>2. \A h \in Handlers : handler[h].pc \notin PresentingAt
    BY <1>5 DEF UpstreamDone, PresentingAt
  <2>. QED BY <1>1, <1>2, <1>5, <2>1, <2>2 DEF UpstreamDone
<1>6. LookAgain \/ AppendNotification => Alone' /\ Quiet' /\ Distinct'
  BY <1>1 DEF LookAgain, AppendNotification
<1>. QED BY <1>3, <1>4, <1>5, <1>6

\* The queue hands out one event after the other, and each rejection from one place.
LEMMA OrderInductive ==
  /\ Init => InOrder
  /\ TypeOK /\ Known /\ InOrder /\ [Next]_vars => InOrder'
<1>1. Init => InOrder
  BY DEF Init, InOrder, Alone, Quiet, Distinct, Idle, NoEvent, PresentingAt
<1>2. ASSUME TypeOK, Known, InOrder, setting' = setting, NEW h \in Handlers,
             Work(h) \/ Rewake(h) \/ Crash(h) \/ CallFails(h)
      PROVE  InOrder'
  <2>1. \/ \E e \in Deliverable : Take(h, e)
        \/ Rewake(h) \/ End(h) \/ Crash(h) \/ Onward(h)
    BY <1>2, GoesOnward DEF Work
  <2>. QED BY <1>2, <2>1, StartInOrder, StopInOrder, OnwardInOrder
<1>3. InOrder /\ UNCHANGED vars => InOrder'
  BY DEF vars, InOrder, Alone, Quiet, Distinct
<1>. QED BY <1>1, <1>2, <1>3, PersonInOrder DEF Next

-------------------------------------------------------------------------------
(* The steps, as the guard and the cap see them *)

ClaimedAt == {"begin", "ackRead", "ackWrite", "decide", "authorize", "record", "reopen"}
HasLedgerAt == {"ackRead", "ackWrite", "decide", "authorize", "record"}

\* A presentation leads to the end or to an escalation and leaves the ledger alone.
LEMMA PresentShape ==
  ASSUME TypeOK, NEW h \in Handlers, Park(h) \/ AppendRead(h) \/ AppendWrite(h) \/ Mark(h)
  PROVE  /\ handler[h].pc \in PresentingAt
         /\ handler'[h].pc \in PresentingAt \cup {"end", "escalate"}
         /\ row'.ledger = row.ledger /\ UNCHANGED <<reworks, newRounds>>
<1>0. handler \in [Handlers -> Handler] /\ handler[h] \in Handler /\ row \in Row
      /\ AfterPresenting(h) \in {"end", "escalate"}
  BY DEF TypeOK, AfterPresenting
<1>1. \A pc : Goto(h, pc) => handler'[h].pc = pc BY <1>0 DEF Goto, Handler
<1>2. handler'[h].pc \in PresentingAt \cup {"end", "escalate"}
  BY <1>0, <1>1 DEF Park, AppendRead, AppendWrite, Mark, LostRace, PresentingAt, Handler
<1>3. handler[h].pc \in PresentingAt /\ UNCHANGED <<reworks, newRounds>>
  BY DEF Park, AppendRead, AppendWrite, Mark, PresentingAt
<1>4. Park(h) \/ AppendRead(h) => row' = row BY DEF Park, AppendRead
<1>5. Mark(h) => row'.ledger = row.ledger BY <1>0 DEF Mark, Row
<1>6. ASSUME AppendWrite(h) PROVE row'.ledger = row.ledger
  <2>. DEFINE list == handler[h].fresh.notifs
                        \cup {[id |-> posted + 1, review |-> TRUE, open |-> TRUE]}
              v == handler[h].fresh.version + 1
  <2>1. row' = row \/ row' = [row EXCEPT !.notifs = list, !.version = v]
    BY <1>6 DEF AppendWrite
  <2>. HIDE DEF list, v
  <2>. QED BY <1>0, <2>1 DEF Row
<1>. QED BY <1>2, <1>3, <1>4, <1>5, <1>6

\* The acknowledgement and the decision leave the row's ledger and the copy of it alone.
LEMMA AnswerShape ==
  ASSUME TypeOK, NEW h \in Handlers, AckRead(h) \/ AckWrite(h) \/ Decide(h)
  PROVE  /\ handler[h].pc \in HasLedgerAt /\ handler'[h].wf = handler[h].wf
         /\ row'.ledger = row.ledger /\ row'.state = row.state
         /\ UNCHANGED <<reworks, newRounds>>
<1>0. handler \in [Handlers -> Handler] /\ handler[h] \in Handler /\ row \in Row
  BY DEF TypeOK
<1>1. \A pc : Goto(h, pc) => handler'[h].wf = handler[h].wf BY <1>0 DEF Goto, Handler
<1>2. handler[h].pc \in HasLedgerAt /\ UNCHANGED <<reworks, newRounds>>
  BY DEF AckRead, AckWrite, Decide, HasLedgerAt
<1>3. handler'[h].wf = handler[h].wf
  BY <1>0, <1>1 DEF AckRead, AckWrite, Decide, LostRace, Handler
<1>4. AckRead(h) \/ Decide(h) => row' = row BY DEF AckRead, Decide
<1>5. ASSUME AckWrite(h) PROVE row'.ledger = row.ledger /\ row'.state = row.state
  <2>. DEFINE list == Acknowledged(handler[h].fresh.notifs)
              v == handler[h].fresh.version + 1
  <2>1. row' = row \/ row' = [row EXCEPT !.notifs = list, !.version = v]
    BY <1>5 DEF AckWrite
  <2>. HIDE DEF list, v
  <2>. QED BY <1>0, <2>1 DEF Row
<1>. QED BY <1>2, <1>3, <1>4, <1>5

\* The last write of an approval and of an escalation: neither touches what the cap counts.
LEMMA CloseShape ==
  ASSUME TypeOK, NEW h \in Handlers, MarkApproved(h) \/ Escalate(h)
  PROVE  /\ handler[h].pc # "guard" /\ handler'[h].pc = "end"
         /\ row'.ledger.rounds = row.ledger.rounds
         /\ row'.ledger.authorized = row.ledger.authorized
         /\ UNCHANGED <<reworks, newRounds>>
<1>0. handler \in [Handlers -> Handler] /\ handler[h] \in Handler /\ row \in Row
  BY DEF TypeOK
<1>1. \A pc : Goto(h, pc) => handler'[h].pc = pc BY <1>0 DEF Goto, Handler
<1>2. handler[h].pc # "guard" /\ handler'[h].pc = "end" /\ UNCHANGED <<reworks, newRounds>>
  BY <1>1 DEF MarkApproved, Escalate
<1>3. MarkApproved(h) => row' = row \/ row' = [row EXCEPT !.state = "approved"]
  BY DEF MarkApproved
<1>4. ASSUME Escalate(h)
      PROVE  /\ row'.ledger.rounds = row.ledger.rounds
             /\ row'.ledger.authorized = row.ledger.authorized
  <2>. DEFINE S == row.ledger.escalated \cup {handler[h].round}
  <2>1. row' = [row EXCEPT !.ledger.escalated = S] BY <1>4 DEF Escalate
  <2>. HIDE DEF S
  <2>. QED BY <1>0, <2>1 DEF Row, Ledger
<1>5. row' = row \/ row' = [row EXCEPT !.state = "approved"] => row'.ledger = row.ledger
  BY <1>0 DEF Row
<1>. QED BY <1>2, <1>3, <1>4, <1>5

\* Admitting and claiming a rejection.
LEMMA ClaimShape ==
  ASSUME TypeOK, NEW h \in Handlers, Guard(h) \/ ClaimRejection(h)
  PROVE  /\ handler'[h].pc \in {"claim", "begin", "end"}
         /\ row'.ledger = row.ledger /\ UNCHANGED <<reworks, newRounds>>
<1>0. handler \in [Handlers -> Handler] /\ handler[h] \in Handler /\ row \in Row
  BY DEF TypeOK
<1>1. \A pc : Goto(h, pc) => handler'[h].pc = pc BY <1>0 DEF Goto, Handler
<1>2. Ignore(h) => handler'[h].pc \in {"begin", "end"} BY <1>0, <1>1 DEF Ignore, Handler
<1>3. Guard(h) => handler'[h].pc \in {"claim", "begin", "end"} /\ row' = row
  BY <1>0, <1>1, <1>2 DEF Guard, Handler
<1>4. ClaimRejection(h) => handler'[h].pc \in {"begin", "end"} /\ (row' = row \/ row' = Claimed)
  BY <1>0, <1>2 DEF ClaimRejection, Handler
<1>5. row' = Claimed => row'.ledger = row.ledger BY <1>0 DEF Claimed, Row
<1>6. UNCHANGED <<reworks, newRounds>> BY DEF Guard, ClaimRejection
<1>. QED BY <1>3, <1>4, <1>5, <1>6

\* What is written to the ledger is not the gate's state.
LEMMA LedgerShape ==
  ASSUME TypeOK, NEW h \in Handlers, Begin(h) \/ Authorize(h) \/ Record(h)
  PROVE  /\ handler[h].pc \in ClaimedAt /\ handler[h].pc # "guard"
         /\ row'.state = row.state /\ reworks' = reworks
<1>0. row \in Row BY DEF TypeOK
<1>1. handler[h].pc \in ClaimedAt /\ handler[h].pc # "guard" /\ reworks' = reworks
  BY DEF Begin, Authorize, Record, ClaimedAt
<1>2. Begin(h) => row' = row BY DEF Begin
<1>3. ASSUME Authorize(h) PROVE row'.state = row.state
  <2>. DEFINE S == row.ledger.authorized \cup {Max(OpenEscalations(handler[h].wf.ledger))}
  <2>1. row' = [row EXCEPT !.ledger.authorized = S] BY <1>3 DEF Authorize
  <2>. HIDE DEF S
  <2>. QED BY <1>0, <2>1 DEF Row
<1>4. ASSUME Record(h) PROVE row'.state = row.state
  <2>. DEFINE l == WithRound(row.ledger, handler[h].wf.ledger, handler[h].note)
  <2>1. row' = row \/ row' = [row EXCEPT !.ledger = l] BY <1>4 DEF Record
  <2>. HIDE DEF l
  <2>. QED BY <1>0, <2>1 DEF Row
<1>. QED BY <1>1, <1>2, <1>3, <1>4

\* A handler that starts with the sweep, ends or dies has no event.
LEMMA IdleShape ==
  ASSUME TypeOK, NEW h \in Handlers, Rewake(h) \/ End(h) \/ Crash(h)
  PROVE  /\ UNCHANGED <<row, said, reworks, newRounds>>
         /\ \A g \in Handlers \ {h} : handler'[g] = handler[g]
         /\ handler'[h].event.kind = "none"
         /\ inbox' = inbox \/ Consume(h)
<1>0. handler \in [Handlers -> Handler] BY DEF TypeOK
<1>1. Rewake(h) => /\ \A g \in Handlers \ {h} : handler'[g] = handler[g]
                   /\ handler'[h].event.kind = "none"
  BY <1>0 DEF Rewake, Idle, NoEvent
<1>2. End(h) \/ Crash(h) => /\ \A g \in Handlers \ {h} : handler'[g] = handler[g]
                            /\ handler'[h].event.kind = "none"
  BY <1>0 DEF End, Crash, Idle, NoEvent
<1>3. UNCHANGED <<row, said, reworks, newRounds>> /\ (inbox' = inbox \/ Consume(h))
  BY DEF Rewake, End, Crash
<1>. QED BY <1>1, <1>2, <1>3

\* The person, the agent and other writers leave the gate's ledger and state alone.
LEMMA PersonShape ==
  ASSUME TypeOK,
         \/ \E note \in Notes : Reject(note)
         \/ Approve \/ LookAgain \/ UpstreamDone \/ AppendNotification
  PROVE  /\ UNCHANGED <<handler, reworks, newRounds>>
         /\ row'.state = row.state /\ row'.ledger = row.ledger
<1>0. row \in Row BY DEF TypeOK
<1>1. UNCHANGED <<handler, reworks, newRounds>>
  BY DEF Reject, Approve, LookAgain, UpstreamDone, AppendNotification
<1>2. (\E note \in Notes : Reject(note)) \/ Approve \/ LookAgain \/ UpstreamDone => row' = row
  BY DEF Reject, Approve, LookAgain, UpstreamDone
<1>3. ASSUME AppendNotification PROVE row'.state = row.state /\ row'.ledger = row.ledger
  <2>. DEFINE list == row.notifs \cup {[id |-> posted + 1, review |-> FALSE, open |-> TRUE]}
              v == row.version + 1
  <2>1. row' = [row EXCEPT !.notifs = list, !.version = v] BY <1>3 DEF AppendNotification
  <2>. HIDE DEF list, v
  <2>. QED BY <1>0, <2>1 DEF Row
<1>. QED BY <1>1, <1>2, <1>3

\* No step takes an error back.
LEMMA ErrorsStay == TypeOK /\ [Next]_vars => budget.errors <= budget'.errors /\ setting' = setting
<1>. SUFFICES ASSUME TypeOK, [Next]_vars
              PROVE  budget.errors <= budget'.errors /\ setting' = setting
  OBVIOUS
<1>1. /\ budget \in [looks : Nat, others : 0..MaxOthers, crashes : Nat, errors : Nat]
      /\ setting' = setting
  BY DEF TypeOK, Next, vars
<1>2. \/ budget' = budget \/ budget' = [budget EXCEPT !.errors = @ + 1]
      \/ budget' = [budget EXCEPT !.looks = @ + 1] \/ budget' = [budget EXCEPT !.crashes = @ + 1]
      \/ budget' = [budget EXCEPT !.others = @ + 1]
  <2>1. ASSUME NEW h \in Handlers, Work(h)
        PROVE  budget' = budget \/ budget' = [budget EXCEPT !.errors = @ + 1]
    <3>1. (\E e \in Deliverable : Take(h, e)) \/ Park(h) \/ AppendRead(h) \/ AppendWrite(h)
            \/ Mark(h) \/ AckRead(h) \/ AckWrite(h) \/ MarkApproved(h) => budget' = budget
      BY DEF Take, Park, AppendRead, AppendWrite, Mark, AckRead, AckWrite, MarkApproved
    <3>2. ClaimRejection(h) \/ Begin(h) \/ Decide(h) \/ Authorize(h) \/ Escalate(h) \/ End(h)
            => budget' = budget
      BY DEF ClaimRejection, Begin, Decide, Authorize, Escalate, End
    <3>3. Guard(h) \/ Record(h) \/ Reopen(h)
            => budget' = budget \/ budget' = [budget EXCEPT !.errors = @ + 1]
      BY DEF Guard, Record, Reopen
    <3>. QED BY <2>1, <3>1, <3>2, <3>3 DEF Work
  <2>2. \A h \in Handlers : Rewake(h) => budget' = budget BY DEF Rewake
  <2>3. \A h \in Handlers : Crash(h) => budget' = [budget EXCEPT !.crashes = @ + 1] BY DEF Crash
  <2>4. \A h \in Handlers : CallFails(h) => budget' = [budget EXCEPT !.errors = @ + 1]
    BY DEF CallFails
  <2>5. (\E note \in Notes : Reject(note)) \/ Approve \/ UpstreamDone => budget' = budget
    BY DEF Reject, Approve, UpstreamDone
  <2>6. LookAgain => budget' = [budget EXCEPT !.looks = @ + 1] BY DEF LookAgain
  <2>7. AppendNotification => budget' = [budget EXCEPT !.others = @ + 1] BY DEF AppendNotification
  <2>8. UNCHANGED vars => budget' = budget BY DEF vars
  <2>. QED BY <2>1, <2>2, <2>3, <2>4, <2>5, <2>6, <2>7, <2>8 DEF Next
<1>. QED BY <1>1, <1>2

\* A step on which a call fails leaves no run without errors.
LEMMA ErrorCounts ==
  TypeOK /\ budget' = [budget EXCEPT !.errors = @ + 1] => budget'.errors # 0
<1>1. TypeOK => budget \in [looks : Nat, others : 0..MaxOthers, crashes : Nat, errors : Nat]
  BY DEF TypeOK
<1>. QED BY <1>1

-------------------------------------------------------------------------------
(* The guard *)

\* A rejection that is being handled has not been reworked; from its claim to its rework
\* the gate stays rejected.
Claims(r, works, state) ==
  r.event.kind = "reject" =>
    /\ r.pc \notin {"guard", "end"} => works[r.event.n] = 0
    /\ r.pc \in ClaimedAt => state = "rejected"

\* A rejection that has been reworked has been made, and where it is still delivered, it is
\* the first of the queue and the gate is still rejected.
Over(n) ==
  reworks[n] # 0 =>
    /\ reworks[n] = 1 /\ n <= said
    /\ \A i \in DOMAIN inbox :
         inbox[i].kind = "reject" /\ inbox[i].n = n => i = 1 /\ row.state = "rejected"

GuardHolds ==
  Guarded => /\ \A h \in Handlers : Claims(handler[h], reworks, row.state)
             /\ \A n \in 1..MaxDecisions : Over(n)

\* A handler on its way works alone, and on no rejection that has been reworked.
LEMMA Sole ==
  ASSUME TypeOK, Known, InOrder, GuardHolds, Guarded, NEW h \in Handlers,
         handler[h].pc \notin {"idle", "end"}
  PROVE  /\ \A g \in Handlers \ {h} : handler[g].event.kind = "none"
         /\ handler[h].pc # "guard" =>
              \A n \in 1..MaxDecisions : reworks[n] # 0 =>
                \A i \in DOMAIN inbox : ~(inbox[i].kind = "reject" /\ inbox[i].n = n)
         /\ handler[h].event.kind = "reject" =>
              /\ inbox # <<>> /\ inbox[1] = handler[h].event
              /\ handler[h].event.n \in 1..MaxDecisions /\ handler[h].event.n <= said
              /\ reworks[handler[h].event.n] # 0 => row.state = "rejected"
<1>0. /\ Alone /\ Quiet /\ Distinct /\ inbox \in Seq(Event) /\ setting.board = "ddb"
      /\ Claims(handler[h], reworks, row.state)
      /\ \A n \in 1..MaxDecisions : Over(n)
      /\ Right(handler[h], said, Len(row.ledger.rounds))
      /\ said \in 0..MaxDecisions /\ MaxDecisions \in Nat
  BY GateAssumption DEF InOrder, Guarded, GuardHolds, Known, TypeOK
<1>1. CASE handler[h].event.kind = "none"
  <2>1. inbox = <<>> BY <1>0, <1>1 DEF Right, Quiet
  <2>2. \A g \in Handlers : handler[g].event.kind = "none" BY <1>0, <2>1 DEF Alone
  <2>. QED BY <1>1, <2>1, <2>2
<1>2. CASE handler[h].event.kind # "none"
  <2>1. /\ inbox # <<>> /\ handler[h].event = inbox[1]
        /\ \A g \in Handlers \ {h} : handler[g].event.kind = "none"
    BY <1>0, <1>2 DEF Alone
  <2>2. 1 \in DOMAIN inbox BY <1>0, <2>1
  <2>3. ASSUME NEW n \in 1..MaxDecisions, reworks[n] # 0, NEW i \in DOMAIN inbox,
               inbox[i].kind = "reject", inbox[i].n = n, handler[h].pc # "guard"
        PROVE  FALSE
    <3>1. i = 1 BY <1>0, <2>3 DEF Over
    <3>2. handler[h].event.kind = "reject" /\ handler[h].event.n = n BY <2>1, <2>3, <3>1
    <3>. QED BY <1>0, <2>3, <3>2 DEF Claims
  <2>4. ASSUME handler[h].event.kind = "reject"
        PROVE  /\ handler[h].event.n \in 1..MaxDecisions /\ handler[h].event.n <= said
               /\ reworks[handler[h].event.n] # 0 => row.state = "rejected"
    <3>1. handler[h].event.n \in 1..said BY <1>0, <2>4 DEF Right
    <3>2. handler[h].event.n \in 1..MaxDecisions /\ handler[h].event.n <= said BY <1>0, <3>1
    <3>. QED BY <1>0, <2>1, <2>2, <2>4, <3>2 DEF Over
  <2>. QED BY <2>1, <2>3, <2>4
<1>. QED BY <1>1, <1>2

\* What a handler's own record has to say, once it is known to be alone.
LEMMA SoleClaims ==
  ASSUME TypeOK, Known, InOrder, GuardHolds, Guarded, NEW h \in Handlers, Onward(h),
         Claims(handler'[h], reworks', row'.state)
  PROVE  \A g \in Handlers : Claims(handler'[g], reworks', row'.state)
<1>1. \A g \in Handlers \ {h} : handler'[g].event.kind = "none" BY Sole DEF Onward
<1>. QED BY <1>1 DEF Claims

\* A step on which no rejection is reworked.
LEMMA CalmStep ==
  ASSUME TypeOK, Known, InOrder, GuardHolds, Guarded, NEW h \in Handlers, Onward(h),
         reworks' = reworks, handler[h].pc # "guard" \/ row'.state = row.state,
         Claims(handler'[h], reworks, row'.state)
  PROVE  GuardHolds'
<1>1. \A g \in Handlers : Claims(handler'[g], reworks', row'.state)
  BY SoleClaims
<1>2. ASSUME NEW n \in 1..MaxDecisions PROVE Over(n)'
  <2>1. Over(n) BY DEF GuardHolds
  <2>2. CASE handler[h].pc = "guard" BY <2>1, <2>2 DEF Over, Onward
  <2>3. CASE handler[h].pc # "guard"
    <3>1. reworks[n] # 0 =>
            \A i \in DOMAIN inbox : ~(inbox[i].kind = "reject" /\ inbox[i].n = n)
      BY <2>3, Sole DEF Onward
    <3>. QED BY <2>1, <3>1 DEF Over, Onward
  <2>. QED BY <2>2, <2>3
<1>. QED BY <1>1, <1>2 DEF GuardHolds

\* Where a step of the code leads.
LEMMA Claimless ==
  ASSUME TypeOK, GuardHolds, Guarded, NEW h \in Handlers, Onward(h)
  PROVE  /\ handler[h].pc # "guard" /\ handler'[h].pc \notin ClaimedAt =>
              \A s : Claims(handler'[h], reworks, s)
         /\ handler'[h].pc = "end" => \A s : Claims(handler'[h], reworks, s)
         /\ handler[h].pc \in ClaimedAt => Claims(handler'[h], reworks, row.state)
<1>1. Claims(handler[h], reworks, row.state) BY DEF GuardHolds
<1>. QED BY <1>1 DEF Claims, Onward, ClaimedAt

\* The presentation of the gate, and what follows the claim of a rejection.
LEMMA CalmGuard ==
  ASSUME TypeOK, Known, InOrder, GuardHolds, Guarded, NEW h \in Handlers
  PROVE  /\ Park(h) \/ AppendRead(h) \/ AppendWrite(h) \/ Mark(h) => GuardHolds'
         /\ AckRead(h) \/ AckWrite(h) \/ Decide(h) => GuardHolds'
         /\ Begin(h) \/ Authorize(h) \/ Record(h) => GuardHolds'
         /\ MarkApproved(h) \/ Escalate(h) => GuardHolds'
<1>1. ASSUME Park(h) \/ AppendRead(h) \/ AppendWrite(h) \/ Mark(h) PROVE GuardHolds'
  <2>1. Onward(h) BY <1>1, GoesOnward
  <2>2. handler[h].pc # "guard" /\ handler'[h].pc \notin ClaimedAt /\ reworks' = reworks
    BY <1>1, PresentShape DEF PresentingAt, ClaimedAt
  <2>3. Claims(handler'[h], reworks, row'.state) BY <2>1, <2>2, Claimless
  <2>. QED BY <2>1, <2>2, <2>3, CalmStep
<1>2. ASSUME \/ AckRead(h) \/ AckWrite(h) \/ Decide(h)
             \/ Begin(h) \/ Authorize(h) \/ Record(h)
      PROVE  GuardHolds'
  <2>1. Onward(h) BY <1>2, GoesOnward
  <2>2. handler[h].pc \in ClaimedAt /\ row'.state = row.state /\ reworks' = reworks
    BY <1>2, AnswerShape, LedgerShape DEF HasLedgerAt, ClaimedAt
  <2>3. Claims(handler'[h], reworks, row'.state) BY <2>1, <2>2, Claimless
  <2>. QED BY <2>1, <2>2, <2>3, CalmStep
<1>3. ASSUME MarkApproved(h) \/ Escalate(h) PROVE GuardHolds'
  <2>1. Onward(h) BY <1>3, GoesOnward
  <2>2. handler[h].pc # "guard" /\ handler'[h].pc = "end" /\ reworks' = reworks
    BY <1>3, CloseShape
  <2>3. Claims(handler'[h], reworks, row'.state) BY <2>1, <2>2, Claimless
  <2>. QED BY <2>1, <2>2, <2>3, CalmStep
<1>. QED BY <1>1, <1>2, <1>3

\* The guard admits no rejection that has been reworked, and claims the gate for it.
LEMMA ClaimGuard ==
  ASSUME TypeOK, Known, InOrder, GuardHolds, Guarded, Guarded', NEW h \in Handlers
  PROVE  Guard(h) \/ ClaimRejection(h) => GuardHolds'
<1>0. /\ handler \in [Handlers -> Handler] /\ handler[h] \in Handler /\ row \in Row
      /\ setting.guard = "enforce" /\ reworks \in [1..MaxDecisions -> Nat]
      /\ Claims(handler[h], reworks, row.state)
  BY DEF TypeOK, Guarded, GuardHolds
<1>1. \A pc : Goto(h, pc) => handler'[h].pc = pc BY <1>0 DEF Goto, Handler
<1>2. ASSUME Guard(h) PROVE GuardHolds'
  <2>1. Onward(h) BY <1>2, GoesOnward
  <2>2. handler[h].pc = "guard" /\ row' = row /\ reworks' = reworks
    BY <1>2 DEF Guard
  <2>3. CASE Answers(row) /\ handler' = [handler EXCEPT ![h].pc = "claim", ![h].wf = row]
    <3>1. handler'[h].pc = "claim" /\ handler'[h].event = handler[h].event
      BY <1>0, <2>3 DEF Handler
    <3>2. row.state # "rejected" BY <2>3 DEF Answers, GATE_STATES
    <3>3. handler[h].event.kind = "reject" => reworks[handler[h].event.n] = 0
      BY <2>2, <3>2, Sole
    <3>4. Claims(handler'[h], reworks, row'.state) BY <3>1, <3>3 DEF Claims, ClaimedAt
    <3>. QED BY <2>1, <2>2, <3>4, CalmStep
  <2>4. CASE Ignore(h)
    <3>1. handler'[h].pc = "end" BY <1>0, <1>1, <2>4 DEF Ignore
    <3>2. Claims(handler'[h], reworks, row'.state) BY <2>1, <3>1, Claimless
    <3>. QED BY <2>1, <2>2, <3>2, CalmStep
  <2>5. budget' # [budget EXCEPT !.errors = @ + 1] BY ErrorCounts DEF Guarded
  <2>. QED BY <1>2, <2>3, <2>4, <2>5 DEF Guard
<1>3. ASSUME ClaimRejection(h) PROVE GuardHolds'
  <2>1. Onward(h) BY <1>3, GoesOnward
  <2>2. handler[h].pc = "claim" /\ reworks' = reworks BY <1>3 DEF ClaimRejection
  <2>3. CASE row' = Claimed /\ handler' = [handler EXCEPT ![h].pc = "begin", ![h].wf = NewRow]
    <3>1. handler'[h].pc = "begin" /\ handler'[h].event = handler[h].event
      BY <1>0, <2>3 DEF Handler
    <3>2. row'.state = "rejected" BY <1>0, <2>3 DEF Claimed, Row
    <3>3. Claims(handler'[h], reworks, row'.state)
      BY <1>0, <2>2, <3>1, <3>2 DEF Claims, ClaimedAt
    <3>. QED BY <2>1, <2>2, <3>3, CalmStep
  <2>4. CASE Ignore(h) /\ row' = row
    <3>1. handler'[h].pc = "end" BY <1>0, <1>1, <2>4 DEF Ignore
    <3>2. Claims(handler'[h], reworks, row'.state) BY <2>1, <3>1, Claimless
    <3>. QED BY <2>1, <2>2, <2>4, <3>2, CalmStep
  <2>. QED BY <1>3, <2>3, <2>4 DEF ClaimRejection
<1>. QED BY <1>2, <1>3

\* The upstream is re-opened for a rejection that has not been reworked.
LEMMA ReopenGuard ==
  ASSUME TypeOK, Known, InOrder, GuardHolds, Guarded, Guarded', NEW h \in Handlers, Reopen(h)
  PROVE  GuardHolds'
<1>. DEFINE m == handler[h].event.n
<1>0. /\ handler \in [Handlers -> Handler] /\ handler[h] \in Handler /\ Onward(h)
      /\ Right(handler[h], said, Len(row.ledger.rounds))
      /\ Claims(handler[h], reworks, row.state)
      /\ reworks \in [1..MaxDecisions -> Nat] /\ inbox \in Seq(Event) /\ Distinct
  BY GoesOnward DEF TypeOK, Known, GuardHolds, InOrder, Guarded
<1>1. /\ handler[h].pc = "reopen" /\ handler'[h].pc = "end" /\ row' = row
      /\ reworks' = [reworks EXCEPT ![m] = @ + 1]
  <2>1. budget' # [budget EXCEPT !.errors = @ + 1] BY ErrorCounts DEF Guarded
  <2>. QED BY <1>0, <2>1 DEF Reopen, Goto, Handler
<1>2. handler[h].event.kind = "reject" BY <1>0, <1>1 DEF Right, RejectingAt
<1>3. /\ inbox # <<>> /\ inbox[1] = handler[h].event /\ m \in 1..MaxDecisions /\ m <= said
      /\ reworks[m] = 0 /\ row.state = "rejected"
  BY <1>0, <1>1, <1>2, Sole DEF Claims, ClaimedAt
<1>4. Claims(handler'[h], reworks', row'.state) BY <1>1 DEF Claims, ClaimedAt
<1>5. \A g \in Handlers : Claims(handler'[g], reworks', row'.state)
  BY <1>0, <1>4, SoleClaims
<1>6. ASSUME NEW n \in 1..MaxDecisions PROVE Over(n)'
  <2>1. CASE n = m
    <3>1. reworks'[n] = 1 BY <1>0, <1>1, <1>3, <2>1
    <3>2. 1 \in DOMAIN inbox BY <1>0, <1>3
    <3>3. \A i \in DOMAIN inbox : inbox[i].kind = "reject" /\ inbox[i].n = n => i = 1
      BY <1>0, <1>2, <1>3, <2>1, <3>2 DEF Distinct
    <3>. QED BY <1>0, <1>1, <1>3, <2>1, <3>1, <3>3 DEF Over, Onward
  <2>2. CASE n # m
    <3>1. reworks'[n] = reworks[n] BY <1>0, <1>1, <2>2
    <3>. QED BY <1>0, <1>1, <3>1 DEF GuardHolds, Over, Onward
  <2>. QED BY <2>1, <2>2
<1>. QED BY <1>5, <1>6 DEF GuardHolds

\* An event is taken at its start, and dropped at its end.
LEMMA StartStopGuard ==
  ASSUME TypeOK, Known, InOrder, GuardHolds, Guarded, NEW h \in Handlers
  PROVE  /\ (\E e \in Deliverable : Take(h, e)) => GuardHolds'
         /\ Rewake(h) \/ End(h) \/ Crash(h) => GuardHolds'
<1>0. /\ handler \in [Handlers -> Handler] /\ Alone /\ Distinct /\ inbox \in Seq(Event)
      /\ setting.guard = "enforce"
      /\ \A g \in Handlers : Claims(handler[g], reworks, row.state)
      /\ \A n \in 1..MaxDecisions : Over(n)
  BY DEF TypeOK, InOrder, Guarded, GuardHolds
<1>1. ASSUME UNCHANGED <<row, said, reworks>>,
             \A g \in Handlers \ {h} : handler'[g] = handler[g],
             Claims(handler'[h], reworks, row.state),
             \A n \in 1..MaxDecisions : Over(n)'
      PROVE  GuardHolds'
  BY <1>0, <1>1 DEF GuardHolds
<1>2. inbox' = inbox /\ UNCHANGED <<row, said, reworks>> => \A n \in 1..MaxDecisions : Over(n)'
  BY <1>0 DEF Over
<1>3. ASSUME NEW e \in Deliverable, Take(h, e) PROVE GuardHolds'
  <2>1. KnownEvent(e, said, gate.note) /\ e \in Event
    <3>1. PICK i \in DOMAIN inbox : e = inbox[i] BY DEF Deliverable
    <3>. QED BY <1>0, <3>1 DEF Known
  <2>2. handler'[h].pc = FirstStep(e.kind) /\ handler'[h].event = e
    BY <1>0, <1>3 DEF Take, Idle
  <2>3. e.kind = "reject" => handler'[h].pc = "guard" BY <1>0, <2>2 DEF FirstStep
  <2>4. Claims(handler'[h], reworks, row.state)
    BY <2>2, <2>3 DEF Claims, ClaimedAt
  <2>5. UNCHANGED <<row, said, reworks, inbox>>
        /\ \A g \in Handlers \ {h} : handler'[g] = handler[g]
    BY <1>0, <1>3 DEF Take
  <2>. QED BY <1>1, <1>2, <2>4, <2>5
<1>4. ASSUME Rewake(h) \/ End(h) \/ Crash(h) PROVE GuardHolds'
  <2>1. /\ UNCHANGED <<row, said, reworks>>
        /\ \A g \in Handlers \ {h} : handler'[g] = handler[g]
        /\ handler'[h].event.kind = "none"
        /\ inbox' = inbox \/ Consume(h)
    BY <1>4, IdleShape
  <2>2. Claims(handler'[h], reworks, row.state) BY <2>1 DEF Claims
  <2>3. ASSUME NEW i \in DOMAIN inbox, inbox[i] = handler[h].event, inbox' = Without(inbox, i),
               NEW n \in 1..MaxDecisions, reworks[n] # 0, NEW j \in DOMAIN inbox',
               inbox'[j].kind = "reject", inbox'[j].n = n
        PROVE  FALSE
    <3>1. PICK p \in DOMAIN inbox : inbox'[j] = inbox[p] /\ p # i /\ p = (IF j < i THEN j ELSE j + 1)
      BY <2>3, LeftOver
    <3>2. p = 1 BY <1>0, <2>3, <3>1 DEF Over
    <3>3. handler[h].event.kind # "none" BY <2>3 DEF Known, KnownEvent
    <3>4. inbox[1] = inbox[i] /\ 1 \in DOMAIN inbox BY <1>0, <2>3, <3>1, <3>2, <3>3 DEF Alone
    <3>5. i = 1 BY <1>0, <2>3, <3>1, <3>2, <3>4 DEF Distinct
    <3>. QED BY <3>1, <3>2, <3>5
  <2>4. ASSUME NEW n \in 1..MaxDecisions, NEW i \in DOMAIN inbox, inbox[i] = handler[h].event,
               inbox' = Without(inbox, i)
        PROVE  Over(n)'
    BY <1>0, <2>1, <2>3, <2>4 DEF Over
  <2>5. inbox' = inbox \/ \E i \in DOMAIN inbox : inbox[i] = handler[h].event
                                                  /\ inbox' = Without(inbox, i)
    BY <2>1, ConsumeLeaves
  <2>. QED BY <1>1, <1>2, <2>1, <2>2, <2>4, <2>5
<1>. QED BY <1>3, <1>4

\* A new decision has not been reworked.
LEMMA PersonGuard ==
  ASSUME TypeOK, Known, GuardHolds, Guarded,
         \/ \E note \in Notes : Reject(note)
         \/ Approve \/ LookAgain \/ UpstreamDone \/ AppendNotification
  PROVE  GuardHolds'
<1>0. /\ inbox \in Seq(Event) /\ said \in Nat
      /\ \A g \in Handlers : Claims(handler[g], reworks, row.state)
      /\ \A n \in 1..MaxDecisions : Over(n)
      /\ UNCHANGED <<handler, reworks>> /\ row'.state = row.state
  BY GateAssumption, PersonShape DEF TypeOK, GuardHolds
<1>1. ASSUME NEW e \in Event, inbox' = Append(inbox, e), e.kind = "reject" => e.n = said + 1,
             said' \in {said, said + 1}, NEW n \in 1..MaxDecisions
      PROVE  Over(n)'
  <2>1. ASSUME reworks[n] # 0, NEW i \in DOMAIN inbox', inbox'[i].kind = "reject", inbox'[i].n = n
        PROVE  i = 1 /\ row.state = "rejected"
    <3>1. n <= said BY <1>0, <2>1 DEF Over
    <3>2. i \in DOMAIN inbox /\ inbox'[i] = inbox[i]
      <4>1. i \in DOMAIN inbox \/ inbox'[i] = e BY <1>0, <1>1
      <4>2. inbox'[i] # e BY <1>0, <1>1, <2>1, <3>1
      <4>. QED BY <1>0, <1>1, <4>1, <4>2
    <3>. QED BY <1>0, <2>1, <3>2 DEF Over
  <2>. QED BY <1>0, <1>1, <2>1 DEF Over
<1>2. UNCHANGED <<inbox, said>> => \A n \in 1..MaxDecisions : Over(n)'
  BY <1>0 DEF Over
<1>3. ASSUME NEW note \in Notes, Reject(note) PROVE \A n \in 1..MaxDecisions : Over(n)'
  <2>1. [kind |-> "reject", n |-> said + 1] \in Event BY <1>0 DEF Event
  <2>. QED BY <1>1, <1>3, <2>1 DEF Reject
<1>4. ASSUME Approve PROVE \A n \in 1..MaxDecisions : Over(n)'
  <2>1. [kind |-> "approve", n |-> said + 1] \in Event BY <1>0 DEF Event
  <2>. QED BY <1>1, <1>4, <2>1 DEF Approve
<1>5. ASSUME UpstreamDone PROVE \A n \in 1..MaxDecisions : Over(n)'
  <2>1. [kind |-> "ready", n |-> said] \in Event BY <1>0 DEF Event
  <2>. QED BY <1>1, <1>2, <1>5, <2>1 DEF UpstreamDone
<1>6. LookAgain \/ AppendNotification => \A n \in 1..MaxDecisions : Over(n)'
  BY <1>2 DEF LookAgain, AppendNotification
<1>7. \A n \in 1..MaxDecisions : Over(n)' BY <1>3, <1>4, <1>5, <1>6
<1>. QED BY <1>0, <1>7 DEF GuardHolds

\* Under the guard the upstream is re-opened once for a rejection.
LEMMA GuardInductive ==
  /\ Init => GuardHolds
  /\ TypeOK /\ Known /\ InOrder /\ GuardHolds /\ [Next]_vars => GuardHolds'
<1>1. ASSUME Init PROVE GuardHolds
  <2>1. \A h \in Handlers : Claims(handler[h], reworks, row.state)
    BY <1>1 DEF Init, Claims, Idle, NoEvent
  <2>2. \A n \in 1..MaxDecisions : Over(n) BY <1>1 DEF Init, Over
  <2>. QED BY <2>1, <2>2 DEF GuardHolds
<1>2. ASSUME TypeOK, Known, InOrder, GuardHolds, Guarded, Guarded', NEW h \in Handlers,
             Work(h) \/ Rewake(h) \/ Crash(h)
      PROVE  GuardHolds'
  <2>1. /\ Park(h) \/ AppendRead(h) \/ AppendWrite(h) \/ Mark(h) => GuardHolds'
        /\ AckRead(h) \/ AckWrite(h) \/ Decide(h) => GuardHolds'
        /\ Begin(h) \/ Authorize(h) \/ Record(h) => GuardHolds'
        /\ MarkApproved(h) \/ Escalate(h) => GuardHolds'
    BY <1>2, CalmGuard
  <2>2. Guard(h) \/ ClaimRejection(h) => GuardHolds' BY <1>2, ClaimGuard
  <2>3. Reopen(h) => GuardHolds' BY <1>2, ReopenGuard
  <2>4. (\E e \in Deliverable : Take(h, e)) \/ End(h) \/ Rewake(h) \/ Crash(h) => GuardHolds'
    BY <1>2, StartStopGuard
  <2>. QED BY <1>2, <2>1, <2>2, <2>3, <2>4 DEF Work
<1>3. ASSUME TypeOK, Guarded', NEW h \in Handlers, CallFails(h) PROVE FALSE
  BY <1>3, ErrorCounts DEF CallFails, Guarded
<1>4. ASSUME GuardHolds, UNCHANGED vars PROVE GuardHolds'
  BY <1>4 DEF vars, GuardHolds, Guarded, Claims, Over
<1>5. ASSUME TypeOK, Known, InOrder, GuardHolds, [Next]_vars PROVE GuardHolds'
  <2>1. CASE ~Guarded' BY <2>1 DEF GuardHolds
  <2>2. CASE Guarded'
    <3>1. budget \in [looks : Nat, others : 0..MaxOthers, crashes : Nat, errors : Nat]
      BY <1>5 DEF TypeOK
    <3>2. Guarded BY <1>5, <2>2, <3>1, ErrorsStay DEF Guarded
    <3>. QED BY <1>2, <1>3, <1>4, <1>5, <2>2, <3>2, PersonGuard DEF Next
  <2>. QED BY <2>1, <2>2
<1>. QED BY <1>1, <1>5

\* On a DynamoDB board under the guard one rejection re-opens the upstream at most once,
\* however often it is delivered and whichever handlers die on the way
\* (index.mjs:1889-1895).
THEOREM ReworkCorrect == Spec => []ReworkedOnce
<1>1. TypeOK /\ GuardHolds => ReworkedOnce BY DEF TypeOK, GuardHolds, Over, ReworkedOnce
<1>. QED BY <1>1, TypesInductive, OrderInductive, GuardInductive, PTL DEF Spec

-------------------------------------------------------------------------------
(* The cap *)

\* The rounds that count are finitely many, and below the cap fewer than it allows.
LEMMA CountedFinite ==
  ASSUME NEW l \in Ledger
  PROVE  /\ IsFiniteSet(Counted(l)) /\ Cardinality(Counted(l)) \in Nat
         /\ ~CapReached(l) => Cardinality(Counted(l)) < MaxRounds
<1>1. Len(l.rounds) \in Nat BY DEF Ledger
<1>2. IsFiniteSet(1..Len(l.rounds)) BY <1>1, FS_Interval
<1>3. IsFiniteSet(Counted(l)) /\ Cardinality(Counted(l)) \in Nat
  BY <1>2, FS_Subset, FS_CardinalityType DEF Counted
<1>. DEFINE R == {i \in Counted(l) : l.rounds[i].regression}
<1>4. Cardinality(R) \in Nat BY <1>3, FS_Subset, FS_CardinalityType
<1>5. Effective(l) = Cardinality(Counted(l)) + Cardinality(R) BY DEF Effective
<1>. HIDE DEF R
<1>6. ~CapReached(l) => Effective(l) < MaxRounds
  BY <1>3, <1>4, <1>5, MaxRoundsAssumption DEF CapReached
<1>. QED BY <1>3, <1>4, <1>5, <1>6, MaxRoundsAssumption

\* A rejection recorded from the row's own rounds adds one to those that count, a repeated
\* one adds none.
LEMMA RoundCounts ==
  ASSUME NEW l \in Ledger, NEW seen \in Ledger, NEW note \in Notes, Bounded(l),
         seen.rounds = l.rounds
  PROVE  Cardinality(Counted(WithRound(l, seen, note)))
           = Cardinality(Counted(l)) + (IF SameRound(seen, note) THEN 0 ELSE 1)
<1>. DEFINE new == WithRound(l, seen, note)
            k == RoundOf(seen, note)
<1>1. Len(l.rounds) \in Nat /\ Len(seen.rounds) <= Len(l.rounds)
  BY DEF Ledger
<1>2. /\ new.authorized = l.authorized
      /\ Len(new.rounds) = IF k <= Len(l.rounds) THEN Len(l.rounds) ELSE Len(l.rounds) + 1
  BY <1>1, RoundWritten
<1>. HIDE DEF new
<1>3. CASE SameRound(seen, note)
  <2>1. k = Len(l.rounds) BY <1>3 DEF RoundOf
  <2>2. Counted(new) = Counted(l) BY <1>1, <1>2, <2>1 DEF Counted
  <2>3. Cardinality(Counted(l)) \in Nat BY CountedFinite
  <2>. QED BY <1>3, <2>2, <2>3 DEF new
<1>4. CASE ~SameRound(seen, note)
  <2>1. k = Len(l.rounds) + 1 BY <1>4 DEF RoundOf
  <2>2. Len(new.rounds) = Len(l.rounds) + 1 BY <1>1, <1>2, <2>1
  <2>3. \A a \in l.authorized : a \in 1..Len(l.rounds) BY DEF Bounded
  <2>4. Counted(new) = Counted(l) \cup {Len(l.rounds) + 1}
    BY <1>1, <1>2, <2>2, <2>3 DEF Counted
  <2>5. Len(l.rounds) + 1 \notin Counted(l) BY <1>1 DEF Counted
  <2>6. IsFiniteSet(Counted(l)) BY CountedFinite
  <2>7. Cardinality(Counted(new)) = Cardinality(Counted(l)) + 1
    BY <2>4, <2>5, <2>6, FS_AddElement
  <2>. QED BY <1>4, <2>7 DEF new
<1>. QED BY <1>3, <1>4

\* While a rejection is on its way to the ledger, its copy of the rounds stays the row's.
Copies(r, rounds) ==
  r.event.kind = "reject" /\ r.pc \in HasLedgerAt => r.wf.ledger.rounds = rounds

\* Every new round that went to rework is among the rounds counted.
Capped == newRounds <= Cardinality(Counted(row.ledger)) /\ newRounds < MaxRounds

Counting == setting.delivery = "queue" /\ budget.errors = 0

CapHolds == Counting => /\ \A h \in Handlers : Copies(handler[h], row.ledger.rounds)
                        /\ Capped

\* A step that writes no round and authorizes none.
LEMMA CalmCap ==
  ASSUME CapHolds, Counting, newRounds' = newRounds,
         row'.ledger.rounds = row.ledger.rounds, row'.ledger.authorized = row.ledger.authorized,
         \A g \in Handlers : handler'[g] = handler[g] \/ Copies(handler'[g], row.ledger.rounds)
  PROVE  CapHolds'
<1>1. Counted(row.ledger)' = Counted(row.ledger) BY DEF Counted
<1>2. Capped' BY <1>1 DEF CapHolds, Capped
<1>. QED BY <1>2 DEF CapHolds

\* The steps of a handler that neither record nor authorize.
LEMMA OnwardCap ==
  ASSUME TypeOK, CapHolds, Counting, NEW h \in Handlers
  PROVE  /\ Park(h) \/ AppendRead(h) \/ AppendWrite(h) \/ Mark(h) => CapHolds'
         /\ AckRead(h) \/ AckWrite(h) \/ Decide(h) => CapHolds'
         /\ Guard(h) \/ ClaimRejection(h) \/ Begin(h) \/ Reopen(h) => CapHolds'
         /\ MarkApproved(h) \/ Escalate(h) => CapHolds'
<1>0. handler \in [Handlers -> Handler] /\ handler[h] \in Handler
      /\ Copies(handler[h], row.ledger.rounds)
  BY DEF TypeOK, CapHolds
<1>1. ASSUME Onward(h), handler'[h].pc \notin HasLedgerAt,
             row'.ledger.rounds = row.ledger.rounds,
             row'.ledger.authorized = row.ledger.authorized, newRounds' = newRounds
      PROVE  CapHolds'
  <2>1. Copies(handler'[h], row.ledger.rounds) BY <1>1 DEF Copies
  <2>. QED BY <1>1, <2>1, CalmCap DEF Onward
<1>2. Park(h) \/ AppendRead(h) \/ AppendWrite(h) \/ Mark(h) => CapHolds'
  BY <1>1, PresentShape, GoesOnward DEF PresentingAt, HasLedgerAt
<1>3. ASSUME AckRead(h) \/ AckWrite(h) \/ Decide(h) PROVE CapHolds'
  <2>1. Onward(h) BY <1>3, GoesOnward
  <2>2. /\ handler[h].pc \in HasLedgerAt /\ handler'[h].wf = handler[h].wf
        /\ row'.ledger = row.ledger /\ newRounds' = newRounds
    BY <1>3, AnswerShape
  <2>3. Copies(handler'[h], row.ledger.rounds) BY <1>0, <2>1, <2>2 DEF Copies, Onward
  <2>. QED BY <2>1, <2>2, <2>3, CalmCap DEF Onward
<1>4. Guard(h) \/ ClaimRejection(h) => CapHolds'
  BY <1>1, ClaimShape, GoesOnward DEF HasLedgerAt
<1>5. ASSUME Begin(h) PROVE CapHolds'
  <2>1. Onward(h) /\ row' = row /\ newRounds' = newRounds BY <1>5, GoesOnward DEF Begin
  <2>2. handler'[h].wf = row BY <1>0, <1>5 DEF Begin, Handler
  <2>3. Copies(handler'[h], row.ledger.rounds) BY <2>2 DEF Copies
  <2>. QED BY <2>1, <2>3, CalmCap DEF Onward
<1>6. ASSUME Reopen(h) PROVE CapHolds'
  <2>1. Onward(h) /\ row' = row /\ newRounds' = newRounds BY <1>6, GoesOnward DEF Reopen
  <2>2. handler'[h].pc = "end" BY <1>0, <1>6 DEF Reopen, Goto, Handler
  <2>. QED BY <1>1, <2>1, <2>2 DEF HasLedgerAt
<1>7. MarkApproved(h) \/ Escalate(h) => CapHolds'
  BY <1>1, CloseShape, GoesOnward DEF HasLedgerAt
<1>. QED BY <1>2, <1>3, <1>4, <1>5, <1>6, <1>7

\* An authorization starts the count again.
LEMMA AuthorizeCap ==
  ASSUME TypeOK, TypeOK', CapHolds, Counting, NEW h \in Handlers, Authorize(h)
  PROVE  CapHolds'
<1>0. /\ handler \in [Handlers -> Handler] /\ handler[h] \in Handler /\ row \in Row /\ row' \in Row
      /\ Onward(h) /\ \A g \in Handlers : Copies(handler[g], row.ledger.rounds)
  BY GoesOnward DEF TypeOK, CapHolds
<1>1. handler[h].pc = "authorize" /\ newRounds' = 0 /\ handler'[h].wf = handler[h].wf
  BY <1>0 DEF Authorize, Goto, Handler
<1>2. row'.ledger.rounds = row.ledger.rounds
  <2>. DEFINE S == row.ledger.authorized \cup {Max(OpenEscalations(handler[h].wf.ledger))}
  <2>1. row' = [row EXCEPT !.ledger.authorized = S] BY DEF Authorize
  <2>. HIDE DEF S
  <2>. QED BY <1>0, <2>1 DEF Row, Ledger
<1>3. \A g \in Handlers : Copies(handler'[g], row'.ledger.rounds)
  BY <1>0, <1>1, <1>2 DEF Copies, HasLedgerAt, Onward
<1>4. Capped'
  <2>1. row'.ledger \in Ledger BY <1>0 DEF Row
  <2>2. PICK l \in Ledger : l = row'.ledger BY <2>1
  <2>3. Cardinality(Counted(l)) \in Nat BY CountedFinite
  <2>4. Counted(row.ledger)' = Counted(l) BY <2>2 DEF Counted
  <2>. QED BY <1>1, <2>3, <2>4, MaxRoundsAssumption DEF Capped
<1>. QED BY <1>3, <1>4 DEF CapHolds

\* A recorded round is reworked only below the cap.
LEMMA RecordCap ==
  ASSUME TypeOK, Known, InOrder, CapHolds, Counting, Counting', NEW h \in Handlers, Record(h)
  PROVE  CapHolds'
<1>. DEFINE l == WithRound(row.ledger, handler[h].wf.ledger, handler[h].note)
            k == RoundOf(handler[h].wf.ledger, handler[h].note)
            n == IF CapReached(l) /\ OpenEscalations(l) = {} THEN k ELSE 0
            pc == AfterRound(l)
<1>0. /\ handler \in [Handlers -> Handler] /\ handler[h] \in Handler /\ row \in Row
      /\ Right(handler[h], said, Len(row.ledger.rounds)) /\ Onward(h) /\ Alone
      /\ Copies(handler[h], row.ledger.rounds)
      /\ row.ledger \in Ledger /\ handler[h].wf.ledger \in Ledger /\ Bounded(row.ledger)
      /\ newRounds \in Nat /\ Capped
  BY GoesOnward DEF TypeOK, Known, CapHolds, Counting, InOrder, Handler, Row
<1>1. /\ handler[h].event.kind = "reject" /\ handler[h].note \in Notes
      /\ handler[h].pc = "record"
  BY <1>0 DEF Record, Right, RejectingAt
<1>2. /\ row' = [row EXCEPT !.ledger = l]
      /\ handler' = [handler EXCEPT ![h].pc = pc, ![h].round = n, ![h].wf = NewRow]
      /\ newRounds' = IF CapReached(l) \/ SameRound(handler[h].wf.ledger, handler[h].note)
                      THEN newRounds ELSE newRounds + 1
  <2>1. budget' # [budget EXCEPT !.errors = @ + 1] BY ErrorCounts DEF Counting
  <2>. QED BY <2>1 DEF Record
<1>3. handler[h].wf.ledger.rounds = row.ledger.rounds
  BY <1>0, <1>1 DEF Copies, HasLedgerAt
<1>4. Len(row.ledger.rounds) \in Nat BY <1>0 DEF Ledger
<1>5. l \in Ledger BY <1>0, <1>1, <1>3, <1>4, RoundWritten
<1>6. row'.ledger = l
  <2>. HIDE DEF l
  <2>. QED BY <1>0, <1>2 DEF Row
<1>7. pc \in {"park", "reopen"} BY DEF AfterRound
<1>8. handler'[h].pc \in {"park", "reopen"}
  <2>. HIDE DEF pc, n
  <2>. QED BY <1>0, <1>2, <1>7 DEF Handler
<1>9. \A g \in Handlers \ {h} : handler'[g].event.kind = "none"
  BY <1>0, <1>1 DEF Alone, Onward
<1>10. \A g \in Handlers : Copies(handler'[g], row'.ledger.rounds)
  BY <1>8, <1>9 DEF Copies, HasLedgerAt
<1>11. Capped'
  <2>1. Cardinality(Counted(l)) = Cardinality(Counted(row.ledger))
          + (IF SameRound(handler[h].wf.ledger, handler[h].note) THEN 0 ELSE 1)
    BY <1>0, <1>1, <1>3, RoundCounts
  <2>2. Cardinality(Counted(row.ledger)) \in Nat BY <1>0, CountedFinite
  <2>3. Cardinality(Counted(l)) \in Nat /\ (~CapReached(l) => Cardinality(Counted(l)) < MaxRounds)
    BY <1>5, CountedFinite
  <2>. HIDE DEF l
  <2>4. Counted(row.ledger)' = Counted(l) BY <1>6 DEF Counted
  <2>5. newRounds <= Cardinality(Counted(row.ledger)) /\ newRounds < MaxRounds BY <1>0 DEF Capped
  <2>6. CASE CapReached(l) \/ SameRound(handler[h].wf.ledger, handler[h].note)
    <3>1. newRounds' = newRounds BY <1>2, <2>6
    <3>2. Cardinality(Counted(row.ledger)) <= Cardinality(Counted(l)) BY <2>1, <2>2
    <3>3. newRounds \in Nat BY <1>0
    <3>4. newRounds' <= Cardinality(Counted(l)) /\ newRounds' < MaxRounds
      BY <2>2, <2>3, <2>5, <3>1, <3>2, <3>3
    <3>. QED BY <2>4, <3>4 DEF Capped
  <2>7. CASE ~CapReached(l) /\ ~SameRound(handler[h].wf.ledger, handler[h].note)
    <3>1. newRounds' = newRounds + 1 BY <1>2, <2>7
    <3>2. Cardinality(Counted(l)) = Cardinality(Counted(row.ledger)) + 1 BY <2>1, <2>7
    <3>3. Cardinality(Counted(l)) < MaxRounds BY <2>3, <2>7
    <3>4. newRounds \in Nat BY <1>0
    <3>5. newRounds' <= Cardinality(Counted(l)) /\ newRounds' < MaxRounds
      BY <2>2, <2>3, <2>5, <3>1, <3>2, <3>3, <3>4, MaxRoundsAssumption
    <3>. QED BY <2>4, <3>5 DEF Capped
  <2>. QED BY <2>6, <2>7
<1>. QED BY <1>10, <1>11 DEF CapHolds

\* A handler that starts, ends or dies has no copy of the ledger.
LEMMA StartStopCap ==
  ASSUME TypeOK, Known, CapHolds, Counting, NEW h \in Handlers
  PROVE  /\ (\E e \in Deliverable : Take(h, e)) => CapHolds'
         /\ Rewake(h) \/ End(h) \/ Crash(h) => CapHolds'
<1>0. handler \in [Handlers -> Handler] /\ inbox \in Seq(Event) BY DEF TypeOK
<1>1. ASSUME NEW e \in Deliverable, Take(h, e) PROVE CapHolds'
  <2>1. KnownEvent(e, said, gate.note)
    <3>1. PICK i \in DOMAIN inbox : e = inbox[i] BY DEF Deliverable
    <3>. QED BY <1>0, <3>1 DEF Known
  <2>2. handler'[h].pc = FirstStep(e.kind) /\ handler'[h].event = e
    BY <1>0, <1>1 DEF Take, Idle
  <2>3. Copies(handler'[h], row.ledger.rounds)
    BY <2>1, <2>2 DEF Copies, FirstStep, HasLedgerAt
  <2>4. UNCHANGED <<row, newRounds>> /\ \A g \in Handlers \ {h} : handler'[g] = handler[g]
    BY <1>0, <1>1 DEF Take
  <2>. QED BY <2>3, <2>4, CalmCap
<1>2. ASSUME Rewake(h) \/ End(h) \/ Crash(h) PROVE CapHolds'
  <2>1. /\ UNCHANGED <<row, newRounds>> /\ \A g \in Handlers \ {h} : handler'[g] = handler[g]
        /\ handler'[h].event.kind = "none"
    BY <1>2, IdleShape
  <2>2. Copies(handler'[h], row.ledger.rounds) BY <2>1 DEF Copies
  <2>. QED BY <2>1, <2>2, CalmCap
<1>. QED BY <1>1, <1>2

\* Behind a queue and without errors of the ledger the cap counts every new round.
LEMMA CapInductive ==
  /\ Init => CapHolds
  /\ TypeOK /\ TypeOK' /\ Known /\ InOrder /\ CapHolds /\ [Next]_vars => CapHolds'
<1>1. ASSUME Init PROVE CapHolds
  <2>1. \A h \in Handlers : Copies(handler[h], row.ledger.rounds)
    BY <1>1 DEF Init, Copies, Idle, NoEvent
  <2>2. Capped
    <3>1. Unreviewed \in Ledger BY DEF Unreviewed, Ledger
    <3>2. Cardinality(Counted(Unreviewed)) \in Nat BY <3>1, CountedFinite
    <3>3. row.ledger = Unreviewed /\ newRounds = 0 BY <1>1 DEF Init, NewRow
    <3>. QED BY <3>2, <3>3, MaxRoundsAssumption DEF Capped
  <2>. QED BY <2>1, <2>2 DEF CapHolds
<1>2. ASSUME TypeOK, TypeOK', Known, InOrder, CapHolds, Counting, Counting', NEW h \in Handlers,
             Work(h) \/ Rewake(h) \/ Crash(h)
      PROVE  CapHolds'
  <2>1. /\ Park(h) \/ AppendRead(h) \/ AppendWrite(h) \/ Mark(h) => CapHolds'
        /\ AckRead(h) \/ AckWrite(h) \/ Decide(h) => CapHolds'
        /\ Guard(h) \/ ClaimRejection(h) \/ Begin(h) \/ Reopen(h) => CapHolds'
        /\ MarkApproved(h) \/ Escalate(h) => CapHolds'
    BY <1>2, OnwardCap
  <2>2. Authorize(h) => CapHolds' BY <1>2, AuthorizeCap
  <2>3. Record(h) => CapHolds' BY <1>2, RecordCap
  <2>4. (\E e \in Deliverable : Take(h, e)) \/ End(h) \/ Rewake(h) \/ Crash(h) => CapHolds'
    BY <1>2, StartStopCap
  <2>. QED BY <1>2, <2>1, <2>2, <2>3, <2>4 DEF Work
<1>3. ASSUME TypeOK, Counting', NEW h \in Handlers, CallFails(h) PROVE FALSE
  BY <1>3, ErrorCounts DEF CallFails, Counting
<1>4. ASSUME TypeOK, CapHolds, Counting,
             \/ \E note \in Notes : Reject(note)
             \/ Approve \/ LookAgain \/ UpstreamDone \/ AppendNotification
      PROVE  CapHolds'
  BY <1>4, PersonShape, CalmCap
<1>5. ASSUME CapHolds, Counting, UNCHANGED vars PROVE CapHolds'
  BY <1>5, CalmCap DEF vars
<1>6. ASSUME TypeOK, TypeOK', Known, InOrder, CapHolds, [Next]_vars PROVE CapHolds'
  <2>1. CASE ~Counting' BY <2>1 DEF CapHolds
  <2>2. CASE Counting'
    <3>1. budget \in [looks : Nat, others : 0..MaxOthers, crashes : Nat, errors : Nat]
      BY <1>6 DEF TypeOK
    <3>2. Counting BY <1>6, <2>2, <3>1, ErrorsStay DEF Counting
    <3>. QED BY <1>2, <1>3, <1>4, <1>5, <1>6, <2>2, <3>2 DEF Next
  <2>. QED BY <2>1, <2>2
<1>. QED BY <1>1, <1>6

\* Behind a queue fewer than MaxRounds new rounds go to rework between two authorizations
\* of the person, whatever the guard and the board (index.mjs:2035-2042).  A rejection that
\* repeats the feedback of the last round is no new round (review-cap.mjs:307-313).
THEOREM CapCorrect == Spec => []CapStopsNewRounds
<1>1. CapHolds => CapStopsNewRounds BY DEF CapHolds, Counting, Capped, CapStopsNewRounds
<1>. QED BY <1>1, TypesInductive, OrderInductive, CapInductive, PTL DEF Spec
=============================================================================
