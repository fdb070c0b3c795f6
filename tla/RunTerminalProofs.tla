-------------------------- MODULE RunTerminalProofs --------------------------
(***************************************************************************)
(* Proofs about RunTerminal, for any number of invocations and callers and *)
(* any limits.  The inductive invariant says what every party may conclude *)
(* from where it is: a completer in its side effects, that the run is      *)
(* complete; a party about to announce an outcome, that the row has it.    *)
(* Since a terminal phase never changes (PhaseStays), the steps of the     *)
(* other parties cannot disturb that.  A second invariant follows the      *)
(* clock and shows that side effects never overlap, and a third that the   *)
(* take-over is never granted unless the index has given an old row.       *)
(***************************************************************************)
EXTENDS RunTerminal, TLAPS

USE DEF Terminal, At, Goto, Leave, Mishap, RouteGoto, RouteLeave

\* The helpers return rows and leave the phase alone or set it.
LEMMA RowHelpers ==
    ASSUME row \in Row
    PROVE  /\ Finalized \in Row /\ Finalized.phase = row.phase
           /\ Finalized.cancelledAt = row.cancelledAt /\ Finalized.age = row.age
           /\ Finalized.finalizedAt = TRUE
           /\ Paged \in Row /\ Paged.phase = row.phase
           /\ Paged.cancelledAt = row.cancelledAt /\ Paged.age = row.age
           /\ Paged.finalizedAt = row.finalizedAt
BY DEF Row, Finalized, Paged

\* The closing write of an invocation.
LEMMA ClosedRow ==
    ASSUME row \in Row, NEW o \in TerminalPhases, NEW d \in 0..InvLimit
    PROVE  /\ Closed(o, d) \in Row
           /\ Closed(o, d).phase = o
           /\ Closed(o, d).cancelledAt = row.cancelledAt
           /\ Closed(o, d).finalizedAt = row.finalizedAt
           /\ Closed(o, d).age = d
<1>1. d \in 0..(StaleWindow + 1)
  BY TimeAssumption
<1>. QED BY <1>1 DEF Row, Closed

\* The closing write of the complete route.
LEMMA RouteClosedRow ==
    ASSUME row \in Row, NEW r \in Routes, route \in [Routes -> RouteCall],
           NEW o \in TerminalPhases, NEW d \in 0..InvLimit
    PROVE  /\ RouteClosed(r, o, d) \in Row
           /\ RouteClosed(r, o, d).phase = o
           /\ RouteClosed(r, o, d).cancelledAt = row.cancelledAt
           /\ RouteClosed(r, o, d).finalizedAt = row.finalizedAt
           /\ RouteClosed(r, o, d).age = d
<1>1. d \in 0..(StaleWindow + 1)
  BY TimeAssumption
<1>2. route[r].seen \in BOOLEAN
  BY DEF RouteCall
<1>. QED BY <1>1, <1>2 DEF Row, Closed, RouteClosed

\* The age of a closed run grows by one, up to where nobody tells it apart.
LEMMA TickedRow ==
    ASSUME row \in Row, Tick
    PROVE  /\ row' \in Row /\ row'.phase = row.phase
           /\ row'.cancelledAt = row.cancelledAt
           /\ row'.finalizedAt = row.finalizedAt
           /\ row'.age \in {row.age, row.age + 1}
<1>. DEFINE a == IF row.phase \in {"complete"} \cup ShipBlockedOutcomes
                    /\ row.age <= StaleWindow THEN row.age + 1 ELSE row.age
<1>1. row' = [row EXCEPT !.age = a]
  BY DEF Tick
<1>2. row.age \in 0..(StaleWindow + 1)
  BY DEF Row
<1>3. a \in 0..(StaleWindow + 1) /\ a \in {row.age, row.age + 1}
  BY <1>2, TimeAssumption
<1>. HIDE DEF a
<1>. QED BY <1>1, <1>3 DEF Row

\* A new value for one invocation keeps the type and leaves the others alone.
LEMMA InvUpdate ==
    ASSUME inv \in [Invs -> Invocation], NEW i \in Invs, NEW x \in Invocation,
           inv' = [inv EXCEPT ![i] = x]
    PROVE  /\ inv' \in [Invs -> Invocation]
           /\ inv'[i] = x
           /\ \A j \in Invs \ {i} : inv'[j] = inv[j]
OBVIOUS

\* The places of an invocation that the proofs send one to are among its steps.
LEMMA PlacesAreSteps ==
    /\ "probe" \in InvSteps /\ "block" \in InvSteps /\ "announce" \in InvSteps
    /\ "complete" \in InvSteps /\ "takeover" \in InvSteps
    /\ "deliver" \in InvSteps /\ "publish" \in InvSteps /\ "mark" \in InvSteps
BY DEF InvSteps, EffectSteps

\* Goto moves one invocation.
LEMMA GotoMoves ==
    ASSUME inv \in [Invs -> Invocation], NEW i \in Invs, NEW pc \in InvSteps, Goto(i, pc)
    PROVE  /\ inv' \in [Invs -> Invocation]
           /\ inv'[i].pc = pc
           /\ inv'[i].verdict = inv[i].verdict
           /\ inv'[i].snap = inv[i].snap
           /\ inv'[i].taker = inv[i].taker
           /\ \A j \in Invs \ {i} : inv'[j] = inv[j]
<1>. DEFINE x == [inv[i] EXCEPT !.pc = pc]
<1>1. inv' = [inv EXCEPT ![i] = x]
  OBVIOUS
<1>2. inv[i] \in Invocation
  OBVIOUS
<1>3. x \in Invocation /\ x.pc = pc /\ x.verdict = inv[i].verdict
        /\ x.snap = inv[i].snap /\ x.taker = inv[i].taker
  BY <1>2 DEF Invocation
<1>. HIDE DEF x
<1>. QED BY <1>1, <1>3

\* Leave ends one invocation.
LEMMA LeaveEnds ==
    ASSUME inv \in [Invs -> Invocation], NEW i \in Invs, Leave(i)
    PROVE  /\ inv' \in [Invs -> Invocation]
           /\ inv'[i] = Idle /\ inv'[i].pc = "idle"
           /\ \A j \in Invs \ {i} : inv'[j] = inv[j]
<1>1. Idle \in Invocation /\ Idle.pc = "idle"
  BY DEF Idle, Invocation, InvSteps, Verdicts
<1>. QED BY <1>1

\* RouteGoto moves one call of the route, RouteLeave ends it.
LEMMA RouteMoves ==
    ASSUME route \in [Routes -> RouteCall], NEW r \in Routes
    PROVE  /\ \A pc \in RouteSteps : RouteGoto(r, pc) =>
                 /\ route' \in [Routes -> RouteCall]
                 /\ route'[r].pc = pc
                 /\ route'[r].verdict = route[r].verdict
                 /\ \A j \in Routes \ {r} : route'[j] = route[j]
           /\ RouteLeave(r) =>
                 /\ route' \in [Routes -> RouteCall]
                 /\ route'[r].pc = "idle"
                 /\ \A j \in Routes \ {r} : route'[j] = route[j]
<1>1. Quiet \in RouteCall /\ Quiet.pc = "idle"
  BY DEF Quiet, RouteCall, RouteSteps, Verdicts
<1>2. ASSUME NEW pc \in RouteSteps, RouteGoto(r, pc)
      PROVE  /\ route' \in [Routes -> RouteCall]
             /\ route'[r].pc = pc
             /\ route'[r].verdict = route[r].verdict
             /\ \A j \in Routes \ {r} : route'[j] = route[j]
  <2>. DEFINE x == [route[r] EXCEPT !.pc = pc]
  <2>1. route' = [route EXCEPT ![r] = x]
    BY <1>2
  <2>2. route[r] \in RouteCall
    OBVIOUS
  <2>3. x \in RouteCall /\ x.pc = pc /\ x.verdict = route[r].verdict
    BY <2>2 DEF RouteCall
  <2>. HIDE DEF x
  <2>. QED BY <2>1, <2>3
<1>. QED BY <1>1, <1>2

-----------------------------------------------------------------------------
(************************* The inductive invariant *************************)

\* What an invocation may conclude from where it is.
InvOK(i) ==
    /\ inv[i].pc \in {"block", "announce"} => inv[i].verdict \in ShipBlockedOutcomes
    /\ inv[i].pc = "announce" => row.phase = inv[i].verdict
    /\ inv[i].pc \in EffectSteps => row.phase = "complete"

\* And a call of the complete route.
RouteOK(r) ==
    /\ route[r].pc \in {"block", "announce"} => route[r].verdict \in ShipBlockedOutcomes
    /\ route[r].pc = "announce" => row.phase = route[r].verdict
    /\ route[r].pc = "publish" => row.phase = "complete"

ToldOK == \A o \in told : Terminal(row.phase) /\ o = row.phase
CancelOK == cancel = "closeout" => row.phase = "cancelled"

IInv == /\ TypeOK
        /\ row.cancelledAt <=> row.phase = "cancelled"
        /\ ToldOK
        /\ CancelOK
        /\ \A i \in Invs : InvOK(i)
        /\ \A r \in Routes : RouteOK(r)

\* What a step may do to the row: nothing to the phase and the cancellation, or
\* a closing write on an open run.
RowKept == /\ row' \in Row
           /\ row'.phase = row.phase
           /\ row'.cancelledAt = row.cancelledAt
RowClosed == /\ row' \in Row
             /\ Open
             /\ row'.phase \in {"complete"} \cup ShipBlockedOutcomes
             /\ row'.cancelledAt = row.cancelledAt

\* And to what has been announced: nothing, or the outcome the row has.
Announced == /\ Terminal(row.phase)
             /\ row' = row
             /\ told' = told \cup {row.phase}

\* The rest of the state after a step of invocation i.
InvMoved(i) == /\ inv' \in [Invs -> Invocation]
               /\ \A j \in Invs \ {i} : inv'[j] = inv[j]
               /\ age' \in [Invs -> 0..InvLimit]
               /\ work' \subseteq Facts
               /\ epic' \in {"open", "Done"}
               /\ mishaps' \in 0..MaxMishaps
               /\ UNCHANGED <<route, cancel>>

\* A lost answer is no news about the row.
LEMMA LostAnswer ==
    ASSUME NEW guard \in BOOLEAN, NEW new, PerhapsWritten(guard, new)
    PROVE  row' = row \/ (guard /\ row' = new)
BY DEF PerhapsWritten

\* The closing writes that an invocation may try.
LEMMA ClosingWrite ==
    ASSUME IInv, NEW i \in Invs, NEW o \in {"complete"} \cup ShipBlockedOutcomes,
           NEW d \in 0..age[i], Open, row' = Closed(o, d)
    PROVE  RowClosed /\ row'.phase = o
<1>1. d \in 0..InvLimit /\ o \in TerminalPhases
  BY TimeAssumption DEF IInv, TypeOK, TerminalPhases
<1>. QED BY <1>1, ClosedRow DEF IInv, TypeOK, RowClosed

\* The count of mishaps stays within its bound.
LEMMA MishapBound ==
    ASSUME TypeOK, Mishap \/ UNCHANGED mishaps
    PROVE  mishaps' \in 0..MaxMishaps
BY BoundAssumption DEF TypeOK

\* From the Done event to the gates: the row keeps its phase, and the invocation
\* ends up in front of a claim only with a verdict that leads there.
LEMMA GatesEffect ==
    ASSUME IInv, NEW i \in Invs,
           \/ Deliver(i) \/ Enter(i) \/ Evidence(i) \/ Verdict(i) \/ Probe(i) \/ Die(i)
    PROVE  RowKept /\ told' = told /\ InvMoved(i) /\ InvOK(i)'
<1>. USE RowHelpers, LeaveEnds DEF IInv, TypeOK
<1>0. mishaps' \in 0..MaxMishaps
  BY MishapBound DEF Deliver, Enter, Evidence, Verdict, Probe, Die
<1>1. row \in Row /\ inv[i] \in Invocation
  OBVIOUS
<1>2. CASE Deliver(i)
  <2>1. PICK p \in OpenPhases \cup TerminalPhases : DeliverWith(i, p)
    BY <1>1, <1>2 DEF Deliver, Row
  <2>. DEFINE x == [Idle EXCEPT !.pc = "enter", !.snap = p]
  <2>2. x \in Invocation /\ x.pc = "enter"
    BY DEF Idle, Invocation, InvSteps, Verdicts
  <2>3. inv' = [inv EXCEPT ![i] = x]
    BY <2>1 DEF DeliverWith
  <2>. HIDE DEF x
  <2>4. inv'[i].pc = "enter" /\ inv' \in [Invs -> Invocation]
          /\ \A j \in Invs \ {i} : inv'[j] = inv[j]
    BY <2>2, <2>3
  <2>5. age' \in [Invs -> 0..InvLimit]
    BY <1>2, TimeAssumption DEF Deliver
  <2>. QED BY <1>0, <1>2, <2>4, <2>5 DEF Deliver, RowKept, InvMoved, InvOK, EffectSteps
<1>3. CASE Enter(i)
  <2>. DEFINE x == [Idle EXCEPT !.pc = "evidence"]
  <2>1. x \in Invocation /\ x.pc = "evidence"
    BY DEF Idle, Invocation, InvSteps, Verdicts
  <2>2. Leave(i) \/ inv' = [inv EXCEPT ![i] = x]
    BY <1>3 DEF Enter, EnterWith
  <2>. HIDE DEF x
  <2>3. inv'[i].pc \in {"idle", "evidence"} /\ inv' \in [Invs -> Invocation]
          /\ \A j \in Invs \ {i} : inv'[j] = inv[j]
    <3>1. CASE Leave(i)
      BY <3>1
    <3>2. CASE inv' = [inv EXCEPT ![i] = x]
      BY <2>1, <3>2
    <3>. QED BY <2>2, <3>1, <3>2
  <2>. QED BY <1>0, <1>3, <2>3 DEF Enter, RowKept, InvMoved, InvOK, EffectSteps
<1>4. ASSUME LeaveOpen(i) PROVE RowKept /\ InvOK(i)'
            /\ inv' \in [Invs -> Invocation] /\ \A j \in Invs \ {i} : inv'[j] = inv[j]
  BY <1>4 DEF LeaveOpen, RowKept, InvOK, EffectSteps
<1>5. CASE Evidence(i)
  <2>1. CASE LeaveOpen(i)
    BY <1>0, <1>4, <1>5, <2>1 DEF Evidence, InvMoved
  <2>2. CASE Goto(i, "verdict") /\ UNCHANGED row
    <3>0. "verdict" \in InvSteps
      BY DEF InvSteps
    <3>1. inv'[i].pc = "verdict" /\ inv' \in [Invs -> Invocation]
            /\ \A j \in Invs \ {i} : inv'[j] = inv[j]
      BY <2>2, <3>0, GotoMoves
    <3>. QED BY <1>0, <1>1, <1>5, <2>2, <3>1 DEF Evidence, RowKept, InvMoved, InvOK, EffectSteps
  <2>. QED BY <1>5, <2>1, <2>2 DEF Evidence
<1>6. CASE Verdict(i)
  <2>1. CASE LeaveOpen(i)
    BY <1>0, <1>4, <1>6, <2>1 DEF Verdict, InvMoved
  <2>2. CASE Goto(i, "probe") /\ UNCHANGED row
    <3>1. inv'[i].pc = "probe" /\ inv' \in [Invs -> Invocation]
            /\ \A j \in Invs \ {i} : inv'[j] = inv[j]
      BY <2>2, GotoMoves, PlacesAreSteps
    <3>. QED BY <1>0, <1>1, <1>6, <2>2, <3>1 DEF Verdict, RowKept, InvMoved, InvOK, EffectSteps
  <2>3. CASE /\ UNCHANGED row
             /\ \E v \in VerdictNow : inv' = [inv EXCEPT ![i].pc = "probe", ![i].verdict = v]
    <3>1. PICK v \in VerdictNow : inv' = [inv EXCEPT ![i].pc = "probe", ![i].verdict = v]
      BY <2>3
    <3>. DEFINE x == [inv[i] EXCEPT !.pc = "probe", !.verdict = v]
    <3>2. x \in Invocation /\ x.pc = "probe"
      BY <1>1 DEF Invocation, InvSteps, Verdicts, VerdictNow
    <3>3. inv' = [inv EXCEPT ![i] = x]
      BY <3>1
    <3>. HIDE DEF x
    <3>4. inv'[i].pc = "probe" /\ inv' \in [Invs -> Invocation]
            /\ \A j \in Invs \ {i} : inv'[j] = inv[j]
      BY <3>2, <3>3
    <3>. QED BY <1>0, <1>1, <1>6, <2>3, <3>4 DEF Verdict, RowKept, InvMoved, InvOK, EffectSteps
  <2>. QED BY <1>6, <2>1, <2>2, <2>3 DEF Verdict
<1>7. CASE Probe(i)
  <2>0. work' \subseteq Facts
    BY <1>7 DEF Probe, Facts
  <2>1. CASE LeaveOpen(i)
    BY <1>0, <1>4, <1>7, <2>0, <2>1 DEF Probe, InvMoved
  <2>2. CASE Goto(i, NextClaim(inv[i].verdict)) /\ UNCHANGED row
    <3>1. NextClaim(inv[i].verdict) \in InvSteps
            /\ NextClaim(inv[i].verdict) \in {"block", "complete"}
            /\ (NextClaim(inv[i].verdict) = "block" => inv[i].verdict \in ShipBlockedOutcomes)
      BY DEF NextClaim, InvSteps
    <3>2. inv'[i].pc = NextClaim(inv[i].verdict) /\ inv' \in [Invs -> Invocation]
            /\ inv'[i].verdict = inv[i].verdict
            /\ \A j \in Invs \ {i} : inv'[j] = inv[j]
      BY <2>2, <3>1, GotoMoves
    <3>. QED BY <1>0, <1>1, <1>7, <2>0, <2>2, <3>1, <3>2
             DEF Probe, RowKept, InvMoved, InvOK, EffectSteps
  <2>3. CASE /\ UNCHANGED row
             /\ inv' = [inv EXCEPT ![i].pc = "complete", ![i].verdict = "shipped"]
    <3>. DEFINE x == [inv[i] EXCEPT !.pc = "complete", !.verdict = "shipped"]
    <3>1. x \in Invocation /\ x.pc = "complete"
      BY <1>1 DEF Invocation, InvSteps, Verdicts
    <3>2. inv' = [inv EXCEPT ![i] = x]
      BY <2>3
    <3>. HIDE DEF x
    <3>3. inv'[i].pc = "complete" /\ inv' \in [Invs -> Invocation]
            /\ \A j \in Invs \ {i} : inv'[j] = inv[j]
      BY <3>1, <3>2
    <3>. QED BY <1>0, <1>1, <1>7, <2>0, <2>3, <3>3 DEF Probe, RowKept, InvMoved, InvOK, EffectSteps
  <2>4. CASE Goto(i, "complete") /\ UNCHANGED row
    <3>1. inv'[i].pc = "complete" /\ inv' \in [Invs -> Invocation]
            /\ \A j \in Invs \ {i} : inv'[j] = inv[j]
      BY <2>4, GotoMoves, PlacesAreSteps
    <3>. QED BY <1>0, <1>1, <1>7, <2>0, <2>4, <3>1 DEF Probe, RowKept, InvMoved, InvOK, EffectSteps
  <2>. QED BY <1>7, <2>1, <2>2, <2>3, <2>4 DEF Probe
<1>8. CASE Die(i)
  BY <1>0, <1>1, <1>8 DEF Die, RowKept, InvMoved, InvOK, EffectSteps
<1>. QED BY <1>2, <1>3, <1>5, <1>6, <1>7, <1>8

\* The claims of an invocation: a write that closes the run does so with the
\* outcome the invocation holds, and only the winner goes on to announce it.
LEMMA ClaimsEffect ==
    ASSUME IInv, NEW i \in Invs,
           ClaimTerminalOutcome(i) \/ ClaimComplete(i) \/ ClaimFinalization(i)
    PROVE  (RowKept \/ RowClosed) /\ told' = told /\ InvMoved(i) /\ InvOK(i)'
<1>. USE RowHelpers, LeaveEnds DEF IInv, TypeOK
<1>0. mishaps' \in 0..MaxMishaps
  BY MishapBound DEF ClaimTerminalOutcome, ClaimComplete, ClaimFinalization
<1>1. row \in Row /\ inv[i] \in Invocation /\ Open \in BOOLEAN /\ Abandoned \in BOOLEAN
        /\ age[i] \in 0..InvLimit
  BY DEF Open, Abandoned, Row
<1>2. CASE ClaimTerminalOutcome(i)
  <2>. DEFINE o == inv[i].verdict
  <2>0. o \in ShipBlockedOutcomes
    BY <1>2 DEF ClaimTerminalOutcome, InvOK
  <2>1. CASE Open /\ (\E d \in 0..age[i] : row' = Closed(o, d)) /\ Goto(i, "announce")
    <3>1. RowClosed /\ row'.phase = o
      BY <2>0, <2>1, ClosingWrite
    <3>2. inv'[i].pc = "announce" /\ inv' \in [Invs -> Invocation] /\ inv'[i].verdict = o
            /\ \A j \in Invs \ {i} : inv'[j] = inv[j]
      BY <2>1, GotoMoves, PlacesAreSteps
    <3>. QED BY <1>0, <1>2, <2>0, <3>1, <3>2 DEF ClaimTerminalOutcome, InvMoved, InvOK, EffectSteps
  <2>2. CASE Leave(i) /\ UNCHANGED row
    BY <1>0, <1>1, <1>2, <2>2 DEF ClaimTerminalOutcome, RowKept, InvMoved, InvOK, EffectSteps
  <2>3. CASE Goto(i, "complete") /\ \E d \in 0..age[i] : PerhapsWritten(Open, Closed(o, d))
    <3>1. RowKept \/ RowClosed
      <4>1. PICK d \in 0..age[i] : PerhapsWritten(Open, Closed(o, d))
        BY <2>3
      <4>2. row' = row \/ (Open /\ row' = Closed(o, d))
        BY <1>1, <4>1, LostAnswer
      <4>3. CASE row' = row
        BY <1>1, <4>3 DEF RowKept
      <4>4. CASE Open /\ row' = Closed(o, d)
        BY <2>0, <4>4, ClosingWrite
      <4>. QED BY <4>2, <4>3, <4>4
    <3>2. inv'[i].pc = "complete" /\ inv' \in [Invs -> Invocation]
            /\ \A j \in Invs \ {i} : inv'[j] = inv[j]
      BY <2>3, GotoMoves, PlacesAreSteps
    <3>. QED BY <1>0, <1>2, <3>1, <3>2 DEF ClaimTerminalOutcome, InvMoved, InvOK, EffectSteps
  <2>. QED BY <1>2, <2>1, <2>2, <2>3 DEF ClaimTerminalOutcome
<1>3. CASE ClaimComplete(i)
  <2>1. CASE Open /\ (\E d \in 0..age[i] : row' = Closed("complete", d)) /\ Goto(i, "deliver")
    <3>1. RowClosed /\ row'.phase = "complete"
      <4>1. PICK d \in 0..age[i] : row' = Closed("complete", d)
        BY <2>1
      <4>. QED BY <2>1, <4>1, ClosingWrite
    <3>2. inv'[i].pc = "deliver" /\ inv' \in [Invs -> Invocation]
            /\ \A j \in Invs \ {i} : inv'[j] = inv[j]
      BY <2>1, GotoMoves, PlacesAreSteps
    <3>. QED BY <1>0, <1>3, <3>1, <3>2 DEF ClaimComplete, InvMoved, InvOK
  <2>2. CASE Goto(i, "takeover") /\ UNCHANGED row
    <3>1. inv'[i].pc = "takeover" /\ inv' \in [Invs -> Invocation]
            /\ \A j \in Invs \ {i} : inv'[j] = inv[j]
      BY <2>2, GotoMoves, PlacesAreSteps
    <3>. QED BY <1>0, <1>1, <1>3, <2>2, <3>1 DEF ClaimComplete, RowKept, InvMoved, InvOK, EffectSteps
  <2>3. CASE Leave(i) /\ \E d \in 0..age[i] : PerhapsWritten(Open, Closed("complete", d))
    <3>1. PICK d \in 0..age[i] : PerhapsWritten(Open, Closed("complete", d))
      BY <2>3
    <3>2. row' = row \/ (Open /\ row' = Closed("complete", d))
      BY <1>1, <3>1, LostAnswer
    <3>3. RowKept \/ RowClosed
      BY <1>1, <3>2, ClosingWrite DEF RowKept
    <3>. QED BY <1>0, <1>3, <2>3, <3>3 DEF ClaimComplete, InvMoved, InvOK, EffectSteps
  <2>. QED BY <1>3, <2>1, <2>2, <2>3 DEF ClaimComplete
<1>4. CASE ClaimFinalization(i)
  <2>1. CASE Abandoned /\ row' = Finalized
             /\ inv' = [inv EXCEPT ![i].pc = "deliver", ![i].taker = TRUE]
    <3>. DEFINE x == [inv[i] EXCEPT !.pc = "deliver", !.taker = TRUE]
    <3>1. x \in Invocation /\ x.pc = "deliver"
      BY <1>1 DEF Invocation, InvSteps, EffectSteps
    <3>2. inv' = [inv EXCEPT ![i] = x]
      BY <2>1
    <3>. HIDE DEF x
    <3>3. inv'[i].pc = "deliver" /\ inv' \in [Invs -> Invocation]
            /\ \A j \in Invs \ {i} : inv'[j] = inv[j]
      BY <3>1, <3>2
    <3>4. RowKept /\ row'.phase = "complete"
      BY <1>1, <2>1 DEF RowKept, Abandoned
    <3>. QED BY <1>0, <1>4, <3>3, <3>4 DEF ClaimFinalization, InvMoved, InvOK
  <2>2. CASE Leave(i) /\ (row' = row \/ row' = Finalized)
    BY <1>0, <1>1, <1>4, <2>2 DEF ClaimFinalization, RowKept, InvMoved, InvOK, EffectSteps
  <2>3. CASE Leave(i) /\ PerhapsWritten(Abandoned, Finalized)
    BY <1>1, <2>2, <2>3, LostAnswer
  <2>. QED BY <1>4, <2>1, <2>2, <2>3 DEF ClaimFinalization
<1>. QED BY <1>2, <1>3, <1>4

\* What follows a claim: events that name the outcome of the row, a page, and the
\* marker.
LEMMA AftermathEffect ==
    ASSUME IInv, NEW i \in Invs,
           \/ AnnounceBlocked(i) \/ PageBlocked(i) \/ StampBlocked(i)
           \/ SideEffects(i) \/ PublishComplete(i) \/ MarkFinalized(i)
    PROVE  /\ RowKept
           /\ told' = told \/ Announced
           /\ InvMoved(i)
           /\ InvOK(i)'
<1>. USE RowHelpers, LeaveEnds DEF IInv, TypeOK
<1>0. mishaps' \in 0..MaxMishaps
  BY MishapBound DEF AnnounceBlocked, Publish, PageBlocked, StampBlocked, SideEffects,
                     PublishComplete, MarkFinalized
<1>1. row \in Row /\ inv[i] \in Invocation
  OBVIOUS
<1>2. ASSUME NEW pc \in {"page", "stamp", "complete", "publish", "mark"}, Goto(i, pc)
      PROVE  /\ inv'[i].pc = pc /\ inv' \in [Invs -> Invocation]
             /\ \A j \in Invs \ {i} : inv'[j] = inv[j]
  <2>1. pc \in InvSteps
    BY <1>2 DEF InvSteps, EffectSteps
  <2>2. inv \in [Invs -> Invocation]
    OBVIOUS
  <2>. HIDE DEF IInv, TypeOK
  <2>. QED BY <1>2, <2>1, <2>2, GotoMoves
<1>3. CASE AnnounceBlocked(i)
  BY <1>0, <1>1, <1>2, <1>3
     DEF AnnounceBlocked, Publish, RowKept, Announced, InvMoved, InvOK, EffectSteps, TerminalPhases
<1>4. CASE PageBlocked(i)
  BY <1>0, <1>1, <1>2, <1>4 DEF PageBlocked, RowKept, InvMoved, InvOK, EffectSteps
<1>5. CASE StampBlocked(i)
  <2>1. CASE row' = Finalized /\ Leave(i)
    BY <1>0, <1>1, <1>5, <2>1 DEF StampBlocked, RowKept, InvMoved, InvOK, EffectSteps
  <2>2. CASE Goto(i, "complete") /\ UNCHANGED row
    BY <1>0, <1>1, <1>2, <1>5, <2>2 DEF StampBlocked, RowKept, InvMoved, InvOK, EffectSteps
  <2>. QED BY <1>5, <2>1, <2>2 DEF StampBlocked
<1>6. CASE SideEffects(i)
  <2>1. epic' \in {"open", "Done"}
    BY <1>6 DEF SideEffects
  <2>. QED BY <1>0, <1>1, <1>2, <1>6, <2>1 DEF SideEffects, RowKept, InvMoved, InvOK, EffectSteps
<1>7. CASE PublishComplete(i)
  BY <1>0, <1>1, <1>2, <1>7
     DEF PublishComplete, Publish, RowKept, Announced, InvMoved, InvOK, EffectSteps, TerminalPhases
<1>8. CASE MarkFinalized(i)
  BY <1>0, <1>1, <1>8 DEF MarkFinalized, RowKept, InvMoved, InvOK, EffectSteps
<1>. QED BY <1>3, <1>4, <1>5, <1>6, <1>7, <1>8

\* The rest of the state after a step of route call r.
RouteMoved(r) == /\ route' \in [Routes -> RouteCall]
                 /\ \A j \in Routes \ {r} : route'[j] = route[j]
                 /\ epic' \in {"open", "Done"}
                 /\ mishaps' \in 0..MaxMishaps
                 /\ UNCHANGED <<inv, age, cancel, work>>

\* The closing writes that a route call may try.
LEMMA RouteClosingWrite ==
    ASSUME IInv, NEW r \in Routes, NEW o \in {"complete"} \cup ShipBlockedOutcomes,
           NEW d \in 0..InvLimit, Open, row' = RouteClosed(r, o, d)
    PROVE  RowClosed /\ row'.phase = o
<1>1. o \in TerminalPhases
  BY DEF TerminalPhases
<1>. QED BY <1>1, RouteClosedRow DEF IInv, TypeOK, RowClosed

\* A step of the complete route: as for the invocations, the winner alone goes on
\* to announce, and announces what it has written.
LEMMA RouteEffect ==
    ASSUME IInv, NEW r \in Routes, RouteRead(r) \/ RouteStep(r) \/ RouteDie(r)
    PROVE  /\ RowKept \/ RowClosed
           /\ told' = told \/ Announced
           /\ RouteMoved(r)
           /\ RouteOK(r)'
<1>. USE DEF IInv, TypeOK
<1>0. mishaps' \in 0..MaxMishaps
  BY MishapBound DEF RouteRead, RouteStep, RouteDie, RouteClaimBlocked,
       RouteAnnounceBlocked, RouteRollUp, RouteClaimComplete, RoutePublish, Publish
<1>1. row \in Row /\ route[r] \in RouteCall /\ Open \in BOOLEAN
  BY DEF Open, Row
<1>2. ASSUME NEW pc \in RouteSteps, RouteGoto(r, pc)
      PROVE  /\ route' \in [Routes -> RouteCall] /\ route'[r].pc = pc
             /\ route'[r].verdict = route[r].verdict
             /\ \A j \in Routes \ {r} : route'[j] = route[j]
  BY <1>2, RouteMoves
<1>3. ASSUME RouteLeave(r)
      PROVE  /\ route' \in [Routes -> RouteCall] /\ route'[r].pc = "idle"
             /\ \A j \in Routes \ {r} : route'[j] = route[j]
  BY <1>3, RouteMoves
<1>4. CASE RouteRead(r)
  <2>1. PICK v \in VerdictNow \cup {"none"} :
          route' = [route EXCEPT ![r] =
             [pc |-> IF v \in ShipBlockedOutcomes THEN "block" ELSE "rollup",
              verdict |-> v, seen |-> row.paged]]
    BY <1>4 DEF RouteRead
  <2>. DEFINE x == [pc |-> IF v \in ShipBlockedOutcomes THEN "block" ELSE "rollup",
                    verdict |-> v, seen |-> row.paged]
  <2>2. x \in RouteCall /\ x.pc \in {"block", "rollup"}
          /\ (x.pc = "block" => x.verdict \in ShipBlockedOutcomes)
    BY <1>1 DEF RouteCall, RouteSteps, Verdicts, VerdictNow, Row
  <2>3. route' = [route EXCEPT ![r] = x]
    BY <2>1
  <2>. HIDE DEF x
  <2>4. route' \in [Routes -> RouteCall] /\ route'[r] = x
          /\ \A j \in Routes \ {r} : route'[j] = route[j]
    BY <2>2, <2>3
  <2>. QED BY <1>0, <1>1, <1>4, <2>2, <2>4 DEF RouteRead, RowKept, RouteMoved, RouteOK
<1>5. CASE RouteClaimBlocked(r)
  <2>. DEFINE o == route[r].verdict
  <2>0. o \in ShipBlockedOutcomes
    BY <1>5 DEF RouteClaimBlocked, RouteOK
  <2>1. CASE /\ Open /\ RouteGoto(r, "announce")
             /\ \E d \in 0..InvLimit : row' = RouteClosed(r, o, d)
    <3>1. RowClosed /\ row'.phase = o
      BY <2>0, <2>1, RouteClosingWrite
    <3>2. route'[r].pc = "announce" /\ route'[r].verdict = o
            /\ route' \in [Routes -> RouteCall]
            /\ \A j \in Routes \ {r} : route'[j] = route[j]
      BY <2>1, <1>2 DEF RouteSteps
    <3>. QED BY <1>0, <1>5, <2>0, <3>1, <3>2 DEF RouteClaimBlocked, RouteMoved, RouteOK
  <2>2. CASE RouteLeave(r) /\ UNCHANGED row
    BY <1>0, <1>1, <1>3, <1>5, <2>2 DEF RouteClaimBlocked, RowKept, RouteMoved, RouteOK
  <2>3. CASE /\ RouteGoto(r, "rollup")
             /\ \E d \in 0..InvLimit : PerhapsWritten(Open, RouteClosed(r, o, d))
    <3>1. row' = row \/ (Open /\ \E d \in 0..InvLimit : row' = RouteClosed(r, o, d))
      BY <1>1, <2>3, LostAnswer
    <3>2. RowKept \/ RowClosed
      BY <1>1, <2>0, <3>1, RouteClosingWrite DEF RowKept
    <3>3. route'[r].pc = "rollup" /\ route' \in [Routes -> RouteCall]
            /\ \A j \in Routes \ {r} : route'[j] = route[j]
      BY <2>3, <1>2 DEF RouteSteps
    <3>. QED BY <1>0, <1>5, <3>2, <3>3 DEF RouteClaimBlocked, RouteMoved, RouteOK
  <2>. QED BY <1>5, <2>1, <2>2, <2>3 DEF RouteClaimBlocked
<1>6. CASE RouteAnnounceBlocked(r)
  BY <1>0, <1>1, <1>3, <1>6
     DEF RouteAnnounceBlocked, Publish, RowKept, Announced, RouteMoved, RouteOK, TerminalPhases
<1>7. CASE RouteRollUp(r)
  <2>1. route'[r].pc = "complete" /\ route' \in [Routes -> RouteCall]
          /\ \A j \in Routes \ {r} : route'[j] = route[j]
    BY <1>7, <1>2 DEF RouteRollUp, RouteSteps
  <2>2. epic' \in {"open", "Done"}
    BY <1>7 DEF RouteRollUp
  <2>. QED BY <1>0, <1>1, <1>7, <2>1, <2>2 DEF RouteRollUp, RowKept, RouteMoved, RouteOK
<1>8. CASE RouteClaimComplete(r)
  <2>1. CASE /\ Open /\ RouteGoto(r, "publish")
             /\ \E d \in 0..InvLimit : row' = RouteClosed(r, "complete", d)
    <3>1. RowClosed /\ row'.phase = "complete"
      BY <2>1, RouteClosingWrite
    <3>2. route'[r].pc = "publish" /\ route' \in [Routes -> RouteCall]
            /\ \A j \in Routes \ {r} : route'[j] = route[j]
      BY <2>1, <1>2 DEF RouteSteps
    <3>. QED BY <1>0, <1>8, <3>1, <3>2 DEF RouteClaimComplete, RouteMoved, RouteOK
  <2>2. CASE /\ RouteLeave(r)
             /\ \/ row' = row
                \/ Open /\ \E d \in 0..InvLimit : row' = RouteClosed(r, "complete", d)
    <3>1. RowKept \/ RowClosed
      BY <1>1, <2>2, RouteClosingWrite DEF RowKept
    <3>. QED BY <1>0, <1>3, <1>8, <2>2, <3>1 DEF RouteClaimComplete, RouteMoved, RouteOK
  <2>3. CASE /\ RouteLeave(r)
             /\ \E d \in 0..InvLimit : PerhapsWritten(Open, RouteClosed(r, "complete", d))
    BY <1>1, <2>2, <2>3, LostAnswer
  <2>. QED BY <1>8, <2>1, <2>2, <2>3 DEF RouteClaimComplete
<1>9. CASE RoutePublish(r)
  BY <1>0, <1>1, <1>3, <1>9
     DEF RoutePublish, Publish, RowKept, Announced, RouteMoved, RouteOK, TerminalPhases
<1>10. CASE RouteDie(r)
  BY <1>0, <1>1, <1>3, <1>10 DEF RouteDie, RowKept, RouteMoved, RouteOK
<1>. QED BY <1>4, <1>5, <1>6, <1>7, <1>8, <1>9, <1>10 DEF RouteStep

\* Everyone else leaves the parties where they are.
Elsewhere == /\ UNCHANGED <<inv, route, epic, mishaps>>
             /\ age' \in [Invs -> 0..InvLimit]
             /\ work' \subseteq Facts

\* A phase advance moves an open run to another open phase.
RowAdvanced == /\ row' \in Row
               /\ Open
               /\ ~Terminal(row'.phase)
               /\ row'.cancelledAt = row.cancelledAt

\* What everyone else does to the row, the events and the cancel route.
LEMMA OthersEffect ==
    ASSUME IInv,
           \/ CancelClaim
           \/ CancelPublish
           \/ \E p \in OpenPhases : AdvancePhase(p)
           \/ \E fact \in Facts : WorkArrives(fact)
           \/ Tick
    PROVE  /\ Elsewhere
           /\ \/ (RowKept \/ RowAdvanced) /\ told' = told /\ UNCHANGED cancel
              \/ RowKept /\ Announced /\ cancel' = "done"
              \/ /\ row' \in Row /\ ~Terminal(row.phase)
                 /\ row'.phase = "cancelled" /\ row'.cancelledAt = TRUE
                 /\ told' = told /\ cancel' = "closeout"
<1>. USE DEF IInv, TypeOK
<1>1. row \in Row
  OBVIOUS
<1>2. CASE CancelClaim
  <2>1. row' = [row EXCEPT !.phase = "cancelled", !.cancelledAt = TRUE]
    BY <1>2 DEF CancelClaim
  <2>2. row' \in Row /\ row'.phase = "cancelled" /\ row'.cancelledAt = TRUE
    BY <1>1, <2>1 DEF Row, TerminalPhases
  <2>. QED BY <1>2, <2>2 DEF CancelClaim, Elsewhere
<1>3. CASE CancelPublish
  BY <1>1, <1>3 DEF CancelPublish, CancelOK, Elsewhere, RowKept, Announced, TerminalPhases
<1>4. ASSUME NEW p \in OpenPhases, AdvancePhase(p)
      PROVE  RowAdvanced /\ Elsewhere /\ told' = told /\ UNCHANGED cancel
  <2>1. row' = [row EXCEPT !.phase = p]
    BY <1>4 DEF AdvancePhase
  <2>2. row' \in Row /\ row'.phase = p /\ row'.cancelledAt = row.cancelledAt
    BY <1>1, <2>1 DEF Row
  <2>. QED BY <1>4, <2>2, PhasesAssumption DEF AdvancePhase, RowAdvanced, Elsewhere
<1>5. ASSUME NEW fact \in Facts, WorkArrives(fact)
      PROVE  RowKept /\ Elsewhere /\ told' = told /\ UNCHANGED cancel
  BY <1>1, <1>5 DEF WorkArrives, RowKept, Elsewhere
<1>6. CASE Tick
  <2>1. age' \in [Invs -> 0..InvLimit]
    <3>1. ASSUME NEW i \in Invs
          PROVE  (IF At(i, "idle") THEN age[i] ELSE age[i] + 1) \in 0..InvLimit
      BY <1>6, TimeAssumption DEF Tick
    <3>. QED BY <1>6, <3>1 DEF Tick
  <2>2. row' \in Row /\ row'.phase = row.phase /\ row'.cancelledAt = row.cancelledAt
    BY <1>1, <1>6, TickedRow DEF Tick
  <2>. QED BY <1>6, <2>1, <2>2 DEF Tick, Elsewhere, RowKept
<1>. QED BY <1>2, <1>3, <1>4, <1>5, <1>6

-----------------------------------------------------------------------------
(******************** The invariant holds and is kept **********************)

\* A run that is closed keeps its phase: every write to it is refused.
LEMMA PhaseStays ==
    ASSUME IInv, RowKept \/ RowClosed \/ RowAdvanced, Terminal(row.phase)
    PROVE  row'.phase = row.phase
BY DEF RowKept, RowClosed, RowAdvanced, Open

\* The inductive invariant holds at the start.
LEMMA InitIInv == Init => IInv
<1>. SUFFICES ASSUME Init PROVE IInv
  OBVIOUS
<1>1. Idle \in Invocation /\ Quiet \in RouteCall /\ Idle.pc = "idle" /\ Quiet.pc = "idle"
  BY DEF Idle, Quiet, Invocation, RouteCall, InvSteps, RouteSteps, Verdicts
<1>2. row \in Row
  BY PhasesAssumption, TimeAssumption DEF Init, Row
<1>3. TypeOK
  BY <1>1, <1>2, TimeAssumption, BoundAssumption DEF Init, TypeOK
<1>4. FirstPhase # "cancelled"
  BY PhasesAssumption DEF TerminalPhases
<1>. QED BY <1>1, <1>3, <1>4
         DEF Init, IInv, ToldOK, CancelOK, InvOK, RouteOK, EffectSteps

\* What is known of the parties that do not move survives any legal write.
LEMMA Bystanders ==
    ASSUME IInv, Terminal(row.phase) => row'.phase = row.phase
    PROVE  /\ \A i \in Invs : inv'[i] = inv[i] => InvOK(i)'
           /\ \A r \in Routes : route'[r] = route[r] => RouteOK(r)'
           /\ cancel' = cancel => CancelOK'
           /\ told' = told \/ Announced => ToldOK'
BY DEF IInv, InvOK, RouteOK, CancelOK, ToldOK, Announced, TerminalPhases

\* Every step keeps the inductive invariant.
LEMMA NextIInv == IInv /\ [Next]_vars => IInv'
<1>. SUFFICES ASSUME IInv, [Next]_vars PROVE IInv'
  OBVIOUS
<1>. USE DEF IInv
<1>1. ASSUME NEW i \in Invs, Deliver(i) \/ InvStep(i) \/ Die(i)
      PROVE  IInv'
  <2>1. /\ RowKept \/ RowClosed
        /\ told' = told \/ Announced
        /\ InvMoved(i) /\ InvOK(i)'
    BY <1>1, GatesEffect, ClaimsEffect, AftermathEffect DEF InvStep
  <2>2. Terminal(row.phase) => row'.phase = row.phase
    BY <2>1, PhaseStays
  <2>3. TypeOK'
    BY <2>1, <2>2 DEF TypeOK, InvMoved, RowKept, RowClosed, Announced, Row
  <2>4. row'.cancelledAt <=> row'.phase = "cancelled"
    BY <2>1 DEF RowKept, RowClosed, Open, ShipBlockedOutcomes, TypeOK
  <2>. QED BY <2>1, <2>2, <2>3, <2>4, Bystanders DEF InvMoved
<1>2. ASSUME NEW r \in Routes, RouteRead(r) \/ RouteStep(r) \/ RouteDie(r)
      PROVE  IInv'
  <2>1. /\ RowKept \/ RowClosed
        /\ told' = told \/ Announced
        /\ RouteMoved(r) /\ RouteOK(r)'
    BY <1>2, RouteEffect
  <2>2. Terminal(row.phase) => row'.phase = row.phase
    BY <2>1, PhaseStays
  <2>3. TypeOK'
    BY <2>1, <2>2 DEF TypeOK, RouteMoved, RowKept, RowClosed, Announced, Row
  <2>4. row'.cancelledAt <=> row'.phase = "cancelled"
    BY <2>1 DEF RowKept, RowClosed, Open, ShipBlockedOutcomes, TypeOK
  <2>. QED BY <2>1, <2>2, <2>3, <2>4, Bystanders DEF RouteMoved
<1>3. ASSUME \/ CancelClaim
             \/ CancelPublish
             \/ \E p \in OpenPhases : AdvancePhase(p)
             \/ \E fact \in Facts : WorkArrives(fact)
             \/ Tick
      PROVE  IInv'
  <2>1. Elsewhere
    BY <1>3, OthersEffect
  <2>2. CASE (RowKept \/ RowAdvanced) /\ told' = told /\ UNCHANGED cancel
    <3>1. Terminal(row.phase) => row'.phase = row.phase
      BY <2>2, PhaseStays
    <3>2. TypeOK'
      BY <2>1, <2>2 DEF TypeOK, Elsewhere, RowKept, RowAdvanced
    <3>3. row'.cancelledAt <=> row'.phase = "cancelled"
      BY <2>2 DEF RowKept, RowAdvanced, Open, TypeOK, TerminalPhases
    <3>. QED BY <2>1, <2>2, <3>1, <3>2, <3>3, Bystanders DEF Elsewhere
  <2>3. CASE RowKept /\ Announced /\ cancel' = "done"
    <3>1. Terminal(row.phase) => row'.phase = row.phase
      BY <2>3 DEF RowKept
    <3>2. TypeOK'
      BY <2>1, <2>3 DEF TypeOK, Elsewhere, RowKept, Announced
    <3>3. row'.cancelledAt <=> row'.phase = "cancelled"
      BY <2>3 DEF RowKept
    <3>4. CancelOK'
      BY <2>3 DEF CancelOK
    <3>. QED BY <2>1, <2>3, <3>1, <3>2, <3>3, <3>4, Bystanders DEF Elsewhere
  <2>4. CASE /\ row' \in Row /\ ~Terminal(row.phase)
             /\ row'.phase = "cancelled" /\ row'.cancelledAt = TRUE
             /\ told' = told /\ cancel' = "closeout"
    <3>1. TypeOK'
      BY <2>1, <2>4 DEF TypeOK, Elsewhere
    <3>2. CancelOK'
      BY <2>4 DEF CancelOK
    <3>. QED BY <2>1, <2>4, <3>1, <3>2, Bystanders DEF Elsewhere
  <2>. QED BY <1>3, <2>2, <2>3, <2>4, OthersEffect
<1>4. CASE UNCHANGED vars
  BY <1>4 DEF vars, TypeOK, ToldOK, CancelOK, InvOK, RouteOK, RowKept
<1>. QED BY <1>1, <1>2, <1>3, <1>4 DEF Next

\* So it holds throughout.
LEMMA IInvHolds == Spec => []IInv
<1>. QED BY InitIInv, NextIInv, PTL DEF Spec

\* Type correctness: in particular no invocation outlives its limit.
THEOREM RunTypeCorrect == Spec => []TypeOK
<1>1. IInv => TypeOK
  BY DEF IInv
<1>. QED BY <1>1, IInvHolds, PTL

\* Side effects are carried out for complete runs only.
THEOREM EffectsCorrect == Spec => []EffectsFollowTheClaim
<1>1. IInv => EffectsFollowTheClaim
  BY DEF IInv, InvOK, EffectsFollowTheClaim
<1>. QED BY <1>1, IInvHolds, PTL

-----------------------------------------------------------------------------
(******************** The run's end implements RunOutcome ******************)

\* A step of the detailed specification decides the outcome, announces it, or
\* changes nothing that RunOutcome sees.
LEMMA OutcomeStep == IInv /\ [Next]_vars => [Ending!Next]_Ending!vars
<1>. SUFFICES ASSUME IInv, [Next]_vars PROVE Ending!Next \/ UNCHANGED Ending!vars
  OBVIOUS
<1>0. /\ Terminal(row.phase) => Outcome = row.phase /\ Outcome # "open"
      /\ ~Terminal(row.phase) => Outcome = "open"
      /\ Terminal(row'.phase) => Outcome' = row'.phase
      /\ ~Terminal(row'.phase) => Outcome' = "open"
  BY DEF Outcome, TerminalPhases, ShipBlockedOutcomes
<1>1. ASSUME RowKept \/ RowClosed \/ RowAdvanced, told' = told \/ Announced
      PROVE  Ending!Next \/ UNCHANGED Ending!vars
  <2>1. CASE Announced
    <3>1. Ending!Announce
      BY <1>0, <2>1 DEF Announced, Ending!Announce, Ending!Undecided
    <3>. QED BY <3>1 DEF Ending!Next
  <2>2. CASE told' = told /\ RowKept
    BY <1>0, <2>2 DEF RowKept, Ending!vars
  <2>3. CASE told' = told /\ RowAdvanced
    BY <1>0, <2>3 DEF RowAdvanced, Open, Ending!vars
  <2>4. CASE told' = told /\ RowClosed
    <3>1. Ending!Decide(row'.phase) /\ row'.phase \in TerminalPhases
      BY <1>0, <2>4 DEF RowClosed, Open, TerminalPhases, Ending!Decide, Ending!Undecided
    <3>. QED BY <3>1 DEF Ending!Next
  <2>. QED BY <1>1, <2>1, <2>2, <2>3, <2>4
<1>2. CASE \E i \in Invs : Deliver(i) \/ InvStep(i) \/ Die(i)
  BY <1>1, <1>2, GatesEffect, ClaimsEffect, AftermathEffect DEF InvStep
<1>3. CASE \E r \in Routes : RouteRead(r) \/ RouteStep(r) \/ RouteDie(r)
  BY <1>1, <1>3, RouteEffect
<1>4. CASE \/ CancelClaim
           \/ CancelPublish
           \/ \E p \in OpenPhases : AdvancePhase(p)
           \/ \E fact \in Facts : WorkArrives(fact)
           \/ Tick
  <2>1. CASE (RowKept \/ RowAdvanced) /\ told' = told
    BY <1>1, <2>1
  <2>2. CASE RowKept /\ Announced
    BY <1>1, <2>2
  <2>3. CASE ~Terminal(row.phase) /\ row'.phase = "cancelled" /\ told' = told
    <3>1. Ending!Decide("cancelled") /\ "cancelled" \in TerminalPhases
      BY <1>0, <2>3 DEF TerminalPhases, Ending!Decide, Ending!Undecided
    <3>. QED BY <3>1 DEF Ending!Next
  <2>. QED BY <1>4, <2>1, <2>2, <2>3, OthersEffect
<1>5. CASE UNCHANGED vars
  BY <1>5 DEF vars, Outcome, Ending!vars
<1>. QED BY <1>2, <1>3, <1>4, <1>5 DEF Next

\* A run ends once, with one outcome, and what is announced is that outcome.
THEOREM OutcomeImplemented == Spec => OutcomeSpec
<1>1. Init => Ending!Init
  BY PhasesAssumption DEF Init, Outcome, Ending!Init, Ending!Undecided
<1>. QED BY <1>1, IInvHolds, OutcomeStep, PTL DEF Spec, OutcomeSpec, Ending!Spec

-----------------------------------------------------------------------------
(************************ Side effects never overlap ***********************)

\* The completer that won the claim is at least as old as its completion, so it
\* is gone before the completion may be taken over; the one that took over has
\* stamped the row first.
ClockOK(i) == IF inv[i].pc \in EffectSteps
              THEN IF inv[i].taker THEN row.finalizedAt ELSE row.age <= age[i]
              ELSE ~inv[i].taker

FinInv == /\ \A i \in Invs : ClockOK(i)
          /\ OneFinalizer

\* The marker is never taken back; the age of a closed run changes with the clock
\* alone; and a run is not older than an invocation when it is closed.
ClockKept == /\ row.finalizedAt => row'.finalizedAt
             /\ Terminal(row.phase) => row'.age = row.age
             /\ ~Terminal(row.phase) /\ row'.phase = "complete" => row'.age \in 0..InvLimit

\* The three harmless writes and the closing writes keep the clock.
LEMMA WritesKeepClock ==
    ASSUME IInv
    PROVE  /\ row' \in {row, Finalized, Paged} => ClockKept
           /\ \A o \in TerminalPhases, d \in 0..InvLimit :
                 Open /\ row' = Closed(o, d) => ClockKept
           /\ \A r \in Routes : \A o \in TerminalPhases : \A d \in 0..InvLimit :
                 Open /\ row' = RouteClosed(r, o, d) => ClockKept
<1>. USE DEF IInv, TypeOK
<1>1. row' \in {row, Finalized, Paged} => ClockKept
  BY RowHelpers DEF ClockKept, Row, TerminalPhases
<1>2. ASSUME NEW o \in TerminalPhases, NEW d \in 0..InvLimit, Open, row' = Closed(o, d)
      PROVE  ClockKept
  BY <1>2, ClosedRow DEF ClockKept, Open
<1>3. ASSUME NEW r \in Routes, NEW o \in TerminalPhases, NEW d \in 0..InvLimit,
             Open, row' = RouteClosed(r, o, d)
      PROVE  ClockKept
  BY <1>3, RouteClosedRow, TimeAssumption DEF ClockKept, Open
<1>. QED BY <1>1, <1>2, <1>3

\* How a step of invocation i changes its part in the side effects: it stays out,
\* goes on, wins the claim, or takes over.
ClockMove(i) ==
    \/ inv'[i].pc \notin EffectSteps /\ ~inv'[i].taker
    \/ /\ inv'[i].pc \in EffectSteps /\ inv[i].pc \in EffectSteps
       /\ inv'[i].taker = inv[i].taker
       /\ UNCHANGED <<row, age>>
    \/ /\ inv'[i].pc \in EffectSteps /\ ~inv'[i].taker
       /\ Open
       /\ row'.age <= age[i] /\ UNCHANGED age
    \/ /\ inv'[i].pc \in EffectSteps /\ inv'[i].taker
       /\ Abandoned
       /\ row'.finalizedAt

\* Up to the claim, and in a blocked close, an invocation stays out.
LEMMA OutsideClock ==
    ASSUME IInv, NEW i \in Invs, ClockOK(i),
           \/ Deliver(i) \/ Enter(i) \/ Evidence(i) \/ Verdict(i) \/ Probe(i) \/ Die(i)
           \/ AnnounceBlocked(i) \/ PageBlocked(i) \/ StampBlocked(i)
    PROVE  ClockMove(i) /\ row' \in {row, Finalized, Paged}
<1>. USE DEF IInv, TypeOK
<1>1. inv[i] \in Invocation /\ Idle.pc = "idle" /\ Idle.taker = FALSE
  BY DEF Idle
<1>2. ASSUME Leave(i) PROVE inv'[i].pc \notin EffectSteps /\ ~inv'[i].taker
  BY <1>1, <1>2, LeaveEnds DEF EffectSteps
<1>3. ASSUME NEW pc \in InvSteps \ EffectSteps, Goto(i, pc), inv[i].pc \notin EffectSteps
      PROVE  inv'[i].pc \notin EffectSteps /\ ~inv'[i].taker
  BY <1>3, GotoMoves DEF ClockOK
<1>4. {"verdict", "probe", "page", "stamp", "complete", "block"} \subseteq InvSteps \ EffectSteps
  BY DEF InvSteps, EffectSteps
<1>5. ASSUME NEW x, inv' = [inv EXCEPT ![i] = x], x.pc \notin EffectSteps, ~x.taker
      PROVE  inv'[i].pc \notin EffectSteps /\ ~inv'[i].taker
  BY <1>5
<1>6. CASE Deliver(i)
  <2>1. PICK p : DeliverWith(i, p)
    BY <1>6 DEF Deliver
  <2>. DEFINE x == [Idle EXCEPT !.pc = "enter", !.snap = p]
  <2>2. inv' = [inv EXCEPT ![i] = x] /\ x.pc = "enter" /\ x.taker = FALSE
    BY <2>1 DEF DeliverWith, Idle
  <2>. HIDE DEF x
  <2>. QED BY <1>5, <1>6, <2>2 DEF Deliver, ClockMove, EffectSteps
<1>7. CASE Enter(i)
  <2>. DEFINE x == [Idle EXCEPT !.pc = "evidence"]
  <2>1. x.pc = "evidence" /\ x.taker = FALSE
    BY DEF Idle
  <2>2. Leave(i) \/ inv' = [inv EXCEPT ![i] = x]
    BY <1>7 DEF Enter, EnterWith
  <2>. HIDE DEF x
  <2>. QED BY <1>2, <1>5, <1>7, <2>1, <2>2 DEF Enter, ClockMove, EffectSteps
<1>8. CASE Evidence(i)
  BY <1>2, <1>3, <1>4, <1>8 DEF Evidence, LeaveOpen, ClockMove, EffectSteps
<1>9. CASE Verdict(i)
  <2>0. inv[i].pc \notin EffectSteps
    BY <1>9 DEF Verdict, EffectSteps
  <2>1. CASE \E v \in VerdictNow : inv' = [inv EXCEPT ![i].pc = "probe", ![i].verdict = v]
    <3>1. PICK v \in VerdictNow : inv' = [inv EXCEPT ![i].pc = "probe", ![i].verdict = v]
      BY <2>1
    <3>. DEFINE x == [inv[i] EXCEPT !.pc = "probe", !.verdict = v]
    <3>2. inv' = [inv EXCEPT ![i] = x]
      BY <3>1
    <3>3. x.pc = "probe" /\ x.taker = inv[i].taker
      BY <1>1 DEF Invocation
    <3>. HIDE DEF x
    <3>. QED BY <1>5, <1>9, <2>0, <2>1, <3>2, <3>3 DEF Verdict, LeaveOpen, ClockMove, ClockOK, EffectSteps
  <2>2. CASE Goto(i, "probe") \/ LeaveOpen(i)
    BY <1>2, <1>3, <1>4, <1>9, <2>0, <2>2 DEF Verdict, LeaveOpen, ClockMove
  <2>. QED BY <1>9, <2>1, <2>2 DEF Verdict
<1>10. CASE Probe(i)
  <2>0. inv[i].pc \notin EffectSteps
    BY <1>10 DEF Probe, EffectSteps
  <2>1. CASE inv' = [inv EXCEPT ![i].pc = "complete", ![i].verdict = "shipped"]
    <3>. DEFINE x == [inv[i] EXCEPT !.pc = "complete", !.verdict = "shipped"]
    <3>1. inv' = [inv EXCEPT ![i] = x]
      BY <2>1
    <3>2. x.pc = "complete" /\ x.taker = inv[i].taker
      BY <1>1 DEF Invocation
    <3>. HIDE DEF x
    <3>. QED BY <1>5, <1>10, <2>0, <3>1, <3>2 DEF Probe, LeaveOpen, ClockMove, ClockOK, EffectSteps
  <2>2. CASE LeaveOpen(i)
    BY <1>2, <1>10, <2>2 DEF Probe, LeaveOpen, ClockMove
  <2>3. CASE Goto(i, NextClaim(inv[i].verdict)) /\ UNCHANGED row
    <3>1. NextClaim(inv[i].verdict) \in {"block", "complete"}
      BY DEF NextClaim
    <3>. QED BY <1>3, <1>4, <2>0, <2>3, <3>1 DEF ClockMove
  <2>4. CASE Goto(i, "complete") /\ UNCHANGED row
    BY <1>3, <1>4, <2>0, <2>4 DEF ClockMove
  <2>. QED BY <1>10, <2>1, <2>2, <2>3, <2>4 DEF Probe
<1>11. CASE Die(i)
  BY <1>2, <1>11 DEF Die, ClockMove
<1>12. CASE AnnounceBlocked(i) \/ PageBlocked(i) \/ StampBlocked(i)
  <2>1. inv[i].pc \notin EffectSteps
    BY <1>12 DEF AnnounceBlocked, PageBlocked, StampBlocked, EffectSteps
  <2>. QED BY <1>2, <1>3, <1>4, <1>12, <2>1 DEF AnnounceBlocked, PageBlocked, StampBlocked, ClockMove
<1>. QED BY <1>6, <1>7, <1>8, <1>9, <1>10, <1>11, <1>12

\* The claims: the winner's completion is no older than the winner, and the
\* taker finds the completion abandoned.
LEMMA ClaimsClock ==
    ASSUME IInv, NEW i \in Invs, ClockOK(i),
           ClaimTerminalOutcome(i) \/ ClaimComplete(i) \/ ClaimFinalization(i)
    PROVE  ClockMove(i) /\ ClockKept
<1>. USE DEF IInv, TypeOK
<1>1. /\ inv[i] \in Invocation /\ Open \in BOOLEAN /\ Abandoned \in BOOLEAN
      /\ age[i] \in 0..InvLimit
  BY DEF Open, Abandoned, Row
<1>2. ASSUME Leave(i) PROVE inv'[i].pc \notin EffectSteps /\ ~inv'[i].taker
  BY <1>2, LeaveEnds DEF EffectSteps, Idle
<1>3. ASSUME NEW pc \in {"announce", "complete", "takeover"}, Goto(i, pc),
             inv[i].pc \notin EffectSteps
      PROVE  inv'[i].pc \notin EffectSteps /\ ~inv'[i].taker
  BY <1>3, GotoMoves DEF ClockOK, InvSteps, EffectSteps
<1>4. ASSUME NEW o \in {"complete"} \cup ShipBlockedOutcomes,
             \E d \in 0..age[i] : Open /\ row' = Closed(o, d)
      PROVE  ClockKept /\ row'.age <= age[i]
  <2>1. PICK d \in 0..age[i] : Open /\ row' = Closed(o, d)
    BY <1>4
  <2>2. d \in 0..InvLimit /\ d <= age[i] /\ o \in TerminalPhases
    BY <1>1, TimeAssumption DEF TerminalPhases
  <2>. QED BY <2>1, <2>2, ClosedRow, WritesKeepClock
<1>5. ASSUME NEW o \in {"complete"} \cup ShipBlockedOutcomes,
             \E d \in 0..age[i] : PerhapsWritten(Open, Closed(o, d))
      PROVE  ClockKept
  <2>1. PICK d \in 0..age[i] : PerhapsWritten(Open, Closed(o, d))
    BY <1>5
  <2>2. row' = row \/ (Open /\ row' = Closed(o, d))
    BY <1>1, <2>1, LostAnswer
  <2>. QED BY <1>4, <2>2, WritesKeepClock
<1>6. CASE ClaimTerminalOutcome(i)
  <2>1. inv[i].pc \notin EffectSteps /\ inv[i].verdict \in ShipBlockedOutcomes
    BY <1>6 DEF ClaimTerminalOutcome, InvOK, EffectSteps
  <2>2. ClockMove(i)
    BY <1>2, <1>3, <1>6, <2>1 DEF ClaimTerminalOutcome, ClockMove
  <2>3. ClockKept
    BY <1>4, <1>5, <1>6, <2>1, WritesKeepClock DEF ClaimTerminalOutcome
  <2>. QED BY <2>2, <2>3
<1>7. CASE ClaimComplete(i)
  <2>1. inv[i].pc \notin EffectSteps /\ ~inv[i].taker
    BY <1>7 DEF ClaimComplete, ClockOK, EffectSteps
  <2>2. CASE Open /\ (\E d \in 0..age[i] : row' = Closed("complete", d)) /\ Goto(i, "deliver")
    <3>1. inv'[i].pc = "deliver" /\ ~inv'[i].taker
      BY <2>1, <2>2, GotoMoves DEF InvSteps, EffectSteps
    <3>2. ClockKept /\ row'.age <= age[i]
      BY <1>4, <2>2
    <3>. QED BY <1>7, <2>2, <3>1, <3>2 DEF ClaimComplete, ClockMove, EffectSteps
  <2>3. CASE Goto(i, "takeover") /\ UNCHANGED row
    BY <1>3, <2>1, <2>3, WritesKeepClock DEF ClockMove
  <2>4. CASE Leave(i) /\ \E d \in 0..age[i] : PerhapsWritten(Open, Closed("complete", d))
    BY <1>2, <1>5, <2>4 DEF ClockMove
  <2>. QED BY <1>7, <2>2, <2>3, <2>4 DEF ClaimComplete
<1>8. CASE ClaimFinalization(i)
  <2>1. CASE Abandoned /\ row' = Finalized
             /\ inv' = [inv EXCEPT ![i].pc = "deliver", ![i].taker = TRUE]
    <3>. DEFINE x == [inv[i] EXCEPT !.pc = "deliver", !.taker = TRUE]
    <3>1. x.pc = "deliver" /\ x.taker = TRUE
      BY <1>1 DEF Invocation
    <3>2. inv' = [inv EXCEPT ![i] = x]
      BY <2>1
    <3>. HIDE DEF x
    <3>3. inv'[i].pc = "deliver" /\ inv'[i].taker
      BY <3>1, <3>2
    <3>. QED BY <2>1, <3>3, RowHelpers, WritesKeepClock DEF ClockMove, EffectSteps
  <2>2. CASE Leave(i) /\ row' \in {row, Finalized}
    BY <1>2, <2>2, WritesKeepClock DEF ClockMove
  <2>3. CASE Leave(i) /\ PerhapsWritten(Abandoned, Finalized)
    BY <1>1, <2>2, <2>3, LostAnswer
  <2>. QED BY <1>8, <2>1, <2>2, <2>3 DEF ClaimFinalization
<1>. QED BY <1>6, <1>7, <1>8

\* In the side effects an invocation goes on, until the marker ends it.
LEMMA EffectsClock ==
    ASSUME IInv, NEW i \in Invs, ClockOK(i),
           SideEffects(i) \/ PublishComplete(i) \/ MarkFinalized(i)
    PROVE  ClockMove(i) /\ row' \in {row, Finalized, Paged}
<1>. USE DEF IInv, TypeOK
<1>1. CASE SideEffects(i)
  <2>1. inv'[i].pc = "publish" /\ inv'[i].taker = inv[i].taker
    BY <1>1, GotoMoves DEF SideEffects, InvSteps, EffectSteps
  <2>. QED BY <1>1, <2>1 DEF SideEffects, ClockMove, EffectSteps
<1>2. CASE PublishComplete(i)
  <2>1. inv'[i].pc = "mark" /\ inv'[i].taker = inv[i].taker
    BY <1>2, GotoMoves DEF PublishComplete, InvSteps, EffectSteps
  <2>. QED BY <1>2, <2>1 DEF PublishComplete, ClockMove, EffectSteps
<1>3. CASE MarkFinalized(i)
  <2>1. inv'[i].pc = "idle" /\ ~inv'[i].taker
    BY <1>3, LeaveEnds DEF MarkFinalized, Idle
  <2>. QED BY <1>3, <2>1 DEF MarkFinalized, ClockMove, EffectSteps
<1>. QED BY <1>1, <1>2, <1>3

\* The complete route and everyone but the clock itself leave the clock alone.
LEMMA OthersClock ==
    ASSUME IInv,
           \/ \E r \in Routes : RouteRead(r) \/ RouteStep(r) \/ RouteDie(r)
           \/ CancelClaim \/ CancelPublish
           \/ \E p \in OpenPhases : AdvancePhase(p)
           \/ \E fact \in Facts : WorkArrives(fact)
    PROVE  ClockKept /\ UNCHANGED <<inv, age>>
<1>. USE DEF IInv, TypeOK
<1>1. row \in Row /\ Open \in BOOLEAN
  BY DEF Open, Row
<1>2. ASSUME NEW r \in Routes, RouteRead(r) \/ RouteStep(r) \/ RouteDie(r)
      PROVE  ClockKept /\ UNCHANGED <<inv, age>>
  <2>1. ASSUME NEW o \in {"complete"} \cup ShipBlockedOutcomes,
               row' = row \/ (Open /\ \E d \in 0..InvLimit : row' = RouteClosed(r, o, d))
        PROVE  ClockKept
    <3>1. o \in TerminalPhases
      BY DEF TerminalPhases
    <3>. QED BY <2>1, <3>1, WritesKeepClock
  <2>2. CASE RouteRead(r) \/ RouteAnnounceBlocked(r) \/ RouteRollUp(r) \/ RoutePublish(r)
             \/ RouteDie(r)
    BY <2>2, WritesKeepClock
       DEF RouteRead, RouteAnnounceBlocked, RouteRollUp, RoutePublish, RouteDie
  <2>3. CASE RouteClaimBlocked(r)
    <3>1. route[r].verdict \in ShipBlockedOutcomes
      BY <2>3 DEF RouteClaimBlocked, RouteOK
    <3>2. \/ row' = row
          \/ Open /\ \E d \in 0..InvLimit : row' = RouteClosed(r, route[r].verdict, d)
      BY <1>1, <2>3, LostAnswer DEF RouteClaimBlocked
    <3>. QED BY <2>1, <2>3, <3>1, <3>2 DEF RouteClaimBlocked
  <2>4. CASE RouteClaimComplete(r)
    <3>1. \/ row' = row
          \/ Open /\ \E d \in 0..InvLimit : row' = RouteClosed(r, "complete", d)
      BY <1>1, <2>4, LostAnswer DEF RouteClaimComplete
    <3>. QED BY <2>1, <2>4, <3>1 DEF RouteClaimComplete
  <2>. QED BY <1>2, <2>2, <2>3, <2>4 DEF RouteStep
<1>3. CASE CancelClaim
  <2>1. row' = [row EXCEPT !.phase = "cancelled", !.cancelledAt = TRUE]
    BY <1>3 DEF CancelClaim
  <2>2. row'.phase = "cancelled" /\ row'.finalizedAt = row.finalizedAt /\ row'.age = row.age
    BY <1>1, <2>1 DEF Row
  <2>. QED BY <1>3, <2>2 DEF CancelClaim, ClockKept
<1>4. ASSUME NEW p \in OpenPhases, AdvancePhase(p)
      PROVE  ClockKept /\ UNCHANGED <<inv, age>>
  <2>1. row' = [row EXCEPT !.phase = p]
    BY <1>4 DEF AdvancePhase
  <2>2. row'.phase = p /\ row'.finalizedAt = row.finalizedAt /\ row'.age = row.age
          /\ p # "complete"
    BY <1>1, <2>1, PhasesAssumption DEF Row, TerminalPhases
  <2>. QED BY <1>4, <2>2 DEF AdvancePhase, ClockKept
<1>5. CASE CancelPublish \/ \E fact \in Facts : WorkArrives(fact)
  BY <1>5, WritesKeepClock DEF CancelPublish, WorkArrives
<1>. QED BY <1>2, <1>3, <1>4, <1>5

\* The invocations that do not move are carried along by the clock.
LEMMA WaitingClock ==
    ASSUME IInv, ClockKept, NEW j \in Invs, ClockOK(j), inv'[j] = inv[j], age'[j] = age[j]
    PROVE  ClockOK(j)'
BY DEF IInv, InvOK, ClockKept, ClockOK, TerminalPhases

\* Whoever enters the side effects finds nobody there.
LEMMA EntersAlone ==
    ASSUME IInv, FinInv, NEW j \in Invs, inv[j].pc \in EffectSteps
    PROVE  ~Open /\ ~Abandoned
<1>1. row.phase = "complete"
  BY DEF IInv, InvOK
<1>2. CASE inv[j].taker
  BY <1>1, <1>2 DEF FinInv, ClockOK, Open, Abandoned, TerminalPhases
<1>3. CASE ~inv[j].taker
  <2>1. row.age <= age[j] /\ age[j] \in 0..InvLimit /\ row.age \in Nat
    BY <1>3, TimeAssumption DEF FinInv, ClockOK, IInv, TypeOK, Row
  <2>2. ~(row.age > StaleWindow)
    BY <2>1, TimeAssumption
  <2>. QED BY <1>1, <2>2 DEF Open, Abandoned, TerminalPhases
<1>. QED BY <1>2, <1>3

\* Every step keeps the clocks in order and the side effects apart.
LEMMA FinNext == IInv /\ FinInv /\ [Next]_vars => FinInv'
<1>. SUFFICES ASSUME IInv, FinInv, [Next]_vars PROVE FinInv'
  OBVIOUS
<1>0. \A i \in Invs : ClockOK(i)
  BY DEF FinInv
<1>1. ASSUME NEW i \in Invs, Deliver(i) \/ InvStep(i) \/ Die(i)
      PROVE  FinInv'
  <2>1. ClockMove(i) /\ ClockKept
    BY <1>0, <1>1, OutsideClock, ClaimsClock, EffectsClock, WritesKeepClock DEF InvStep
  <2>2. \A j \in Invs \ {i} : inv'[j] = inv[j]
    BY <1>1, GatesEffect, ClaimsEffect, AftermathEffect DEF InvStep, InvMoved
  <2>3. \A j \in Invs \ {i} : age'[j] = age[j]
    BY <1>1 DEF InvStep, Deliver, Enter, Evidence, Verdict, Probe, Die, ClaimTerminalOutcome,
          AnnounceBlocked, PageBlocked, StampBlocked, ClaimComplete, ClaimFinalization,
          SideEffects, PublishComplete, MarkFinalized, IInv, TypeOK
  <2>4. \A j \in Invs \ {i} : ClockOK(j)'
    BY <1>0, <2>1, <2>2, <2>3, WaitingClock
  <2>5. ClockOK(i)'
    BY <1>0, <2>1 DEF ClockMove, ClockOK
  <2>6. ASSUME NEW j \in Invs \ {i}, inv'[i].pc \in EffectSteps, inv'[j].pc \in EffectSteps
        PROVE  FALSE
    <3>1. ~Open /\ ~Abandoned
      BY <2>2, <2>6, EntersAlone
    <3>2. inv[i].pc \in EffectSteps
      BY <2>1, <2>6, <3>1 DEF ClockMove
    <3>. QED BY <2>2, <2>6, <3>2 DEF FinInv, OneFinalizer
  <2>. QED BY <2>2, <2>4, <2>5, <2>6 DEF FinInv, OneFinalizer
<1>2. CASE \/ \E r \in Routes : RouteRead(r) \/ RouteStep(r) \/ RouteDie(r)
           \/ CancelClaim \/ CancelPublish
           \/ \E p \in OpenPhases : AdvancePhase(p)
           \/ \E fact \in Facts : WorkArrives(fact)
  <2>1. ClockKept /\ UNCHANGED <<inv, age>>
    BY <1>2, OthersClock
  <2>. QED BY <1>0, <2>1, WaitingClock DEF FinInv, OneFinalizer
<1>3. CASE Tick
  <2>1. UNCHANGED inv
    BY <1>3 DEF Tick
  <2>2. ASSUME NEW j \in Invs PROVE ClockOK(j)'
    <3>1. row'.finalizedAt = row.finalizedAt /\ row'.age <= row.age + 1 /\ row.age \in Nat
      BY <1>3, TickedRow, TimeAssumption DEF IInv, TypeOK, Row
    <3>2. inv[j].pc \in EffectSteps => age'[j] = age[j] + 1
      BY <1>3 DEF Tick, EffectSteps
    <3>3. age[j] \in Nat
      BY TimeAssumption DEF IInv, TypeOK
    <3>4. CASE inv[j].pc \in EffectSteps /\ ~inv[j].taker
      <4>1. row.age <= age[j]
        BY <1>0, <3>4 DEF ClockOK
      <4>2. row'.age <= age'[j]
        <5>1. row'.age \in Nat
          BY <1>3, TickedRow, TimeAssumption DEF IInv, TypeOK, Row
        <5>. QED BY <3>1, <3>2, <3>3, <3>4, <4>1, <5>1
      <4>. QED BY <2>1, <3>4, <4>2 DEF ClockOK
    <3>5. CASE ~(inv[j].pc \in EffectSteps /\ ~inv[j].taker)
      BY <1>0, <2>1, <3>1, <3>5 DEF ClockOK
    <3>. QED BY <3>4, <3>5
  <2>. QED BY <2>1, <2>2 DEF FinInv, OneFinalizer
<1>4. CASE UNCHANGED vars
  BY <1>0, <1>4 DEF vars, FinInv, ClockOK, OneFinalizer
<1>. QED BY <1>1, <1>2, <1>3, <1>4 DEF Next

\* Two invocations never carry out the side effects of one completion at once.
THEOREM OneFinalizerCorrect == Spec => []OneFinalizer
<1>1. Init => FinInv
  BY DEF Init, FinInv, ClockOK, OneFinalizer, Idle, EffectSteps
<1>2. FinInv => OneFinalizer
  BY DEF FinInv
<1>. QED BY <1>1, <1>2, FinNext, IInvHolds, PTL DEF Spec

-----------------------------------------------------------------------------
(************** The take-over needs an old row from the index **************)

\* An invocation that read its snapshot before the run was complete is at least
\* as old as the completion, give or take the age of the completer's stamp.
Late(i) == /\ inv[i].pc # "idle"
           /\ ~(inv[i].pc = "enter" /\ Terminal(inv[i].snap))
LagOK(i) == Late(i) /\ row.phase = "complete" => row.age <= age[i] + InvLimit
LagInv == \A i \in Invs : LagOK(i)

\* If the row is read consistently, an invocation that goes on after the run is
\* complete has read it before.
LEMMA StaysLate ==
    ASSUME IInv, ~IndexLags, NEW i \in Invs, Deliver(i) \/ InvStep(i) \/ Die(i),
           row.phase = "complete", Late(i)'
    PROVE  Late(i) /\ age'[i] = age[i]
<1>. USE DEF IInv, TypeOK
<1>0. inv[i] \in Invocation /\ Terminal("complete")
  BY DEF TerminalPhases
<1>1. CASE Deliver(i)
  <2>1. DeliverWith(i, "complete")
    BY <1>1 DEF Deliver
  <2>. DEFINE x == [Idle EXCEPT !.pc = "enter", !.snap = "complete"]
  <2>2. inv' = [inv EXCEPT ![i] = x] /\ x.pc = "enter" /\ x.snap = "complete"
    BY <2>1 DEF DeliverWith, Idle
  <2>. HIDE DEF x
  <2>3. inv'[i].pc = "enter" /\ inv'[i].snap = "complete"
    BY <2>2
  <2>. QED BY <1>0, <2>3 DEF Late
<1>2. CASE Die(i)
  <2>1. inv'[i].pc = "idle"
    BY <1>2, LeaveEnds DEF Die
  <2>. QED BY <2>1 DEF Late
<1>3. CASE Enter(i)
  <2>1. EnterWith(i, row.phase) \/ EnterWith(i, inv[i].snap)
    BY <1>3 DEF Enter
  <2>2. ~Leave(i)
    <3>1. Leave(i) => inv'[i].pc = "idle"
      BY LeaveEnds
    <3>. QED BY <3>1 DEF Late
  <2>3. ~Terminal(inv[i].snap)
    BY <1>0, <2>1, <2>2 DEF EnterWith
  <2>. QED BY <1>3, <2>3 DEF Enter, Late
<1>4. CASE InvStep(i) /\ ~Enter(i)
  BY <1>4 DEF InvStep, Evidence, Verdict, Probe, ClaimTerminalOutcome, AnnounceBlocked,
     PageBlocked, StampBlocked, ClaimComplete, ClaimFinalization, SideEffects,
     PublishComplete, MarkFinalized, Late
<1>. QED BY <1>1, <1>2, <1>3, <1>4

\* A step that is not the clock's keeps the bound of an invocation that was late
\* already, and gives it to one that sees the run being closed.
LEMMA LagKept ==
    ASSUME IInv, IInv', ClockKept, NEW j \in Invs, LagOK(j),
           Terminal(row.phase) => row'.phase = row.phase,
           row.phase = "complete" /\ Late(j)' => Late(j) /\ age'[j] = age[j]
    PROVE  LagOK(j)'
<1>. SUFFICES ASSUME Late(j)', row'.phase = "complete"
              PROVE  row'.age <= age'[j] + InvLimit
  BY DEF LagOK
<1>1. age'[j] \in Nat /\ age[j] \in Nat /\ row'.age \in Nat
  BY TimeAssumption DEF IInv, TypeOK, Row
<1>2. CASE Terminal(row.phase)
  BY <1>1, <1>2 DEF ClockKept, LagOK
<1>3. CASE ~Terminal(row.phase)
  BY <1>1, <1>3, TimeAssumption DEF ClockKept
<1>. QED BY <1>2, <1>3

\* Every step keeps the bound.
LEMMA LagNext ==
    IInv /\ IInv' /\ FinInv /\ ~IndexLags /\ LagInv /\ [Next]_vars => LagInv'
<1>. SUFFICES ASSUME IInv, IInv', FinInv, ~IndexLags, LagInv, [Next]_vars
              PROVE  LagInv'
  OBVIOUS
<1>0. /\ \A i \in Invs : ClockOK(i)
      /\ \A i \in Invs : LagOK(i)
  BY DEF FinInv, LagInv
<1>1. ASSUME NEW i \in Invs, Deliver(i) \/ InvStep(i) \/ Die(i)
      PROVE  LagInv'
  <2>1. ClockKept
    BY <1>0, <1>1, OutsideClock, ClaimsClock, EffectsClock, WritesKeepClock DEF InvStep
  <2>2. /\ RowKept \/ RowClosed
        /\ \A j \in Invs \ {i} : inv'[j] = inv[j]
    BY <1>1, GatesEffect, ClaimsEffect, AftermathEffect DEF InvStep, InvMoved
  <2>3. \A j \in Invs \ {i} : age'[j] = age[j]
    BY <1>1 DEF InvStep, Deliver, Enter, Evidence, Verdict, Probe, Die, ClaimTerminalOutcome,
          AnnounceBlocked, PageBlocked, StampBlocked, ClaimComplete, ClaimFinalization,
          SideEffects, PublishComplete, MarkFinalized, IInv, TypeOK
  <2>4. Terminal(row.phase) => row'.phase = row.phase
    BY <2>2, PhaseStays
  <2>5. ASSUME NEW j \in Invs PROVE LagOK(j)'
    <3>1. CASE j = i
      BY <1>0, <1>1, <2>1, <2>4, <3>1, StaysLate, LagKept
    <3>2. CASE j # i
      BY <1>0, <2>1, <2>2, <2>3, <2>4, <3>2, LagKept DEF Late
    <3>. QED BY <3>1, <3>2
  <2>. QED BY <2>5 DEF LagInv
<1>2. CASE \/ \E r \in Routes : RouteRead(r) \/ RouteStep(r) \/ RouteDie(r)
           \/ CancelClaim \/ CancelPublish
           \/ \E p \in OpenPhases : AdvancePhase(p)
           \/ \E fact \in Facts : WorkArrives(fact)
  <2>1. ClockKept /\ UNCHANGED <<inv, age>>
    BY <1>2, OthersClock
  <2>2. Terminal(row.phase) => row'.phase = row.phase
    <3>1. CASE \E r \in Routes : RouteRead(r) \/ RouteStep(r) \/ RouteDie(r)
      BY <3>1, RouteEffect, PhaseStays DEF Announced
    <3>2. CASE \/ CancelClaim \/ CancelPublish
               \/ \E p \in OpenPhases : AdvancePhase(p)
               \/ \E fact \in Facts : WorkArrives(fact)
      BY <3>2, OthersEffect, PhaseStays
    <3>. QED BY <1>2, <3>1, <3>2
  <2>. QED BY <1>0, <2>1, <2>2, LagKept DEF LagInv, Late
<1>3. CASE Tick
  <2>1. /\ UNCHANGED inv
        /\ \A j \in Invs : inv[j].pc # "idle" => age'[j] = age[j] + 1
    BY <1>3 DEF Tick, IInv, TypeOK
  <2>2. row'.phase = row.phase /\ row'.age <= row.age + 1 /\ row.age \in Nat /\ row'.age \in Nat
    BY <1>3, TickedRow, TimeAssumption DEF IInv, TypeOK, Row
  <2>3. ASSUME NEW j \in Invs PROVE LagOK(j)'
    <3>. SUFFICES ASSUME Late(j)', row'.phase = "complete"
                  PROVE  row'.age <= age'[j] + InvLimit
      BY DEF LagOK
    <3>1. Late(j) /\ inv[j].pc # "idle"
      BY <2>1 DEF Late
    <3>2. row.age <= age[j] + InvLimit
      BY <1>0, <2>2, <3>1 DEF LagOK
    <3>3. age'[j] = age[j] + 1 /\ age[j] \in Nat
      BY <2>1, <3>1, TimeAssumption DEF IInv, TypeOK
    <3>. QED BY <2>2, <3>2, <3>3, TimeAssumption
  <2>. QED BY <2>3 DEF LagInv
<1>4. CASE UNCHANGED vars
  BY <1>0, <1>4 DEF vars, LagInv, LagOK, Late
<1>. QED BY <1>1, <1>2, <1>3, <1>4 DEF Next

\* An invocation that reads the run consistently never finds a completion it may
\* take over: the wait is longer than the lives of the completer and of the one
\* that takes over together.
THEOREM TakeOverUnreachable ==
    ASSUME ~IndexLags PROVE Spec => []~TakeOverGranted
<1>1. Init => LagInv
  BY DEF Init, LagInv, LagOK, Late, Idle
<1>2. IInv /\ LagInv => ~TakeOverGranted
  <2>. SUFFICES ASSUME IInv, LagInv, NEW i \in Invs, inv[i].pc = "takeover", Abandoned
                PROVE  FALSE
    BY DEF TakeOverGranted
  <2>1. Late(i) /\ row.phase = "complete" /\ row.age > StaleWindow
    BY DEF Late, Abandoned
  <2>2. row.age <= age[i] + InvLimit
    BY <2>1 DEF LagInv, LagOK
  <2>3. age[i] \in 0..InvLimit /\ row.age \in Nat
    BY TimeAssumption DEF IInv, TypeOK, Row
  <2>. QED BY <2>1, <2>2, <2>3, TimeAssumption
<1>3. Init => FinInv
  BY DEF Init, FinInv, ClockOK, OneFinalizer, Idle, EffectSteps
<1>4. IInv /\ IInv' /\ FinInv /\ LagInv /\ [Next]_vars => LagInv'
  BY LagNext
<1>. QED BY <1>1, <1>2, <1>3, <1>4, FinNext, IInvHolds, PTL DEF Spec

=============================================================================
