------------------------------ MODULE ReviewCap ------------------------------
(***************************************************************************)
(* The convergence ledger of a review gate (review-cap.mjs, ship-review.mjs *)
(* and the ledger writes of workflow-store.mjs): which round a rejection    *)
(* is recorded as, how much it weighs, and when the rework loop stops.      *)
(* The reviewed head SHA is absent, as it normally is                       *)
(* (index.mjs:2043-2044), so the feedback alone tells rounds apart.  A      *)
(* change set is never recorded with a round.                               *)
(***************************************************************************)
EXTENDS Naturals, Sequences, FiniteSets

CONSTANTS Notes,     \* the feedback texts a rejection may carry
          MaxRounds  \* the gate's cap

ASSUME MaxRoundsAssumption == MaxRounds \in Nat \ {0}

\* reviewGateHistory[gate].  Entries of one round number replace each other, so the
\* rounds are a sequence; an escalation and an authorization name a round.
Ledger == [rounds : Seq([note : Notes, regression : BOOLEAN]),
           escalated : SUBSET Nat, authorized : SUBSET Nat]

Unreviewed == [rounds |-> <<>>, escalated |-> {}, authorized |-> {}]

\* openEscalation: the escalations nobody has authorized more rounds for.
OpenEscalations(l) == l.escalated \ l.authorized

\* The last round carries the same feedback: one rejection, delivered twice.
SameRound(l, note) == /\ l.rounds # <<>>
                      /\ l.rounds[Len(l.rounds)].note = note

\* buildRoundRecord's number.
RoundOf(l, note) == IF SameRound(l, note) THEN Len(l.rounds) ELSE Len(l.rounds) + 1

\* The feedback was there in some earlier round and is not in the previous one.
Regression(l, note) ==
    LET k == RoundOf(l, note)
    IN /\ k > 2
       /\ l.rounds[k - 1].note # note
       /\ \E i \in 1..(k - 2) : l.rounds[i].note = note

\* appendReviewRound with a record built from the ledger `seen`.
WithRound(l, seen, note) ==
    LET k == RoundOf(seen, note)
        r == [note |-> note, regression |-> Regression(seen, note)]
    IN [l EXCEPT !.rounds = IF k <= Len(@) THEN [@ EXCEPT ![k] = r] ELSE Append(@, r)]

\* effectiveRoundCount: rounds after the last authorized one, a regression twice.
Counted(l) == {i \in 1..Len(l.rounds) : \A a \in l.authorized : i > a}
Effective(l) == Cardinality(Counted(l))
                  + Cardinality({i \in Counted(l) : l.rounds[i].regression})

\* Mutant: the round that reaches the cap is still reworked.
CapPassed(l) == Effective(l) > MaxRounds

CapReached(l) == Effective(l) >= MaxRounds
=============================================================================
