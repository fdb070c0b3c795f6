------------------------------ MODULE ClaimLock ------------------------------
(***************************************************************************)
(* What the invocation claim on one ticket promises its users.             *)
(*                                                                         *)
(* A claim is a numbered generation (the startedAt the winning dispatcher  *)
(* wrote).  Generations are handed out one at a time, only while the run   *)
(* is open, and only when the claim is free or the previous generation has *)
(* outlived the stale-claim hatch.  A generation that has been handed out  *)
(* starts at most one agent session.  How claims are released, and by      *)
(* whom, is left open: ClaimLease is the code that does it.                *)
(***************************************************************************)
EXTENDS Naturals

VARIABLES
  open,     \* the run is neither cancelled nor in a terminal phase
  gen,      \* the number of generations handed out so far
  held,     \* generation gen is still held
  expired,  \* generation gen has outlived the stale-claim hatch
  sent      \* the generations for which an agent session was started

lockVars == <<open, gen, held, expired, sent>>

Init ==
  /\ open = TRUE
  /\ gen = 0
  /\ held = FALSE
  /\ expired \in BOOLEAN
  /\ sent = {}

Acquire ==
  /\ open
  /\ ~held \/ expired
  /\ gen' = gen + 1
  /\ held' = TRUE
  /\ expired' = FALSE
  /\ UNCHANGED <<open, sent>>

Release ==
  /\ held
  /\ held' = FALSE
  /\ UNCHANGED <<open, gen, expired, sent>>

StartSession ==
  /\ \E g \in 1 .. gen : g \notin sent /\ sent' = sent \cup {g}
  /\ UNCHANGED <<open, gen, held, expired>>

Expire ==
  /\ ~expired
  /\ expired' = TRUE
  /\ UNCHANGED <<open, gen, held, sent>>

Close ==
  /\ open
  /\ open' = FALSE
  /\ UNCHANGED <<gen, held, expired, sent>>

Next == Acquire \/ Release \/ StartSession \/ Expire \/ Close

Spec == Init /\ [][Next]_lockVars
=============================================================================
