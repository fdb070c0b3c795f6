------------------------------- MODULE SweepScan -------------------------------
(***************************************************************************)
(* The rotating window of the orchestrator's two sweeps over the open runs *)
(* (lambda/orchestrator/sweep-scan.mjs): newest first, SWEEP_CAP runs at a *)
(* time, one page per quantum of the clock.  A run's place in the list is  *)
(* the number of runs ahead of it.                                         *)
(***************************************************************************)
EXTENDS Naturals

CONSTANT SWEEP_CAP
ASSUME CapAssumption == SWEEP_CAP \in Nat \ {0}

\* Mutant: the last page, when it is not full, is not counted.
PagesFloor(n) == IF n < SWEEP_CAP THEN 1 ELSE n \div SWEEP_CAP

\* Math.max(1, Math.ceil(n / SWEEP_CAP)).
Pages(n) == IF n = 0 THEN 1 ELSE (n + SWEEP_CAP - 1) \div SWEEP_CAP

\* Mutant: the fixed newest-first cut the window once was.
FirstPage(n, quantum) == 0

Rotation(n, quantum) == IF Pages(n) = 1 THEN 0 ELSE quantum % Pages(n)

\* Place i of n is on the page that this quantum inspects.
InWindow(i, n, quantum) ==
  /\ Rotation(n, quantum) * SWEEP_CAP <= i
  /\ i < (Rotation(n, quantum) + 1) * SWEEP_CAP
=============================================================================
