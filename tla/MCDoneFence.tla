----------------------------- MODULE MCDoneFence -----------------------------
(***************************************************************************)
(* DoneFence for TLC: the budgets of its runs.                              *)
(***************************************************************************)
EXTENDS DoneFence

Budget(reports, moves, faults) == [reports |-> reports, moves |-> moves, faults |-> faults]

Mixed == {Budget(2, 1, 1), Budget(1, 2, 1), Budget(1, 1, 2)}
================================================================================
