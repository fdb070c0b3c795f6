---------------------------- MODULE MCRunTerminal ----------------------------
(* RunTerminal for TLC: which invocations may be swapped. *)
EXTENDS RunTerminal, TLC

Interchangeable == Permutations(Invs)
=============================================================================
