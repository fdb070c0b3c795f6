---------------------------- MODULE MCClaimLease ----------------------------
(* ClaimLease for TLC: which handlers may be swapped. *)
EXTENDS ClaimLease, TLC

Interchangeable == Permutations(Handlers)
=============================================================================
