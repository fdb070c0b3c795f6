------------------------------- MODULE MCCascade -------------------------------
(* Cascade for TLC: two tickets that block a third. *)
EXTENDS Cascade

CONSTANTS build, design, review
MCBlockedBy == [t \in Tickets |-> IF t = review THEN {build, design} ELSE {}]
=============================================================================
