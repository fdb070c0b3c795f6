----------------------------- MODULE RunOutcome -----------------------------
(***************************************************************************)
(* What the closing of a run promises to everyone who listens: a run is    *)
(* closed once, with one outcome, for ever; and a terminal event names the *)
(* outcome the run has.  Who closes it - an orchestrator invocation, the   *)
(* complete route, the cancel route - and how often an event is repeated   *)
(* is left open.  RunTerminal implements this specification.               *)
(***************************************************************************)
CONSTANT Outcomes

VARIABLES outcome,  \* the outcome of the run, Undecided while it is open
          told      \* the outcomes that have been announced

vars == <<outcome, told>>

Undecided == "open"

Init == /\ outcome = Undecided
        /\ told = {}

\* Someone closes the run.
Decide(o) == /\ outcome = Undecided
             /\ outcome' = o
             /\ UNCHANGED told

\* Someone announces the outcome, perhaps not for the first time.
Announce == /\ outcome # Undecided
            /\ told' = told \cup {outcome}
            /\ UNCHANGED outcome

Next == \/ \E o \in Outcomes : Decide(o)
        \/ Announce

Spec == Init /\ [][Next]_vars
=============================================================================
