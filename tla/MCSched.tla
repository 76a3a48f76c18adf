------------------------------- MODULE MCSched -------------------------------
(* Three harts, the fewest of which two defer to each other: the loop over   *)
(* the harts with a higher ID leaves the last one out.                       *)
EXTENDS Sched
=============================================================================
