--------------------------- MODULE MCPriorityQueue ---------------------------
(***************************************************************************)
(* Two events in two priorities and two requests, which make five calls    *)
(* between them; one command raises.                                       *)
(***************************************************************************)
EXTENDS PriorityQueue, TLC

Symmetry == Permutations(Event) \cup Permutations(Request)
=============================================================================
