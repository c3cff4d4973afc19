---------------------------- MODULE MCNexusPortal ----------------------------
(***************************************************************************)
(* Two cases, two actors, one unmask request and two threads, with up to   *)
(* three entries in the audit table.                                       *)
(***************************************************************************)
EXTENDS NexusPortal, TLC

Symmetry == Permutations(Case) \cup Permutations(Actor) \cup Permutations(Thread)
=============================================================================
