--------------------------- MODULE PolicyRegister ---------------------------
(***************************************************************************)
(* What the policy manager promises whoever scores with its weights: one   *)
(* policy at a time is in force, a new one takes over in a single step     *)
(* without a moment in which none or both are, and a policy that was       *)
(* replaced or withdrawn never comes back.  Caches, copies and the steps   *)
(* of a request are no part of it.                                         *)
(***************************************************************************)
EXTENDS Integers

CONSTANT
    Policy           \* the policies there may be, numbered from 1

VARIABLES
    in_force,        \* the policy in force, 0 when there is none
    withdrawn        \* those that were in force and are no longer

vars == <<in_force, withdrawn>>

Init == in_force = 0 /\ withdrawn = {}

Leaves == withdrawn' = withdrawn \union ({in_force} \ {0})

TakeOver(i) ==
    /\ i # in_force /\ i \notin withdrawn
    /\ in_force' = i
    /\ Leaves

Withdraw ==
    /\ in_force # 0
    /\ in_force' = 0
    /\ Leaves

Next == (\E i \in Policy : TakeOver(i)) \/ Withdraw

Spec == Init /\ [][Next]_vars
=============================================================================
