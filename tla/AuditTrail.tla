------------------------------ MODULE AuditTrail ------------------------------
(***************************************************************************)
(* What the audit logger promises its callers, without buffer, flushes,    *)
(* hashes or modes: entries wait in one line, in the order they were       *)
(* accepted, and leave it one by one at its head for the end of a trail    *)
(* that only grows.  The one entry that may leave the line without being   *)
(* recorded is one that cannot be recorded at all.                         *)
(***************************************************************************)
EXTENDS Sequences

CONSTANTS
    Entry,           \* audit ids of the entries a client may submit
    Unrecordable     \* those that no trail can hold

VARIABLES
    accepted,        \* the ids accepted so far, each once
    line,            \* accepted and not yet recorded, oldest first
    trail            \* the recorded ids

vars == <<accepted, line, trail>>

Init == accepted = {} /\ line = <<>> /\ trail = <<>>

\* e leaves the line: it is recorded, or refused because it cannot be.
Settled(e) == trail' = IF e \in Unrecordable THEN trail ELSE Append(trail, e)

Accept(e) ==
    /\ e \notin accepted
    /\ accepted' = accepted \union {e}
    /\ line' = Append(line, e)
    /\ UNCHANGED trail

\* An entry may be recorded in the call that accepts it, when nothing waits.
AcceptAndSettle(e) ==
    /\ e \notin accepted
    /\ line = <<>>
    /\ accepted' = accepted \union {e}
    /\ Settled(e)
    /\ UNCHANGED line

SettleFirst ==
    /\ line # <<>>
    /\ Settled(Head(line))
    /\ line' = Tail(line)
    /\ UNCHANGED accepted

Next == (\E e \in Entry : Accept(e) \/ AcceptAndSettle(e)) \/ SettleFirst

Spec == Init /\ [][Next]_vars
=============================================================================
