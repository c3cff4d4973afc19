----------------------------- MODULE RedisStream -----------------------------
(***************************************************************************)
(* A Redis stream read through a consumer group, as the consumers of the   *)
(* services use it.  A stream is the sequence of its messages and a        *)
(* message is named by its position.  A group remembers the last message   *)
(* delivered to it and the messages delivered and not acknowledged (the    *)
(* pending entries list).  Every consumer reads with the id ">": only      *)
(* messages never delivered to the group.                                  *)
(*                                                                         *)
(* The streams are capped at ten thousand messages (maxlen); the models    *)
(* stay below the cap, so trimming never occurs in them.                   *)
(***************************************************************************)
EXTENDS Naturals, Sequences

\* xgroup_create(id="0"): the group starts before the first message.
NewGroup == [last |-> 0, pending |-> {}]

\* Messages of `stream` not yet delivered to the group.
Undelivered(group, stream) == group.last < Len(stream)

\* Messages xreadgroup(count) delivers: the first `count` undelivered ones.
NextBatch(group, stream, count) ==
    {i \in 1..Len(stream) : group.last < i /\ i <= group.last + count}

\* The group after that delivery.
XReadGroup(group, batch) ==
    [last |-> CHOOSE i \in batch : \A j \in batch : j <= i,
     pending |-> group.pending \cup batch]

\* xack of the messages `ids`.
XAck(group, ids) == [group EXCEPT !.pending = @ \ ids]

\* Messages delivered to the group and acknowledged.
Acked(group) == 1..group.last \ group.pending
=============================================================================
