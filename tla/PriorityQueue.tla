---------------------------- MODULE PriorityQueue ----------------------------
(***************************************************************************)
(* PriorityQueueManager of event-publisher-svc: one sorted set of Redis    *)
(* per priority, ordered by the time an item was put there, and a tracking *)
(* set beside them.                                                        *)
(*                                                                         *)
(* Every Redis command is a step, since the requests are coroutines that   *)
(* await each command and none of them locks anything.  A command may      *)
(* raise, before or after the server carried it out; `faults` counts these *)
(* against MaxFaults.                                                      *)
(***************************************************************************)
EXTENDS Naturals, FiniteSets, FiniteSetsExt

CONSTANTS
    Event,          \* event ids; an event is enqueued once
    Request,        \* coroutines that call the manager
    Levels,         \* the priorities, 1 is CRITICAL
    MaxCalls,       \* bound: calls of the manager
    MaxFaults       \* bound: commands that raise

ASSUME PriorityQueueAssumption ==
    /\ IsFiniteSet(Request)
    /\ Levels \in Nat \ {0}
    /\ MaxCalls \in Nat
    /\ MaxFaults \in Nat

VARIABLES
    queues,     \* per level: the sorted set, as entries
    tracking,   \* the sorted set priority_queue_key, without its scores
    op,         \* per request: the call it executes and its locals
    clock,      \* datetime.now(), advanced when a score is taken
    calls,      \* calls begun
    faults,     \* commands that raised
    enqueued,   \* history: events whose first ZADD was carried out
    returned,   \* history: events whose enqueue returned True
    taken,      \* history: how often dequeue returned an event
    expired,    \* history: events cleanup_expired removed
    dropped,    \* history: events a failing call removed and did not put back
    missed,     \* history: events of which a ZREM removed nothing
    rewritten,  \* history: events moved or updated
    since       \* history, per request: the entries that were queued all the time
                \* since its call began

history == <<enqueued, returned, taken, expired, dropped, missed, rewritten>>
vars == <<queues, tracking, op, clock, calls, faults, history, since>>

Level == 1 .. Levels

\* The JSON of an item: rev counts the changes update_fn made to it.
Member == [event : Event, level : Level, rev : Nat]
Entry == [item : Member, score : Nat]

NoOp == [pc |-> "idle"]

Entries(q) == UNION {q[l] : l \in Level}

\* ZADD of a member that is there changes its score.
ZAdd(q, m, score) ==
    [q EXCEPT ![m.level] = {x \in @ : x.item # m} \cup {[item |-> m, score |-> score]}]
ZRem(q, m) == [q EXCEPT ![m.level] = {x \in @ : x.item # m}]
Holds(q, m) == \E x \in q[m.level] : x.item = m

\* ZRANGE 0 0
First(entries) == CHOOSE x \in entries : \A y \in entries : x.score <= y.score

Init ==
    /\ queues = [l \in Level |-> {}]
    /\ tracking = {}
    /\ op = [r \in Request |-> NoOp]
    /\ clock = 1
    /\ calls = 0
    /\ faults = 0
    /\ enqueued = {} /\ returned = {} /\ expired = {} /\ dropped = {}
    /\ missed = {} /\ rewritten = {}
    /\ taken = [e \in Event |-> 0]
    /\ since = [r \in Request |-> {}]

Raises == faults < MaxFaults /\ faults' = faults + 1
Succeeds == UNCHANGED faults

Begin(r, o) ==
    /\ op[r].pc = "idle"
    /\ calls < MaxCalls
    /\ calls' = calls + 1
    /\ op' = [op EXCEPT ![r] = o]

Return(r) == op' = [op EXCEPT ![r] = NoOp]

\* What is still queued of what was queued when each call began.
Observe == since' = [r \in Request |-> since[r] \cap Entries(queues')]

-----------------------------------------------------------------------------
\* enqueue takes the score and awaits the first ZADD.
Enqueue(r, e, l) ==
    /\ e \notin enqueued
    /\ \A s \in Request : op[s].pc = "adding" => op[s].item.event # e
    /\ Begin(r, [pc |-> "adding", item |-> [event |-> e, level |-> l, rev |-> 0],
                 score |-> clock])
    /\ clock' = clock + 1
    /\ UNCHANGED <<queues, tracking, faults, history, since>>

AddToQueue(r) ==
    /\ op[r].pc = "adding"
    /\ \/ /\ Succeeds /\ op' = [op EXCEPT ![r].pc = "tracking"]
          /\ queues' = ZAdd(queues, op[r].item, op[r].score)
          /\ enqueued' = enqueued \cup {op[r].item.event}
       \/ /\ Raises /\ Return(r)
          /\ \/ UNCHANGED <<queues, enqueued>>
             \/ /\ queues' = ZAdd(queues, op[r].item, op[r].score)
                /\ enqueued' = enqueued \cup {op[r].item.event}
    /\ Observe
    /\ UNCHANGED <<tracking, clock, calls, returned, taken, expired, dropped, missed,
                   rewritten>>

\* The ZADD to the tracking set.
AddToTracking(r) ==
    /\ op[r].pc = "tracking"
    /\ \/ /\ Succeeds
          /\ tracking' = tracking \cup {op[r].item}
          /\ returned' = returned \cup {op[r].item.event}
       \/ /\ Raises
          /\ tracking' \in {tracking, tracking \cup {op[r].item}}
          /\ UNCHANGED returned
    /\ Return(r)
    /\ UNCHANGED <<queues, clock, calls, enqueued, taken, expired, dropped, missed,
                   rewritten, since>>

-----------------------------------------------------------------------------
\* dequeue of one priority or of all.
Dequeue(r, asked) ==
    /\ Begin(r, [pc |-> "looking", asked |-> asked, all |-> asked])
    /\ since' = [since EXCEPT ![r] = Entries(queues)]
    /\ UNCHANGED <<queues, tracking, clock, faults, history>>

\* The queue a loop over priority_order or queue_map turns to next.
NextQueue(asked) == Min(asked)

\* Mutant: the newest item is taken.
HeadOfNewest(l) == CHOOSE x \in queues[l] : \A y \in queues[l] : x.score >= y.score

\* ZRANGE 0 0
HeadOf(l) == First(queues[l])

\* ZRANGE of the next queue; an empty one is passed over, and after the last one
\* the call returns None.
Look(r) ==
    LET l == NextQueue(op[r].asked)
        rest == op[r].asked \ {l}
    IN  /\ op[r].pc = "looking"
        /\ \/ /\ Succeeds
              /\ IF queues[l] # {}
                 THEN op' = [op EXCEPT ![r] = [pc |-> "removing", entry |-> HeadOf(l),
                                               item |-> HeadOf(l).item, all |-> op[r].all]]
                 ELSE IF rest = {} THEN Return(r)
                 ELSE op' = [op EXCEPT ![r].asked = rest]
           \/ Raises /\ Return(r)
        /\ UNCHANGED <<queues, tracking, clock, calls, history, since>>

\* Events a ZREM of member m finds gone; its return value is not looked at.
Miss(m) == IF Holds(queues, m) THEN {} ELSE {m.event}

\* Events a ZREM of member m takes out of the queues for good when it raises.
Loss(m) == IF Holds(queues, m) THEN {m.event} ELSE {}

\* Mutant: the head of the queue is popped (ZPOPMIN), whatever was read.
RemovalOfHead(m) ==
    [queues EXCEPT ![m.level] = @ \ {x \in @ : \A y \in @ : x.score <= y.score}]

Removal(m) == ZRem(queues, m)

Remove(r) ==
    LET m == op[r].item
    IN  /\ op[r].pc = "removing"
        /\ \/ /\ Succeeds /\ op' = [op EXCEPT ![r].pc = "untracking"]
              /\ queues' = Removal(m)
              /\ missed' = missed \cup Miss(m)
              /\ UNCHANGED dropped
           \/ /\ Raises /\ Return(r)
              /\ \/ UNCHANGED <<queues, dropped>>
                 \/ queues' = Removal(m) /\ dropped' = dropped \cup Loss(m)
              /\ UNCHANGED missed
        /\ Observe
        /\ UNCHANGED <<tracking, clock, calls, enqueued, returned, taken, expired, rewritten>>

\* The ZREM from the tracking set; when it raises the item is not returned.
Untrack(r) ==
    LET m == op[r].item
    IN  /\ op[r].pc = "untracking"
        /\ \/ /\ Succeeds
              /\ tracking' = tracking \ {m}
              /\ taken' = [taken EXCEPT ![m.event] = @ + 1]
              /\ UNCHANGED dropped
           \/ /\ Raises
              /\ tracking' \in {tracking, tracking \ {m}}
              /\ dropped' = dropped \cup {m.event}
              /\ UNCHANGED taken
        /\ Return(r)
        /\ UNCHANGED <<queues, clock, calls, enqueued, returned, expired, missed,
                       rewritten, since>>

-----------------------------------------------------------------------------
\* move_to_priority(e, l), and update_item(e, ...) with l = 0.
Rewrite(r, e, l) ==
    /\ Begin(r, [pc |-> "scanning", event |-> e, to |-> l, asked |-> Level, left |-> {},
                 score |-> 0])
    /\ UNCHANGED <<queues, tracking, clock, faults, history, since>>

IsMove(o) == o.to # 0

\* The item as it is put back.
Rewritten(o) ==
    IF IsMove(o) THEN [o.item EXCEPT !.level = o.to] ELSE [o.item EXCEPT !.rev = @ + 1]

\* The loops go on behind an item: with the next of the items read from this
\* queue, with the next queue, or to `return False`.
Onward(o) ==
    IF o.left # {}
    THEN [pc |-> "taking", event |-> o.event, to |-> o.to, asked |-> o.asked,
          item |-> First(o.left).item, left |-> o.left \ {First(o.left)}, score |-> clock]
    ELSE IF o.asked # {}
    THEN [pc |-> "scanning", event |-> o.event, to |-> o.to, asked |-> o.asked, left |-> {},
          score |-> 0]
    ELSE NoOp

\* ZRANGE 0 -1 of the next queue.  update_item takes its new score when it finds
\* the item.
Scan(r) ==
    LET o == op[r]
        l == NextQueue(o.asked)
        found == [o EXCEPT !.asked = @ \ {l},
                           !.left = {x \in queues[l] : x.item.event = o.event}]
    IN  /\ o.pc = "scanning"
        /\ \/ /\ Succeeds /\ op' = [op EXCEPT ![r] = Onward(found)]
              /\ clock' = clock + (IF found.left # {} /\ ~IsMove(o) THEN 1 ELSE 0)
           \/ Raises /\ Return(r) /\ UNCHANGED clock
        /\ UNCHANGED <<queues, tracking, calls, history, since>>

\* Mutant: the item is serialised after it was changed, and that member removed.
WithdrawalOfNew(o) == ZRem(queues, Rewritten(o))

Withdrawal(o) == ZRem(queues, o.item)

\* ZREM of the old item; move_to_priority takes the new score behind it.  What
\* raises inside the loop is skipped.
Take(r) ==
    LET o == op[r]
        m == o.item
    IN  /\ o.pc = "taking"
        /\ \/ /\ Succeeds
              /\ op' = [op EXCEPT ![r].pc = "putting",
                                  ![r].score = IF IsMove(o) THEN clock ELSE @]
              /\ clock' = clock + (IF IsMove(o) THEN 1 ELSE 0)
              /\ queues' = Withdrawal(o)
              /\ missed' = missed \cup Miss(m)
              /\ rewritten' = rewritten \cup {m.event}
              /\ UNCHANGED dropped
           \/ /\ Raises
              /\ op' = [op EXCEPT ![r] = Onward(o)]
              /\ clock' = clock + (IF o.left # {} /\ ~IsMove(o) THEN 1 ELSE 0)
              /\ \/ UNCHANGED <<queues, dropped>>
                 \/ queues' = Withdrawal(o) /\ dropped' = dropped \cup Loss(m)
              /\ UNCHANGED <<missed, rewritten>>
        /\ Observe
        /\ UNCHANGED <<tracking, calls, enqueued, returned, taken, expired>>

\* ZADD of the new item.
Put(r) ==
    LET o == op[r]
    IN  /\ o.pc = "putting"
        /\ \/ /\ Succeeds /\ Return(r)
              /\ queues' = ZAdd(queues, Rewritten(o), o.score)
              /\ UNCHANGED <<clock, dropped>>
           \/ /\ Raises
              /\ op' = [op EXCEPT ![r] = Onward(o)]
              /\ clock' = clock + (IF o.left # {} /\ ~IsMove(o) THEN 1 ELSE 0)
              /\ \/ queues' = ZAdd(queues, Rewritten(o), o.score) /\ UNCHANGED dropped
                 \/ dropped' = dropped \cup {o.item.event} /\ UNCHANGED queues
        /\ Observe
        /\ UNCHANGED <<tracking, calls, enqueued, returned, taken, expired, missed, rewritten>>

-----------------------------------------------------------------------------
\* cleanup_expired: the scores up to `cutoff` are older than max_age_hours.
Cleanup(r, cutoff) ==
    /\ Begin(r, [pc |-> "expiring", asked |-> Level, cutoff |-> cutoff])
    /\ UNCHANGED <<queues, tracking, clock, faults, history, since>>

Old(l, cutoff) == {x \in queues[l] : x.score <= cutoff}

\* ZREMRANGEBYSCORE of the next queue.
Expire(r) ==
    LET l == NextQueue(op[r].asked)
        old == Old(l, op[r].cutoff)
        rest == op[r].asked \ {l}
        removed == /\ queues' = [queues EXCEPT ![l] = @ \ old]
                   /\ expired' = expired \cup {x.item.event : x \in old}
    IN  /\ op[r].pc = "expiring"
        /\ \/ /\ Succeeds /\ removed
              /\ IF rest = {} THEN Return(r) ELSE op' = [op EXCEPT ![r].asked = rest]
           \/ Raises /\ Return(r) /\ (removed \/ UNCHANGED <<queues, expired>>)
        /\ Observe
        /\ UNCHANGED <<tracking, clock, calls, enqueued, returned, taken, dropped, missed,
                       rewritten>>

-----------------------------------------------------------------------------
Step(r) ==
    \/ AddToQueue(r) \/ AddToTracking(r)
    \/ Look(r) \/ Remove(r) \/ Untrack(r)
    \/ Scan(r) \/ Take(r) \/ Put(r)
    \/ Expire(r)

Call(r) ==
    \/ \E e \in Event, l \in Level : Enqueue(r, e, l)
    \/ \E asked \in {Level} \cup {{l} : l \in Level} : Dequeue(r, asked)
    \/ \E e \in Event, l \in 0 .. Levels : Rewrite(r, e, l)
    \/ \E cutoff \in 0 .. clock - 1 : Cleanup(r, cutoff)

Next == \E r \in Request : Call(r) \/ Step(r)

Spec == Init /\ [][Next]_vars
-----------------------------------------------------------------------------
Asked == (SUBSET Level) \ {{}}

OpType ==
    [pc : {"idle"}]
    \cup [pc : {"adding", "tracking"}, item : Member, score : Nat]
    \cup [pc : {"looking"}, asked : Asked, all : Asked]
    \cup [pc : {"removing", "untracking"}, entry : Entry, item : Member, all : Asked]
    \cup [pc : {"scanning"}, event : Event, to : 0 .. Levels, asked : Asked,
           left : {{}}, score : Nat]
    \cup [pc : {"taking", "putting"}, event : Event, to : 0 .. Levels,
           asked : SUBSET Level, item : Member, left : SUBSET Entry, score : Nat]
    \cup [pc : {"expiring"}, asked : Asked, cutoff : Nat]

\* The types of the variables; a loop over the queues has one left to turn to, and
\* an entry lies in the queue of its priority.
TypeOK ==
    /\ queues \in [Level -> SUBSET Entry]
    /\ \A l \in Level : \A x \in queues[l] : x.item.level = l
    /\ tracking \in SUBSET Member
    /\ op \in [Request -> OpType]
    /\ clock \in Nat \ {0}
    /\ calls \in 0 .. MaxCalls
    /\ faults \in 0 .. MaxFaults
    /\ enqueued \in SUBSET Event
    /\ returned \in SUBSET Event
    /\ expired \in SUBSET Event
    /\ dropped \in SUBSET Event
    /\ missed \in SUBSET Event
    /\ rewritten \in SUBSET Event
    /\ taken \in [Event -> Nat]
    /\ since \in [Request -> SUBSET Entry]

\* x goes before y.
Ahead(x, y) ==
    \/ x.item.level < y.item.level
    \/ x.item.level = y.item.level /\ x.score < y.score

\* However the requests interleave, dequeue picks no item over one of a higher
\* priority, or an older one of the same priority, that was in a queue it was
\* asked for during the whole call (priority_queue_manager.py:81-94).
NoOvertaking ==
    \A r \in Request : op[r].pc \in {"removing", "untracking"} =>
        \A x \in since[r] : x.item.level \in op[r].all => ~Ahead(x, op[r].entry)

Queued(e) == {x \in Entries(queues) : x.item.event = e}

\* Requests that took an item of event e out of its queue and hold it.
Holders(e) == {r \in Request : op[r].pc \in {"untracking", "putting"} /\ op[r].item.event = e}

Copies(e) ==
    Cardinality(Queued(e)) + Cardinality(Holders(e)) + taken[e]
        + Cardinality({e} \cap expired) + Cardinality({e} \cap dropped)

\* An event once queued is still queued, in the hands of a request, was returned by
\* dequeue, expired, or was in a call that raised: no interleaving of dequeue,
\* update_item, move_to_priority and cleanup_expired loses it.
NothingLost == \A e \in enqueued : Copies(e) >= 1

\* It is so in one place only, and dequeue returns it once, unless two requests read
\* it before either removed it: the result of zrem is not looked at (:97, :163, :207).
OneCopy == \A e \in enqueued \ missed : Copies(e) <= 1

=============================================================================
