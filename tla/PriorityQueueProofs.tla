-------------------------- MODULE PriorityQueueProofs --------------------------
(***************************************************************************)
(* Theorems about PriorityQueue for any events, requests, priorities and   *)
(* failing commands: its types, that dequeue passes over no item that goes *)
(* before the one it picks, that no event is lost, and that an event is in *)
(* one place unless a ZREM found it gone.                                  *)
(***************************************************************************)
EXTENDS PriorityQueue, FiniteSetTheorems, WellFoundedInduction, TLAPS

\* What was queued all the time since a call began is queued.
SinceIsQueued == \A r \in Request : since[r] \subseteq Entries(queues)

\* A dequeue that has passed over a queue found nothing in it that was there when
\* it began.
PassedOver ==
    \A r \in Request : op[r].pc = "looking" =>
        /\ op[r].asked \subseteq op[r].all
        /\ \A x \in since[r] : x.item.level \notin op[r].all \ op[r].asked

FiniteQueues == \A l \in Level : IsFiniteSet(queues[l])

\* Every item anyone has read was queued once.
KnownItems ==
    /\ \A l \in Level : \A x \in queues[l] : x.item.event \in enqueued
    /\ \A r \in Request :
          op[r].pc \in {"tracking", "removing", "untracking", "taking", "putting"}
              => op[r].item.event \in enqueued
    /\ \A r \in Request : op[r].pc \in {"taking", "putting"} =>
          \A x \in op[r].left : x.item.event \in enqueued
    /\ expired \subseteq enqueued
    /\ dropped \subseteq enqueued
    /\ \A e \in Event : taken[e] # 0 => e \in enqueued

\* An event is enqueued by one call, which is the first to queue it.
EnqueuedOnce ==
    \A r \in Request : op[r].pc = "adding" =>
        /\ op[r].item.event \notin enqueued
        /\ \A s \in Request : op[s].pc = "adding" /\ op[s].item.event = op[r].item.event => s = r

\* Event e is somewhere.
Kept(e) ==
    \/ Queued(e) # {}
    \/ Holders(e) # {}
    \/ taken[e] # 0
    \/ e \in expired
    \/ e \in dropped

\* Event e is in one place at most.
Alone(e) ==
    /\ \A x, y \in Queued(e) : x = y
    /\ \A r, s \in Holders(e) : r = s
    /\ taken[e] <= 1
    /\ Queued(e) # {} => Holders(e) = {} /\ taken[e] = 0 /\ e \notin expired /\ e \notin dropped
    /\ Holders(e) # {} => taken[e] = 0 /\ e \notin expired /\ e \notin dropped
    /\ taken[e] # 0 => e \notin expired /\ e \notin dropped
    /\ ~(e \in expired /\ e \in dropped)

AllKept == \A e \in enqueued : Kept(e)
AllAlone == \A e \in Event \ missed : Alone(e)

\* The inductive invariant.
IInv ==
    /\ TypeOK
    /\ FiniteQueues
    /\ SinceIsQueued
    /\ PassedOver
    /\ NoOvertaking
    /\ KnownItems
    /\ EnqueuedOnce
    /\ AllKept
    /\ AllAlone

-----------------------------------------------------------------------------
\* What a request executes, by where it is.

Adding == [pc : {"adding", "tracking"}, item : Member, score : Nat]
Looking == [pc : {"looking"}, asked : Asked, all : Asked]
Removing == [pc : {"removing", "untracking"}, entry : Entry, item : Member, all : Asked]
Scanning == [pc : {"scanning"}, event : Event, to : 0 .. Levels, asked : Asked,
             left : {{}}, score : Nat]
Taking == [pc : {"taking", "putting"}, event : Event, to : 0 .. Levels,
           asked : SUBSET Level, item : Member, left : SUBSET Entry, score : Nat]
Expiring == [pc : {"expiring"}, asked : Asked, cutoff : Nat]

LEMMA OpKinds ==
    ASSUME NEW o \in OpType
    PROVE  /\ o.pc \in {"adding", "tracking"} => o \in Adding
           /\ o.pc = "looking" => o \in Looking
           /\ o.pc \in {"removing", "untracking"} => o \in Removing
           /\ o.pc = "scanning" => o \in Scanning
           /\ o.pc \in {"taking", "putting"} => o \in Taking
           /\ o.pc = "expiring" => o \in Expiring
           /\ o.pc \in {"idle", "adding", "tracking", "looking", "removing", "untracking",
                       "scanning", "taking", "putting", "expiring"}
BY DEF OpType, Adding, Looking, Removing, Scanning, Taking, Expiring

LEMMA KindsAreOps ==
    /\ Adding \subseteq OpType /\ Looking \subseteq OpType /\ Removing \subseteq OpType
    /\ Scanning \subseteq OpType /\ Taking \subseteq OpType /\ Expiring \subseteq OpType
    /\ NoOp \in OpType
<1>1. Adding \subseteq OpType
  BY DEF OpType, Adding
<1>2. Looking \subseteq OpType
  BY DEF OpType, Looking
<1>3. Removing \subseteq OpType
  BY DEF OpType, Removing
<1>4. Scanning \subseteq OpType
  BY DEF OpType, Scanning
<1>5. Taking \subseteq OpType
  BY DEF OpType, Taking
<1>6. Expiring \subseteq OpType
  BY DEF OpType, Expiring
<1>7. NoOp \in OpType
  BY DEF OpType, NoOp
<1> QED BY <1>1, <1>2, <1>3, <1>4, <1>5, <1>6, <1>7

-----------------------------------------------------------------------------
\* Least elements.

LEMMA LeastNatural ==
    ASSUME NEW T, T \subseteq Nat, T # {}
    PROVE  \E x \in T : \A y \in T : x <= y
<1>1. PICK x \in T : \A y \in T : ~(<<y, x>> \in OpToRel(<, Nat))
  BY NatLessThanWellFounded, WFMin
<1>2. \A y \in T : ~(y < x)
  BY <1>1 DEF OpToRel
<1>3. \A y \in T : x <= y
  BY <1>2
<1> QED BY <1>3

LEMMA NextQueueLeast ==
    ASSUME NEW asked \in Asked
    PROVE  /\ NextQueue(asked) \in asked
           /\ NextQueue(asked) \in Level
           /\ \A l \in asked : NextQueue(asked) <= l
<1>1. asked \subseteq Nat /\ asked # {} /\ asked \subseteq Level
  BY DEF Asked, Level
<1>2. \E x \in asked : \A y \in asked : x <= y
  BY <1>1, LeastNatural
<1> QED BY <1>1, <1>2 DEF NextQueue, Min

LEMMA FirstIsLeast ==
    ASSUME NEW s \in SUBSET Entry, s # {}
    PROVE  /\ First(s) \in s
           /\ \A y \in s : First(s).score <= y.score
<1> DEFINE T == {x.score : x \in s}
<1>1. T \subseteq Nat /\ T # {}
  BY DEF Entry
<1>2. PICK n \in T : \A m \in T : n <= m
  BY <1>1, LeastNatural
<1>3. PICK x \in s : x.score = n
  BY <1>2
<1>4. \A y \in s : x.score <= y.score
  BY <1>2, <1>3
<1> QED BY <1>4 DEF First

-----------------------------------------------------------------------------
\* The sorted sets.

QueuesOK(q) ==
    /\ q \in [Level -> SUBSET Entry]
    /\ \A l \in Level : \A x \in q[l] : x.item.level = l
    /\ \A l \in Level : IsFiniteSet(q[l])

LEMMA EntriesAre ==
    ASSUME NEW q, QueuesOK(q)
    PROVE  /\ \A x : x \in Entries(q) <=> (\E l \in Level : x \in q[l])
           /\ \A x \in Entries(q) : x \in Entry /\ x.item \in Member /\ x.item.level \in Level
                                    /\ x \in q[x.item.level] /\ x.score \in Nat
<1>1. \A x : x \in Entries(q) <=> (\E l \in Level : x \in q[l])
  BY DEF Entries
<1>2. ASSUME NEW x \in Entries(q)
      PROVE  /\ x \in Entry /\ x.item \in Member /\ x.item.level \in Level
             /\ x \in q[x.item.level] /\ x.score \in Nat
  <2>1. PICK l \in Level : x \in q[l]
    BY <1>1
  <2>2. x \in Entry /\ x.item.level = l
    BY <2>1 DEF QueuesOK
  <2> QED BY <2>1, <2>2 DEF Entry, Member
<1> QED BY <1>1, <1>2

\* ZADD puts one entry in the place of those of the same item.
LEMMA ZAddAdds ==
    ASSUME NEW q, QueuesOK(q), NEW m \in Member, NEW s \in Nat
    PROVE  /\ QueuesOK(ZAdd(q, m, s))
           /\ \A x : x \in Entries(ZAdd(q, m, s))
                  <=> (x = [item |-> m, score |-> s] \/ (x \in Entries(q) /\ x.item # m))
<1> DEFINE n == [item |-> m, score |-> s]
           p == ZAdd(q, m, s)
           k == m.level
<1>1. n \in Entry /\ n.item = m /\ k \in Level
  BY DEF Entry, Member
<1>2. /\ p[k] = {x \in q[k] : x.item # m} \cup {n}
      /\ \A l \in Level : l # k => p[l] = q[l]
      /\ DOMAIN p = Level
  BY <1>1 DEF ZAdd, QueuesOK
<1> HIDE DEF n, k
<1>3. p \in [Level -> SUBSET Entry]
  <2>1. p[k] \in SUBSET Entry
    BY <1>1, <1>2 DEF QueuesOK
  <2>2. \A l \in Level : p[l] \in SUBSET Entry
    BY <1>2, <2>1 DEF QueuesOK
  <2>3. p = [l \in Level |-> p[l]]
    BY <1>1 DEF ZAdd, QueuesOK
  <2> HIDE DEF p
  <2> QED BY <2>2, <2>3
<1> HIDE DEF p
<1>4. \A l \in Level : \A x \in p[l] : x.item.level = l
  <2>1. n.item.level = k
    BY <1>1 DEF k
  <2> QED BY <1>1, <1>2, <2>1 DEF QueuesOK
<1>5. \A l \in Level : IsFiniteSet(p[l])
  <2>1. IsFiniteSet({x \in q[k] : x.item # m})
    <3>1. IsFiniteSet(q[k]) /\ {x \in q[k] : x.item # m} \in SUBSET q[k]
      BY <1>1 DEF QueuesOK
    <3> QED BY <3>1, FS_Subset
  <2>2. IsFiniteSet(p[k])
    BY <1>2, <2>1, FS_AddElement
  <2> QED BY <1>2, <2>2 DEF QueuesOK
<1>6. QueuesOK(p)
  BY <1>3, <1>4, <1>5 DEF QueuesOK
<1>7. ASSUME NEW x
      PROVE  x \in Entries(p) <=> (x = n \/ (x \in Entries(q) /\ x.item # m))
  <2>1. ASSUME x \in Entries(p) PROVE x = n \/ (x \in Entries(q) /\ x.item # m)
    <3>1. PICK l \in Level : x \in p[l]
      BY <1>6, <2>1, EntriesAre
    <3>2. CASE l = k
      BY <1>1, <1>2, <3>1, <3>2, EntriesAre
    <3>3. CASE l # k
      <4>1. x \in q[l] /\ x.item.level = l
        BY <1>2, <3>1, <3>3 DEF QueuesOK
      <4>2. x.item # m
        BY <3>3, <4>1 DEF k
      <4> QED BY <4>1, <4>2, EntriesAre
    <3> QED BY <3>2, <3>3
  <2>2. ASSUME x = n PROVE x \in Entries(p)
    BY <1>1, <1>2, <1>6, <2>2, EntriesAre
  <2>3. ASSUME x \in Entries(q), x.item # m PROVE x \in Entries(p)
    <3>1. PICK l \in Level : x \in q[l]
      BY <2>3, EntriesAre
    <3>2. x \in p[l]
      BY <1>2, <2>3, <3>1
    <3> QED BY <1>6, <3>2, EntriesAre
  <2> QED BY <2>1, <2>2, <2>3
<1> QED BY <1>6, <1>7 DEF p, n

\* ZREM takes out the entries of one item.
LEMMA ZRemRemoves ==
    ASSUME NEW q, QueuesOK(q), NEW m \in Member
    PROVE  /\ QueuesOK(ZRem(q, m))
           /\ \A x : x \in Entries(ZRem(q, m)) <=> (x \in Entries(q) /\ x.item # m)
           /\ Holds(q, m) <=> \E x \in Entries(q) : x.item = m
<1> DEFINE p == ZRem(q, m)
           k == m.level
<1>1. k \in Level
  BY DEF Member
<1>2. /\ p[k] = {x \in q[k] : x.item # m}
      /\ \A l \in Level : l # k => p[l] = q[l]
      /\ p = [l \in Level |-> p[l]]
  BY <1>1 DEF ZRem, QueuesOK
<1>3. Holds(q, m) <=> \E x \in Entries(q) : x.item = m
  BY <1>1, EntriesAre DEF Holds
<1> HIDE DEF p
<1>4. \A l \in Level : p[l] \subseteq q[l]
  BY <1>1, <1>2
<1>5. \A l \in Level : IsFiniteSet(p[l])
  BY <1>4, FS_Subset DEF QueuesOK
<1>6. QueuesOK(p)
  BY <1>2, <1>4, <1>5 DEF QueuesOK
<1>7. ASSUME NEW x
      PROVE  x \in Entries(p) <=> (x \in Entries(q) /\ x.item # m)
  <2>1. ASSUME x \in Entries(p) PROVE x \in Entries(q) /\ x.item # m
    <3>1. PICK l \in Level : x \in p[l]
      BY <1>6, <2>1, EntriesAre
    <3>2. x \in q[l] /\ x.item.level = l
      BY <1>4, <3>1 DEF QueuesOK
    <3>3. x.item # m
      BY <1>2, <3>1, <3>2 DEF k
    <3> QED BY <3>2, <3>3, EntriesAre
  <2>2. ASSUME x \in Entries(q), x.item # m PROVE x \in Entries(p)
    <3>1. PICK l \in Level : x \in q[l]
      BY <2>2, EntriesAre
    <3>2. x \in p[l]
      BY <1>2, <2>2, <3>1
    <3> QED BY <1>6, <3>2, EntriesAre
  <2> QED BY <2>1, <2>2
<1> QED BY <1>3, <1>6, <1>7 DEF p

-----------------------------------------------------------------------------
\* The places of an event.

\* Nothing happens to event e.
Unmoved(e) ==
    /\ Queued(e)' = Queued(e)
    /\ Holders(e)' = Holders(e)
    /\ taken'[e] = taken[e]
    /\ e \in expired' <=> e \in expired
    /\ e \in dropped' <=> e \in dropped

LEMMA UnmovedStays ==
    ASSUME NEW e, Unmoved(e)
    PROVE  /\ Kept(e) => Kept(e)'
           /\ Alone(e) => Alone(e)'
BY DEF Unmoved, Kept, Alone

\* All events but f are left alone.
LEMMA OneMoves ==
    ASSUME AllKept, AllAlone, NEW f \in Event, enqueued \subseteq Event,
           \A e \in Event \ {f} : Unmoved(e),
           enqueued' \subseteq enqueued \cup {f}, missed \subseteq missed',
           Kept(f)', f \notin missed' => Alone(f)'
    PROVE  AllKept' /\ AllAlone'
<1>1. ASSUME NEW e \in Event \ {f}, Kept(e) PROVE Kept(e)'
  BY <1>1, UnmovedStays
<1>2. ASSUME NEW e \in Event \ {f}, Alone(e) PROVE Alone(e)'
  BY <1>2, UnmovedStays
<1>3. ASSUME NEW e \in enqueued' PROVE Kept(e)'
  <2>1. CASE e = f
    BY <2>1
  <2>2. CASE e # f
    BY <1>1, <1>3, <2>2 DEF AllKept
  <2> QED BY <2>1, <2>2
<1>4. ASSUME NEW e \in Event, e \notin missed' PROVE Alone(e)'
  <2>1. CASE e = f
    BY <1>4, <2>1
  <2>2. CASE e # f
    BY <1>2, <1>4, <2>2 DEF AllAlone
  <2> QED BY <2>1, <2>2
<1> QED BY <1>3, <1>4 DEF AllKept, AllAlone

LEMMA NoneMoves ==
    ASSUME AllKept, AllAlone, enqueued \subseteq Event, \A e \in Event : Unmoved(e),
           enqueued' = enqueued, missed \subseteq missed'
    PROVE  AllKept' /\ AllAlone'
<1>1. ASSUME NEW e \in Event, Kept(e) PROVE Kept(e)'
  BY <1>1, UnmovedStays
<1>2. ASSUME NEW e \in Event, Alone(e) PROVE Alone(e)'
  BY <1>2, UnmovedStays
<1>3. ASSUME NEW e \in enqueued' PROVE Kept(e)'
  BY <1>1, <1>3 DEF AllKept
<1>4. ASSUME NEW e \in Event, e \notin missed' PROVE Alone(e)'
  BY <1>2, <1>4 DEF AllAlone
<1> QED BY <1>3, <1>4 DEF AllKept, AllAlone

\* Only request r changes what it executes.
Others(r) == \A s \in Request : s # r => op'[s] = op[s]

Holding(o) == o.pc \in {"untracking", "putting"}

LEMMA HoldersSame ==
    ASSUME NEW r \in Request, Others(r), ~Holding(op[r]), ~Holding(op'[r]), NEW e
    PROVE  Holders(e)' = Holders(e)
BY DEF Holders, Holding, Others

LEMMA HoldersGain ==
    ASSUME NEW r \in Request, Others(r), ~Holding(op[r]), Holding(op'[r]), NEW e
    PROVE  Holders(e)' = IF op'[r].item.event = e THEN Holders(e) \cup {r} ELSE Holders(e)
BY DEF Holders, Holding, Others

LEMMA HoldersLose ==
    ASSUME NEW r \in Request, Others(r), Holding(op[r]), ~Holding(op'[r]), NEW e
    PROVE  /\ Holders(e)' = IF op[r].item.event = e THEN Holders(e) \ {r} ELSE Holders(e)
           /\ op[r].item.event = e => r \in Holders(e)
BY DEF Holders, Holding, Others

\* A new event is queued.
LEMMA ArrivalMoves ==
    ASSUME AllKept, AllAlone, QueuesOK(queues), enqueued \subseteq Event,
           NEW m \in Member, NEW s \in Nat, ~Kept(m.event),
           queues' = ZAdd(queues, m, s), \A e : Holders(e)' = Holders(e),
           UNCHANGED <<taken, expired, dropped, missed>>,
           enqueued' = enqueued \cup {m.event}, taken \in [Event -> Nat]
    PROVE  AllKept' /\ AllAlone'
<1> DEFINE f == m.event
           n == [item |-> m, score |-> s]
<1>1. f \in Event
  BY DEF Member
<1>2. \A x : x \in Entries(queues') <=> (x = n \/ (x \in Entries(queues) /\ x.item # m))
  BY ZAddAdds
<1>3. n.item = m
  OBVIOUS
<1> HIDE DEF n
<1>4. ASSUME NEW e \in Event \ {f} PROVE Unmoved(e)
  <2>1. Queued(e)' = Queued(e)
    BY <1>2, <1>3, <1>4 DEF Queued
  <2> QED BY <2>1 DEF Unmoved
<1>5. Queued(f)' = {n}
  <2>1. Queued(f) = {}
    BY DEF Kept
  <2>2. \A x \in Entries(queues) : x.item.event # f
    BY <2>1 DEF Queued
  <2> QED BY <1>2, <1>3, <2>2 DEF Queued
<1>6. Kept(f)' /\ Alone(f)'
  BY <1>1, <1>5 DEF Kept, Alone
<1> HIDE DEF f
<1> QED BY <1>1, <1>4, <1>6, OneMoves DEF f

\* A ZREM of an item that its request then holds.
LEMMA PickMoves ==
    ASSUME AllKept, AllAlone, QueuesOK(queues), enqueued \subseteq Event,
           NEW m \in Member, NEW r \in Request,
           queues' = ZRem(queues, m),
           \A e : Holders(e)' = IF m.event = e THEN Holders(e) \cup {r} ELSE Holders(e),
           UNCHANGED <<taken, expired, dropped, enqueued>>,
           missed' = missed \cup Miss(m), taken \in [Event -> Nat]
    PROVE  AllKept' /\ AllAlone'
<1> DEFINE f == m.event
<1>1. f \in Event
  BY DEF Member
<1>2. /\ \A x : x \in Entries(queues') <=> (x \in Entries(queues) /\ x.item # m)
      /\ Holds(queues, m) <=> \E x \in Entries(queues) : x.item = m
  BY ZRemRemoves
<1>3. ASSUME NEW e \in Event \ {f} PROVE Unmoved(e)
  <2>1. Queued(e)' = Queued(e)
    BY <1>2, <1>3 DEF Queued
  <2> QED BY <1>3, <2>1 DEF Unmoved
<1>4. Kept(f)'
  BY DEF Kept
<1>5. ASSUME f \notin missed' PROVE Alone(f)'
  <2>1. Holds(queues, m) /\ f \notin missed
    BY <1>5 DEF Miss
  <2>2. Alone(f)
    BY <1>1, <2>1 DEF AllAlone
  <2>3. PICK x \in Entries(queues) : x.item = m
    BY <1>2, <2>1
  <2>4. Queued(f) = {x}
    BY <2>2, <2>3 DEF Alone, Queued
  <2>5. Queued(f)' = {}
    BY <1>2, <2>3, <2>4 DEF Queued
  <2>6. Holders(f)' = {r}
    BY <2>2, <2>4 DEF Alone
  <2> QED BY <2>2, <2>4, <2>5, <2>6 DEF Alone
<1>6. missed \subseteq missed'
  OBVIOUS
<1> HIDE DEF f
<1> QED BY <1>1, <1>3, <1>4, <1>5, <1>6, OneMoves

\* A ZREM that is carried out and raises.
LEMMA LossMoves ==
    ASSUME AllKept, AllAlone, QueuesOK(queues), enqueued \subseteq Event,
           NEW m \in Member,
           queues' = ZRem(queues, m), \A e : Holders(e)' = Holders(e),
           UNCHANGED <<taken, expired, missed, enqueued>>,
           dropped' = dropped \cup Loss(m), taken \in [Event -> Nat], m.event \in enqueued
    PROVE  AllKept' /\ AllAlone'
<1> DEFINE f == m.event
<1>1. f \in Event
  BY DEF Member
<1>2. /\ \A x : x \in Entries(queues') <=> (x \in Entries(queues) /\ x.item # m)
      /\ Holds(queues, m) <=> \E x \in Entries(queues) : x.item = m
  BY ZRemRemoves
<1>3. ASSUME NEW e \in Event \ {f} PROVE Unmoved(e)
  <2>1. Queued(e)' = Queued(e)
    BY <1>2, <1>3 DEF Queued
  <2>2. e \in dropped' <=> e \in dropped
    BY <1>3 DEF Loss
  <2> QED BY <2>1, <2>2 DEF Unmoved
<1>4. CASE Holds(queues, m)
  <2>1. f \in dropped'
    BY <1>4 DEF Loss
  <2>2. Kept(f)'
    BY <2>1 DEF Kept
  <2>3. ASSUME f \notin missed' PROVE Alone(f)'
    <3>1. Alone(f)
      BY <1>1, <2>3 DEF AllAlone
    <3>2. PICK x \in Entries(queues) : x.item = m
      BY <1>2, <1>4
    <3>3. Queued(f) = {x}
      BY <3>1, <3>2 DEF Alone, Queued
    <3>4. Queued(f)' = {}
      BY <1>2, <3>2, <3>3 DEF Queued
    <3> QED BY <3>1, <3>3, <3>4 DEF Alone
  <2> HIDE DEF f
  <2> QED BY <1>1, <1>3, <2>2, <2>3, OneMoves
<1>5. CASE ~Holds(queues, m)
  <2>1. Queued(f)' = Queued(f)
    BY <1>2, <1>5 DEF Queued
  <2>2. dropped' = dropped
    BY <1>5 DEF Loss
  <2>3. Unmoved(f)
    BY <2>1, <2>2 DEF Unmoved
  <2>4. \A e \in Event : Unmoved(e)
    BY <1>3, <2>3
  <2> QED BY <2>4, NoneMoves
<1> QED BY <1>4, <1>5

\* A held event is returned.
LEMMA TakenMoves ==
    ASSUME AllKept, AllAlone, enqueued \subseteq Event,
           NEW f \in Event, NEW r \in Request, r \in Holders(f),
           \A e : Holders(e)' = IF f = e THEN Holders(e) \ {r} ELSE Holders(e),
           UNCHANGED <<queues, expired, dropped, missed, enqueued>>,
           taken' = [taken EXCEPT ![f] = @ + 1], taken \in [Event -> Nat]
    PROVE  AllKept' /\ AllAlone'
<1>1. taken'[f] = taken[f] + 1 /\ taken[f] \in Nat /\ \A e \in Event \ {f} : taken'[e] = taken[e]
  OBVIOUS
<1>2. \A e : Queued(e)' = Queued(e)
  BY DEF Queued
<1>3. ASSUME NEW e \in Event \ {f} PROVE Unmoved(e)
  BY <1>1, <1>2, <1>3 DEF Unmoved
<1>4. Kept(f)'
  BY <1>1 DEF Kept
<1>5. ASSUME f \notin missed' PROVE Alone(f)'
  <2>1. Alone(f)
    BY <1>5 DEF AllAlone
  <2>2. Queued(f) = {} /\ taken[f] = 0 /\ f \notin expired /\ f \notin dropped /\ Holders(f) = {r}
    BY <2>1 DEF Alone
  <2>3. Queued(f)' = {} /\ taken'[f] = 1 /\ f \notin expired' /\ f \notin dropped' /\ Holders(f)' = {}
    BY <1>1, <1>2, <2>2
  <2> QED BY <2>3 DEF Alone
<1> QED BY <1>3, <1>4, <1>5, OneMoves

\* A held event is lost by a call that raises.
LEMMA DroppedMoves ==
    ASSUME AllKept, AllAlone, enqueued \subseteq Event,
           NEW f \in Event, NEW r \in Request, r \in Holders(f),
           \A e : Holders(e)' = IF f = e THEN Holders(e) \ {r} ELSE Holders(e),
           UNCHANGED <<queues, expired, taken, missed, enqueued>>,
           dropped' = dropped \cup {f}
    PROVE  AllKept' /\ AllAlone'
<1>1. \A e : Queued(e)' = Queued(e)
  BY DEF Queued
<1>2. ASSUME NEW e \in Event \ {f} PROVE Unmoved(e)
  BY <1>1, <1>2 DEF Unmoved
<1>3. Kept(f)'
  BY DEF Kept
<1>4. ASSUME f \notin missed' PROVE Alone(f)'
  <2>1. Alone(f)
    BY <1>4 DEF AllAlone
  <2>2. Queued(f) = {} /\ taken[f] = 0 /\ f \notin expired /\ f \notin dropped /\ Holders(f) = {r}
    BY <2>1 DEF Alone
  <2>3. Queued(f)' = {} /\ taken'[f] = 0 /\ f \notin expired' /\ Holders(f)' = {}
    BY <1>1, <2>2
  <2> QED BY <2>3 DEF Alone
<1> QED BY <1>2, <1>3, <1>4, OneMoves

\* A held event is put back.
LEMMA PutMoves ==
    ASSUME AllKept, AllAlone, QueuesOK(queues), enqueued \subseteq Event,
           NEW m \in Member, NEW s \in Nat, NEW r \in Request, r \in Holders(m.event),
           \A e : Holders(e)' = IF m.event = e THEN Holders(e) \ {r} ELSE Holders(e),
           queues' = ZAdd(queues, m, s),
           UNCHANGED <<taken, expired, dropped, missed, enqueued>>
    PROVE  AllKept' /\ AllAlone'
<1> DEFINE f == m.event
           n == [item |-> m, score |-> s]
<1>1. f \in Event
  BY DEF Member
<1>2. \A x : x \in Entries(queues') <=> (x = n \/ (x \in Entries(queues) /\ x.item # m))
  BY ZAddAdds
<1>3. n.item = m
  OBVIOUS
<1> HIDE DEF n
<1>4. ASSUME NEW e \in Event \ {f} PROVE Unmoved(e)
  <2>1. Queued(e)' = Queued(e)
    BY <1>2, <1>3, <1>4 DEF Queued
  <2> QED BY <1>4, <2>1 DEF Unmoved
<1>5. n \in Queued(f)'
  BY <1>2, <1>3 DEF Queued
<1>6. Kept(f)'
  BY <1>5 DEF Kept
<1>7. ASSUME f \notin missed' PROVE Alone(f)'
  <2>1. Alone(f)
    BY <1>1, <1>7 DEF AllAlone
  <2>2. Queued(f) = {} /\ taken[f] = 0 /\ f \notin expired /\ f \notin dropped /\ Holders(f) = {r}
    BY <2>1 DEF Alone
  <2>3. \A x \in Entries(queues) : x.item.event # f
    BY <2>2 DEF Queued
  <2>4. Queued(f)' = {n}
    BY <1>2, <1>3, <2>3 DEF Queued
  <2>5. taken'[f] = 0 /\ f \notin expired' /\ f \notin dropped' /\ Holders(f)' = {}
    BY <2>2
  <2> QED BY <2>4, <2>5 DEF Alone
<1> HIDE DEF f
<1> QED BY <1>1, <1>4, <1>6, <1>7, OneMoves

\* The entries of `old` expire.
LEMMA ExpiryMoves ==
    ASSUME AllKept, AllAlone, enqueued \subseteq Event,
           NEW old, old \subseteq Entries(queues),
           \A x : x \in Entries(queues') <=> (x \in Entries(queues) /\ x \notin old),
           \A e : Holders(e)' = Holders(e),
           UNCHANGED <<taken, dropped, missed, enqueued>>,
           expired' = expired \cup {x.item.event : x \in old}
    PROVE  AllKept' /\ AllAlone'
<1>1. ASSUME NEW e \in Event PROVE (Kept(e) => Kept(e)') /\ (Alone(e) => Alone(e)')
  <2>1. CASE \E x \in old : x.item.event = e
    <3>1. PICK x \in old : x.item.event = e
      BY <2>1
    <3>2. x \in Queued(e) /\ e \in expired'
      BY <3>1 DEF Queued
    <3>3. Kept(e)'
      BY <3>2 DEF Kept
    <3>4. ASSUME Alone(e) PROVE Alone(e)'
      <4>1. Queued(e) = {x} /\ Holders(e) = {} /\ taken[e] = 0 /\ e \notin dropped
        BY <3>2, <3>4 DEF Alone
      <4>2. Queued(e)' = {}
        BY <3>1, <4>1 DEF Queued
      <4>3. Holders(e)' = {} /\ taken'[e] = 0 /\ e \notin dropped'
        BY <4>1
      <4> QED BY <4>2, <4>3 DEF Alone
    <3> QED BY <3>3, <3>4
  <2>2. CASE ~\E x \in old : x.item.event = e
    <3>1. Queued(e)' = Queued(e)
      BY <2>2 DEF Queued
    <3>2. e \in expired' <=> e \in expired
      BY <2>2
    <3>3. Unmoved(e)
      BY <3>1, <3>2 DEF Unmoved
    <3> QED BY <3>3, UnmovedStays
  <2> QED BY <2>1, <2>2
<1>2. ASSUME NEW e \in enqueued' PROVE Kept(e)'
  BY <1>1, <1>2 DEF AllKept
<1>3. ASSUME NEW e \in Event, e \notin missed' PROVE Alone(e)'
  BY <1>1, <1>3 DEF AllAlone
<1> QED BY <1>2, <1>3 DEF AllKept, AllAlone

-----------------------------------------------------------------------------
\* What every step has to show.

LEMMA Parts ==
    ASSUME TypeOK, FiniteQueues
    PROVE  /\ QueuesOK(queues)
           /\ op \in [Request -> OpType]
           /\ enqueued \subseteq Event
           /\ taken \in [Event -> Nat]
           /\ since \in [Request -> SUBSET Entry]
           /\ clock \in Nat /\ clock # 0
           /\ faults \in 0 .. MaxFaults /\ calls \in 0 .. MaxCalls
BY DEF TypeOK, FiniteQueues, QueuesOK

LEMMA OpStep ==
    ASSUME op \in [Request -> OpType], NEW r \in Request, NEW o \in OpType,
           op' = [op EXCEPT ![r] = o]
    PROVE  op' \in [Request -> OpType] /\ op'[r] = o /\ Others(r)
BY DEF Others

LEMMA FaultsOK ==
    ASSUME faults \in 0 .. MaxFaults, Raises \/ Succeeds
    PROVE  faults' \in 0 .. MaxFaults
BY PriorityQueueAssumption DEF Raises, Succeeds

LEMMA TypesHold ==
    ASSUME QueuesOK(queues'), op' \in [Request -> OpType], tracking' \in SUBSET Member,
           clock' \in Nat \ {0}, calls' \in 0 .. MaxCalls, faults' \in 0 .. MaxFaults,
           enqueued' \in SUBSET Event, returned' \in SUBSET Event, expired' \in SUBSET Event,
           dropped' \in SUBSET Event, missed' \in SUBSET Event, rewritten' \in SUBSET Event,
           taken' \in [Event -> Nat], since' \in [Request -> SUBSET Entry]
    PROVE  TypeOK' /\ FiniteQueues'
<1>1. FiniteQueues'
  BY DEF QueuesOK, FiniteQueues
<1>2. queues' \in [Level -> SUBSET Entry] /\ \A l \in Level : \A x \in queues'[l] : x.item.level = l
  BY DEF QueuesOK
<1> QED BY <1>1, <1>2 DEF TypeOK

LEMMA Observed ==
    ASSUME since \in [Request -> SUBSET Entry], Observe
    PROVE  /\ since' \in [Request -> SUBSET Entry]
           /\ \A s \in Request : since'[s] \subseteq since[s]
           /\ SinceIsQueued'
<1>1. since' = [r \in Request |-> since[r] \cap Entries(queues')]
  BY DEF Observe
<1> QED BY <1>1 DEF SinceIsQueued

LEMMA NotObserved ==
    ASSUME UNCHANGED <<since, queues>>, SinceIsQueued
    PROVE  SinceIsQueued' /\ \A s \in Request : since'[s] \subseteq since[s]
BY DEF SinceIsQueued

\* A step of a request that is not about to look at the next queue.
LEMMA OrderStays ==
    ASSUME PassedOver, NoOvertaking, NEW r \in Request, Others(r),
           \A s \in Request : since'[s] \subseteq since[s],
           op'[r].pc \notin {"looking", "removing"},
           op'[r].pc = "untracking" => /\ op[r].pc = "removing"
                                       /\ op'[r].entry = op[r].entry
                                       /\ op'[r].all = op[r].all
    PROVE  PassedOver' /\ NoOvertaking'
<1>1. PassedOver'
  BY DEF PassedOver, Others
<1>2. ASSUME NEW s \in Request, op'[s].pc \in {"removing", "untracking"},
             NEW x \in since'[s], x.item.level \in op'[s].all
      PROVE  ~Ahead(x, op'[s].entry)
  <2>1. CASE s = r
    BY <1>2, <2>1 DEF NoOvertaking
  <2>2. CASE s # r
    <3>1. op'[s] = op[s]
      BY <2>2 DEF Others
    <3> QED BY <1>2, <3>1 DEF NoOvertaking
  <2> QED BY <2>1, <2>2
<1>3. NoOvertaking'
  BY <1>2 DEF NoOvertaking
<1> QED BY <1>1, <1>3

LEMMA KnownStays ==
    ASSUME KnownItems, NEW r \in Request, Others(r), enqueued \subseteq enqueued',
           op'[r].pc \in {"tracking", "removing", "untracking", "taking", "putting"}
              => op'[r].item.event \in enqueued',
           op'[r].pc \in {"taking", "putting"} => \A x \in op'[r].left : x.item.event \in enqueued',
           \A l \in Level : \A x \in queues'[l] : x.item.event \in enqueued',
           expired' \subseteq enqueued', dropped' \subseteq enqueued',
           \A e \in Event : taken'[e] # 0 => e \in enqueued'
    PROVE  KnownItems'
<1>1. ASSUME NEW s \in Request,
             op'[s].pc \in {"tracking", "removing", "untracking", "taking", "putting"}
      PROVE  op'[s].item.event \in enqueued'
  BY <1>1 DEF KnownItems, Others
<1>2. ASSUME NEW s \in Request, op'[s].pc \in {"taking", "putting"}, NEW x \in op'[s].left
      PROVE  x.item.event \in enqueued'
  BY <1>2 DEF KnownItems, Others
<1> QED BY <1>1, <1>2 DEF KnownItems

LEMMA OnceStays ==
    ASSUME EnqueuedOnce, NEW r \in Request, Others(r), enqueued' = enqueued, op'[r].pc # "adding"
    PROVE  EnqueuedOnce'
BY DEF EnqueuedOnce, Others

LEMMA KnownQueue ==
    ASSUME QueuesOK(queues), NEW q, QueuesOK(q), NEW E,
           \A x \in Entries(q) : x.item.event \in E
    PROVE  \A l \in Level : \A x \in q[l] : x.item.event \in E
BY EntriesAre

-----------------------------------------------------------------------------
\* enqueue.

LEMMA EnqueueInv ==
    ASSUME IInv, NEW r \in Request, NEW e \in Event, NEW l \in Level, Enqueue(r, e, l)
    PROVE  IInv'
<1> DEFINE m == [event |-> e, level |-> l, rev |-> 0]
           o == [pc |-> "adding", item |-> m, score |-> clock]
<1>1. /\ TypeOK /\ FiniteQueues /\ SinceIsQueued /\ PassedOver /\ NoOvertaking
      /\ KnownItems /\ EnqueuedOnce /\ AllKept /\ AllAlone
  BY DEF IInv
<1>2. /\ op[r].pc = "idle" /\ op' = [op EXCEPT ![r] = o] /\ calls < MaxCalls /\ calls' = calls + 1
      /\ clock' = clock + 1
      /\ e \notin enqueued
      /\ \A s \in Request : op[s].pc = "adding" => op[s].item.event # e
      /\ UNCHANGED <<queues, tracking, faults, enqueued, returned, taken, expired, dropped, missed,
                     rewritten, since>>
  BY DEF Enqueue, Begin, history
<1>3. m \in Member /\ m.event = e
  BY DEF Member
<1> HIDE DEF m
<1>4. o \in OpType
  <2>1. o \in Adding
    BY <1>1, <1>3, Parts DEF Adding
  <2> QED BY <2>1, KindsAreOps
<1>5. o.pc = "adding" /\ o.item = m
  OBVIOUS
<1> HIDE DEF o
<1>6. op' \in [Request -> OpType] /\ op'[r] = o /\ Others(r)
  BY <1>1, <1>2, <1>4, Parts, OpStep
<1>7. TypeOK' /\ FiniteQueues'
  <2>1. calls' \in 0 .. MaxCalls /\ clock' \in Nat \ {0}
    BY <1>1, <1>2, Parts, PriorityQueueAssumption
  <2> QED BY <1>1, <1>2, <1>6, <2>1 DEF TypeOK, FiniteQueues
<1>8. SinceIsQueued' /\ \A s \in Request : since'[s] \subseteq since[s]
  BY <1>1, <1>2, NotObserved
<1>9. PassedOver' /\ NoOvertaking'
  BY <1>1, <1>5, <1>6, <1>8, OrderStays
<1>10. KnownItems'
  BY <1>1, <1>2, <1>5, <1>6, KnownStays DEF KnownItems
<1>11. EnqueuedOnce'
  BY <1>1, <1>2, <1>3, <1>5, <1>6 DEF EnqueuedOnce, Others
<1>12. AllKept' /\ AllAlone'
  <2>1. \A x : Holders(x)' = Holders(x)
    BY <1>2, <1>5, <1>6, HoldersSame DEF Holding
  <2>2. \A x \in Event : Unmoved(x)
    BY <1>2, <2>1 DEF Unmoved, Queued
  <2> QED BY <1>1, <1>2, <2>2, NoneMoves, Parts
<1> QED BY <1>7, <1>8, <1>9, <1>10, <1>11, <1>12 DEF IInv

LEMMA AddToQueueInv ==
    ASSUME IInv, NEW r \in Request, AddToQueue(r)
    PROVE  IInv'
<1>1. /\ TypeOK /\ FiniteQueues /\ SinceIsQueued /\ PassedOver /\ NoOvertaking
      /\ KnownItems /\ EnqueuedOnce /\ AllKept /\ AllAlone
  BY DEF IInv
<1>2. op[r] \in Adding /\ op[r].pc = "adding" /\ op[r] \in OpType
  BY <1>1, Parts, OpKinds DEF AddToQueue
<1>3. PICK m \in Member, s \in Nat : m = op[r].item /\ s = op[r].score
  BY <1>2 DEF Adding
<1>4. PICK o \in OpType : o.pc \in {"idle", "tracking"} /\ (o.pc = "tracking" => o.item = m)
                         /\ op' = [op EXCEPT ![r] = o]
  <2>1. CASE op' = [op EXCEPT ![r].pc = "tracking"]
    <3>1. [op[r] EXCEPT !.pc = "tracking"] \in Adding
      BY <1>2 DEF Adding
    <3>2. [op[r] EXCEPT !.pc = "tracking"].item = m /\ [op[r] EXCEPT !.pc = "tracking"].pc = "tracking"
      BY <1>2, <1>3 DEF Adding
    <3> QED BY <2>1, <3>1, <3>2, KindsAreOps
  <2>2. CASE op' = [op EXCEPT ![r] = NoOp]
    <3>1. NoOp.pc = "idle"
      BY DEF NoOp
    <3> QED BY <2>2, <3>1, KindsAreOps
  <2> QED BY <2>1, <2>2 DEF AddToQueue, Return
<1>5. op' \in [Request -> OpType] /\ op'[r] = o /\ Others(r)
  BY <1>1, <1>4, Parts, OpStep
<1>6. \/ queues' = ZAdd(queues, m, s) /\ enqueued' = enqueued \cup {m.event}
      \/ UNCHANGED <<queues, enqueued>> /\ o.pc = "idle"
  <2>1. CASE op' = [op EXCEPT ![r].pc = "tracking"]
    <3>1. op'[r].pc = "tracking"
      BY <1>1, <1>2, <2>1, Parts DEF Adding
    <3>2. op[r].pc # "tracking" /\ NoOp.pc # "tracking"
      BY <1>2 DEF NoOp
    <3>3. op' # [op EXCEPT ![r] = NoOp]
      BY <1>1, <3>1, <3>2, Parts
    <3> QED BY <1>3, <3>3 DEF AddToQueue, Return
  <2>2. CASE op' = [op EXCEPT ![r] = NoOp]
    <3>1. o.pc = "idle"
      BY <1>1, <1>5, <2>2, Parts DEF NoOp
    <3> QED BY <1>3, <3>1 DEF AddToQueue
  <2> QED BY <2>1, <2>2 DEF AddToQueue, Return
<1>7. /\ UNCHANGED <<tracking, clock, calls, returned, taken, expired, dropped, missed, rewritten>>
      /\ Observe /\ (Raises \/ Succeeds)
  BY DEF AddToQueue
<1>8. m.event \in Event /\ m.event \notin enqueued
  BY <1>1, <1>2, <1>3 DEF EnqueuedOnce, Member
<1>9. enqueued \subseteq enqueued' /\ enqueued' \subseteq Event
  BY <1>1, <1>6, <1>8, Parts
<1>10. QueuesOK(queues')
  BY <1>1, <1>6, Parts, ZAddAdds
<1>11. /\ SinceIsQueued' /\ (\A t \in Request : since'[t] \subseteq since[t])
       /\ since' \in [Request -> SUBSET Entry]
  BY <1>1, <1>7, Parts, Observed
<1>12. TypeOK' /\ FiniteQueues'
  <2>1. faults' \in 0 .. MaxFaults
    BY <1>1, <1>7, Parts, FaultsOK
  <2> QED BY <1>1, <1>5, <1>7, <1>9, <1>10, <1>11, <2>1, TypesHold DEF TypeOK
<1>13. PassedOver' /\ NoOvertaking'
  BY <1>1, <1>4, <1>5, <1>11, OrderStays
<1>14. KnownItems'
  <2>1. \A x \in Entries(queues) : x.item.event \in enqueued
    BY <1>1, Parts, EntriesAre DEF KnownItems
  <2>2. \A x \in Entries(queues') : x.item.event \in enqueued'
    <3>1. CASE queues' = ZAdd(queues, m, s) /\ enqueued' = enqueued \cup {m.event}
      <4>1. \A x \in Entries(queues') : x = [item |-> m, score |-> s] \/ x \in Entries(queues)
        BY <1>1, <3>1, Parts, ZAddAdds
      <4> QED BY <2>1, <3>1, <4>1
    <3> QED BY <1>6, <2>1, <3>1
  <2>3. \A l \in Level : \A x \in queues'[l] : x.item.event \in enqueued'
    BY <1>1, <1>10, <2>2, Parts, KnownQueue
  <2>4. o.pc = "tracking" => m.event \in enqueued'
    BY <1>6
  <2> QED BY <1>1, <1>4, <1>5, <1>7, <1>9, <2>3, <2>4, KnownStays DEF KnownItems
<1>15. EnqueuedOnce'
  <2>1. ASSUME NEW t \in Request, op'[t].pc = "adding"
        PROVE  op'[t].item.event \notin enqueued'
    <3>1. t # r /\ op'[t] = op[t]
      BY <1>4, <1>5, <2>1 DEF Others
    <3>2. op[t].item.event # m.event /\ op[t].item.event \notin enqueued
      BY <1>1, <1>2, <1>3, <2>1, <3>1 DEF EnqueuedOnce
    <3> QED BY <1>6, <3>1, <3>2
  <2> QED BY <1>1, <1>4, <1>5, <2>1 DEF EnqueuedOnce, Others
<1>16. AllKept' /\ AllAlone'
  <2>1. \A x : Holders(x)' = Holders(x)
    BY <1>2, <1>4, <1>5, HoldersSame DEF Holding
  <2>2. CASE queues' = ZAdd(queues, m, s) /\ enqueued' = enqueued \cup {m.event}
    <3>1. ~Kept(m.event)
      <4>1. Queued(m.event) = {}
        BY <1>1, <1>8, Parts, EntriesAre DEF Queued, KnownItems
      <4>2. Holders(m.event) = {}
        BY <1>1, <1>8 DEF Holders, KnownItems
      <4>3. taken[m.event] = 0 /\ m.event \notin expired /\ m.event \notin dropped
        BY <1>1, <1>8 DEF KnownItems
      <4> QED BY <4>1, <4>2, <4>3 DEF Kept
    <3> QED BY <1>1, <1>7, <2>1, <2>2, <3>1, ArrivalMoves, Parts
  <2>3. CASE UNCHANGED <<queues, enqueued>>
    <3>1. \A x \in Event : Unmoved(x)
      BY <1>7, <2>1, <2>3 DEF Unmoved, Queued
    <3> QED BY <1>1, <1>7, <2>3, <3>1, NoneMoves, Parts
  <2> QED BY <1>6, <2>2, <2>3
<1> QED BY <1>11, <1>12, <1>13, <1>14, <1>15, <1>16 DEF IInv

LEMMA AddToTrackingInv ==
    ASSUME IInv, NEW r \in Request, AddToTracking(r)
    PROVE  IInv'
<1>1. /\ TypeOK /\ FiniteQueues /\ SinceIsQueued /\ PassedOver /\ NoOvertaking
      /\ KnownItems /\ EnqueuedOnce /\ AllKept /\ AllAlone
  BY DEF IInv
<1>2. op[r] \in Adding /\ op[r].pc = "tracking"
  BY <1>1, Parts, OpKinds DEF AddToTracking
<1>3. PICK m \in Member : m = op[r].item
  BY <1>2 DEF Adding
<1>4. m.event \in Event
  BY DEF Member
<1>5. /\ op' = [op EXCEPT ![r] = NoOp]
      /\ tracking' \in {tracking, tracking \cup {m}}
      /\ returned' \in {returned, returned \cup {m.event}}
      /\ Raises \/ Succeeds
      /\ UNCHANGED <<queues, clock, calls, enqueued, taken, expired, dropped, missed, rewritten, since>>
  BY <1>3 DEF AddToTracking, Return
<1>6. op' \in [Request -> OpType] /\ op'[r] = NoOp /\ Others(r) /\ NoOp.pc = "idle"
  BY <1>1, <1>5, Parts, OpStep, KindsAreOps DEF NoOp
<1>7. TypeOK' /\ FiniteQueues'
  <2>1. faults' \in 0 .. MaxFaults
    BY <1>1, <1>5, Parts, FaultsOK
  <2>2. tracking' \in SUBSET Member /\ returned' \in SUBSET Event
    BY <1>1, <1>4, <1>5 DEF TypeOK
  <2> QED BY <1>1, <1>5, <1>6, <2>1, <2>2 DEF TypeOK, FiniteQueues
<1>8. SinceIsQueued' /\ \A s \in Request : since'[s] \subseteq since[s]
  BY <1>1, <1>5, NotObserved
<1>9. PassedOver' /\ NoOvertaking'
  BY <1>1, <1>6, <1>8, OrderStays
<1>10. KnownItems'
  BY <1>1, <1>5, <1>6, KnownStays DEF KnownItems
<1>11. EnqueuedOnce'
  BY <1>1, <1>5, <1>6, OnceStays
<1>12. AllKept' /\ AllAlone'
  <2>1. \A x : Holders(x)' = Holders(x)
    BY <1>2, <1>6, HoldersSame DEF Holding
  <2>2. \A x \in Event : Unmoved(x)
    BY <1>5, <2>1 DEF Unmoved, Queued
  <2> QED BY <1>1, <1>5, <2>2, NoneMoves, Parts
<1> QED BY <1>7, <1>8, <1>9, <1>10, <1>11, <1>12 DEF IInv

-----------------------------------------------------------------------------
\* dequeue.

LEMMA DequeueInv ==
    ASSUME IInv, NEW r \in Request, NEW asked \in Asked, Dequeue(r, asked)
    PROVE  IInv'
<1> DEFINE o == [pc |-> "looking", asked |-> asked, all |-> asked]
<1>1. /\ TypeOK /\ FiniteQueues /\ SinceIsQueued /\ PassedOver /\ NoOvertaking
      /\ KnownItems /\ EnqueuedOnce /\ AllKept /\ AllAlone
  BY DEF IInv
<1>2. /\ op[r].pc = "idle" /\ op' = [op EXCEPT ![r] = o] /\ calls < MaxCalls /\ calls' = calls + 1
      /\ since' = [since EXCEPT ![r] = Entries(queues)]
      /\ UNCHANGED <<queues, tracking, clock, faults, enqueued, returned, taken, expired, dropped,
                     missed, rewritten>>
  BY DEF Dequeue, Begin, history
<1>3. o \in OpType
  <2>1. o \in Looking
    BY DEF Looking
  <2> QED BY <2>1, KindsAreOps
<1>4. o.pc = "looking" /\ o.asked = asked /\ o.all = asked
  OBVIOUS
<1> HIDE DEF o
<1>5. op' \in [Request -> OpType] /\ op'[r] = o /\ Others(r)
  BY <1>1, <1>2, <1>3, Parts, OpStep
<1>6. /\ since'[r] = Entries(queues)
      /\ \A s \in Request : s # r => since'[s] = since[s]
      /\ since' \in [Request -> SUBSET Entry]
  <2>1. Entries(queues) \in SUBSET Entry
    BY <1>1, Parts, EntriesAre
  <2> QED BY <1>1, <1>2, <2>1, Parts
<1>7. TypeOK' /\ FiniteQueues'
  <2>1. calls' \in 0 .. MaxCalls
    BY <1>1, <1>2, Parts, PriorityQueueAssumption
  <2> QED BY <1>1, <1>2, <1>5, <1>6, <2>1 DEF TypeOK, FiniteQueues
<1>8. SinceIsQueued'
  BY <1>1, <1>2, <1>6 DEF SinceIsQueued
<1>9. PassedOver'
  BY <1>1, <1>4, <1>5, <1>6 DEF PassedOver, Others
<1>10. NoOvertaking'
  <2>1. ASSUME NEW s \in Request, op'[s].pc \in {"removing", "untracking"}
        PROVE  s # r
    BY <1>4, <1>5, <2>1
  <2> QED BY <1>1, <1>5, <1>6, <2>1 DEF NoOvertaking, Others
<1>11. KnownItems'
  BY <1>1, <1>2, <1>4, <1>5, KnownStays DEF KnownItems
<1>12. EnqueuedOnce'
  BY <1>1, <1>2, <1>4, <1>5, OnceStays
<1>13. AllKept' /\ AllAlone'
  <2>1. \A x : Holders(x)' = Holders(x)
    BY <1>2, <1>4, <1>5, HoldersSame DEF Holding
  <2>2. \A x \in Event : Unmoved(x)
    BY <1>2, <2>1 DEF Unmoved, Queued
  <2> QED BY <1>1, <1>2, <2>2, NoneMoves, Parts
<1> QED BY <1>7, <1>8, <1>9, <1>10, <1>11, <1>12, <1>13 DEF IInv

\* What Look does.
LEMMA LookShape ==
    ASSUME IInv, NEW r \in Request, Look(r)
    PROVE  /\ op[r] \in Looking
           /\ UNCHANGED <<queues, tracking, clock, calls, enqueued, returned, taken, expired,
                          dropped, missed, rewritten, since>>
           /\ faults' \in 0 .. MaxFaults
           /\ \E o \in OpType :
                 /\ op' = [op EXCEPT ![r] = o]
                 /\ \/ o.pc = "idle"
                    \/ /\ o.pc = "removing" /\ o.all = op[r].all
                       /\ o.entry \in queues[NextQueue(op[r].asked)]
                       /\ \A x \in queues[NextQueue(op[r].asked)] : o.entry.score <= x.score
                       /\ o.item = o.entry.item
                    \/ /\ o.pc = "looking" /\ o.all = op[r].all
                       /\ queues[NextQueue(op[r].asked)] = {}
                       /\ o.asked = op[r].asked \ {NextQueue(op[r].asked)}
<1> DEFINE l == NextQueue(op[r].asked)
           rest == op[r].asked \ {l}
<1>1. TypeOK /\ FiniteQueues
  BY DEF IInv
<1>2. op[r] \in Looking
  BY <1>1, Parts, OpKinds DEF Look
<1>3. l \in Level /\ l \in op[r].asked
  BY <1>2, NextQueueLeast DEF Looking
<1>4. /\ UNCHANGED <<queues, tracking, clock, calls, enqueued, returned, taken, expired,
                     dropped, missed, rewritten, since>>
      /\ Raises \/ Succeeds
  BY DEF Look, history
<1>5. faults' \in 0 .. MaxFaults
  BY <1>1, <1>4, Parts, FaultsOK
<1>6. CASE op' = [op EXCEPT ![r] = NoOp]
  BY <1>2, <1>4, <1>5, <1>6, KindsAreOps DEF NoOp
<1>7. CASE queues[l] # {} /\ op' = [op EXCEPT ![r] = [pc |-> "removing", entry |-> HeadOf(l),
                                               item |-> HeadOf(l).item, all |-> op[r].all]]
  <2> DEFINE o == [pc |-> "removing", entry |-> HeadOf(l), item |-> HeadOf(l).item, all |-> op[r].all]
  <2>1. queues[l] \in SUBSET Entry
    BY <1>1, <1>3, Parts DEF QueuesOK
  <2>2. HeadOf(l) \in queues[l] /\ \A x \in queues[l] : HeadOf(l).score <= x.score
    BY <1>7, <2>1, FirstIsLeast DEF HeadOf
  <2>3. HeadOf(l) \in Entry /\ HeadOf(l).item \in Member
    BY <2>1, <2>2 DEF Entry
  <2>4. o \in Removing
    BY <1>2, <2>3 DEF Removing, Looking
  <2>5. o \in OpType /\ op' = [op EXCEPT ![r] = o]
    BY <1>7, <2>4, KindsAreOps
  <2>6. o.pc = "removing" /\ o.entry = HeadOf(l) /\ o.item = o.entry.item /\ o.all = op[r].all
    OBVIOUS
  <2> HIDE DEF o
  <2> QED BY <1>2, <1>4, <1>5, <2>2, <2>5, <2>6
<1>8. CASE queues[l] = {} /\ rest # {} /\ op' = [op EXCEPT ![r].asked = rest]
  <2> DEFINE o == [op[r] EXCEPT !.asked = rest]
  <2>1. rest \in Asked
    BY <1>2, <1>8 DEF Looking, Asked
  <2>2. o \in Looking /\ o.pc = "looking" /\ o.all = op[r].all /\ o.asked = rest
    BY <1>2, <2>1 DEF Looking
  <2>3. o \in OpType /\ op' = [op EXCEPT ![r] = o]
    BY <1>8, <2>2, KindsAreOps
  <2> HIDE DEF o
  <2> QED BY <1>2, <1>4, <1>5, <1>8, <2>2, <2>3
<1> HIDE DEF l
<1> QED BY <1>6, <1>7, <1>8 DEF Look, Return, l

\* The queue looked at is the first of those left, and what lies in those before
\* it was not there all the time.
LEMMA LookInv ==
    ASSUME IInv, NEW r \in Request, Look(r)
    PROVE  IInv'
<1>1. /\ TypeOK /\ FiniteQueues /\ SinceIsQueued /\ PassedOver /\ NoOvertaking
      /\ KnownItems /\ EnqueuedOnce /\ AllKept /\ AllAlone
  BY DEF IInv
<1>2. /\ op[r] \in Looking /\ op[r].pc = "looking" /\ op[r].asked \in Asked
      /\ UNCHANGED <<queues, tracking, clock, calls, enqueued, returned, taken, expired,
                     dropped, missed, rewritten, since>>
      /\ faults' \in 0 .. MaxFaults
  BY LookShape DEF Looking
<1>3. PICK l \in Level : l = NextQueue(op[r].asked)
  BY <1>2, NextQueueLeast
<1>4. l \in op[r].asked /\ \A k \in op[r].asked : l <= k
  BY <1>2, <1>3, NextQueueLeast
<1>5. PICK o \in OpType :
         /\ op' = [op EXCEPT ![r] = o]
         /\ \/ o.pc = "idle"
            \/ /\ o.pc = "removing" /\ o.all = op[r].all
               /\ o.entry \in queues[l] /\ \A x \in queues[l] : o.entry.score <= x.score
               /\ o.item = o.entry.item
            \/ /\ o.pc = "looking" /\ o.all = op[r].all
               /\ queues[l] = {} /\ o.asked = op[r].asked \ {l}
  BY <1>3, LookShape
<1>6. op' \in [Request -> OpType] /\ op'[r] = o /\ Others(r)
  BY <1>1, <1>5, Parts, OpStep
<1>7. TypeOK' /\ FiniteQueues'
  BY <1>1, <1>2, <1>6 DEF TypeOK, FiniteQueues
<1>8. SinceIsQueued'
  BY <1>1, <1>2, NotObserved
<1>9. \A x \in since[r] :
         /\ x \in queues[x.item.level] /\ x.item.level \in Level /\ x.score \in Nat
         /\ x.item.level \in op[r].all => x.item.level \in op[r].asked
  BY <1>1, <1>2, Parts, EntriesAre DEF SinceIsQueued, PassedOver
<1>10. PassedOver'
  <2>1. ASSUME o.pc = "looking"
        PROVE  /\ o.asked \subseteq o.all
               /\ \A x \in since[r] : x.item.level \notin o.all \ o.asked
    <3>1. o.all = op[r].all /\ queues[l] = {} /\ o.asked = op[r].asked \ {l}
      BY <1>5, <2>1
    <3>2. op[r].asked \subseteq op[r].all
      BY <1>1, <1>2 DEF PassedOver
    <3>3. \A x \in since[r] : x.item.level # l
      BY <1>9, <3>1
    <3>4. \A x \in since[r] : x.item.level \in op[r].all => x.item.level \in op[r].asked
      BY <1>9
    <3>5. \A x \in since[r] : x.item.level \notin op[r].all \ (op[r].asked \ {l})
      BY <3>3, <3>4
    <3> QED BY <3>1, <3>2, <3>5
  <2>2. ASSUME NEW s \in Request, op'[s].pc = "looking"
        PROVE  /\ op'[s].asked \subseteq op'[s].all
               /\ \A x \in since'[s] : x.item.level \notin op'[s].all \ op'[s].asked
    <3>1. CASE s = r
      BY <1>2, <1>6, <2>1, <2>2, <3>1
    <3>2. CASE s # r
      BY <1>1, <1>2, <1>6, <2>2, <3>2 DEF PassedOver, Others
    <3> QED BY <3>1, <3>2
  <2> QED BY <2>2 DEF PassedOver
<1>11. NoOvertaking'
  <2>1. ASSUME NEW s \in Request, op'[s].pc \in {"removing", "untracking"},
               NEW x \in since'[s], x.item.level \in op'[s].all
        PROVE  ~Ahead(x, op'[s].entry)
    <3>1. CASE s # r
      BY <1>1, <1>2, <1>6, <2>1, <3>1 DEF NoOvertaking, Others
    <3>2. CASE s = r
      <4>1. /\ o.all = op[r].all /\ o.entry \in queues[l]
            /\ \A y \in queues[l] : o.entry.score <= y.score
        BY <1>5, <1>6, <2>1, <3>2
      <4>2. o.entry.item.level = l /\ o.entry.score \in Nat
        BY <1>1, <4>1, Parts DEF QueuesOK, Entry
      <4>3. x.item.level \in op[r].asked /\ x \in queues[x.item.level] /\ x.score \in Nat
            /\ x.item.level \in Level
        <5>1. x \in since[r] /\ op'[s] = o
          BY <1>2, <1>6, <2>1, <3>2
        <5>2. x.item.level \in op[r].all
          BY <2>1, <4>1, <5>1
        <5> QED BY <1>9, <5>1, <5>2
      <4>4. l <= x.item.level /\ (x.item.level = l => o.entry.score <= x.score)
        BY <1>4, <4>1, <4>3
      <4> QED BY <1>6, <3>2, <4>2, <4>3, <4>4 DEF Ahead, Level
    <3> QED BY <3>1, <3>2
  <2> QED BY <2>1 DEF NoOvertaking
<1>12. KnownItems'
  <2>1. o.pc \in {"tracking", "removing", "untracking", "taking", "putting"} => o.item.event \in enqueued
    BY <1>1, <1>5 DEF KnownItems
  <2>2. o.pc \notin {"taking", "putting"}
    BY <1>5
  <2> QED BY <1>1, <1>2, <1>6, <2>1, <2>2, KnownStays DEF KnownItems
<1>13. EnqueuedOnce'
  BY <1>1, <1>2, <1>5, <1>6, OnceStays
<1>14. AllKept' /\ AllAlone'
  <2>1. \A x : Holders(x)' = Holders(x)
    BY <1>2, <1>5, <1>6, HoldersSame DEF Holding
  <2>2. \A x \in Event : Unmoved(x)
    BY <1>2, <2>1 DEF Unmoved, Queued
  <2> QED BY <1>1, <1>2, <2>2, NoneMoves, Parts
<1> QED BY <1>7, <1>8, <1>10, <1>11, <1>12, <1>13, <1>14 DEF IInv

LEMMA RemoveInv ==
    ASSUME IInv, NEW r \in Request, Remove(r)
    PROVE  IInv'
<1>1. /\ TypeOK /\ FiniteQueues /\ SinceIsQueued /\ PassedOver /\ NoOvertaking
      /\ KnownItems /\ EnqueuedOnce /\ AllKept /\ AllAlone
  BY DEF IInv
<1>2. op[r] \in Removing /\ op[r].pc = "removing"
  BY <1>1, Parts, OpKinds DEF Remove
<1>3. PICK m \in Member : m = op[r].item
  BY <1>2 DEF Removing
<1>4. m.event \in Event /\ m.event \in enqueued
  BY <1>1, <1>2, <1>3 DEF Member, KnownItems
<1>5. /\ UNCHANGED <<tracking, clock, calls, enqueued, returned, taken, expired, rewritten>>
      /\ Observe /\ (Raises \/ Succeeds)
  BY DEF Remove
<1> DEFINE Ok == [op[r] EXCEPT !.pc = "untracking"]
<1>6. Ok \in OpType /\ Ok.pc = "untracking" /\ Ok.item = m /\ Ok.entry = op[r].entry /\ Ok.all = op[r].all
  <2>1. Ok \in Removing
    BY <1>2 DEF Removing
  <2> QED BY <1>2, <1>3, <2>1, KindsAreOps DEF Removing
<1>7. \/ /\ op' = [op EXCEPT ![r] = Ok] /\ queues' = ZRem(queues, m)
         /\ missed' = missed \cup Miss(m) /\ dropped' = dropped
      \/ /\ op' = [op EXCEPT ![r] = NoOp] /\ missed' = missed
         /\ \/ UNCHANGED <<queues, dropped>>
            \/ queues' = ZRem(queues, m) /\ dropped' = dropped \cup Loss(m)
  BY <1>3 DEF Remove, Removal, Return
<1> HIDE DEF Ok
<1>8. PICK o \in OpType :
         /\ op' = [op EXCEPT ![r] = o]
         /\ o = Ok \/ o.pc = "idle"
  BY <1>6, <1>7, KindsAreOps DEF NoOp
<1>9. op' \in [Request -> OpType] /\ op'[r] = o /\ Others(r)
  BY <1>1, <1>8, Parts, OpStep
<1>10. QueuesOK(queues') /\ Entries(queues') \subseteq Entries(queues)
  BY <1>1, <1>7, Parts, ZRemRemoves
<1>11. /\ SinceIsQueued' /\ (\A t \in Request : since'[t] \subseteq since[t])
       /\ since' \in [Request -> SUBSET Entry]
  BY <1>1, <1>5, Parts, Observed
<1>12. missed' \in SUBSET Event /\ dropped' \in SUBSET Event /\ dropped' \subseteq enqueued
       /\ missed \subseteq missed'
  BY <1>1, <1>4, <1>7 DEF TypeOK, Miss, Loss, KnownItems
<1>13. TypeOK' /\ FiniteQueues'
  <2>1. faults' \in 0 .. MaxFaults
    BY <1>1, <1>5, Parts, FaultsOK
  <2> QED BY <1>1, <1>5, <1>9, <1>10, <1>11, <1>12, <2>1, TypesHold DEF TypeOK
<1>14. PassedOver' /\ NoOvertaking'
  BY <1>1, <1>2, <1>6, <1>8, <1>9, <1>11, OrderStays
<1>15. KnownItems'
  <2>1. \A x \in Entries(queues') : x.item.event \in enqueued
    BY <1>1, <1>10, Parts, EntriesAre DEF KnownItems
  <2>2. \A l \in Level : \A x \in queues'[l] : x.item.event \in enqueued
    BY <1>1, <1>10, <2>1, Parts, KnownQueue
  <2>3. o.pc \in {"idle", "untracking"} /\ (o.pc = "untracking" => o.item.event \in enqueued)
    BY <1>4, <1>6, <1>8
  <2> QED BY <1>1, <1>5, <1>9, <1>12, <2>2, <2>3, KnownStays DEF KnownItems
<1>16. EnqueuedOnce'
  BY <1>1, <1>5, <1>6, <1>8, <1>9, OnceStays
<1>17. AllKept' /\ AllAlone'
  <2>1. CASE /\ op' = [op EXCEPT ![r] = Ok] /\ queues' = ZRem(queues, m)
             /\ missed' = missed \cup Miss(m) /\ dropped' = dropped
    <3>1. op'[r] = Ok /\ Others(r)
      BY <1>1, <1>6, <2>1, Parts, OpStep
    <3>2. \A x : Holders(x)' = IF m.event = x THEN Holders(x) \cup {r} ELSE Holders(x)
      BY <1>2, <1>6, <3>1, HoldersGain DEF Holding
    <3> QED BY <1>1, <1>5, <2>1, <3>2, PickMoves, Parts
  <2>2. CASE /\ op' = [op EXCEPT ![r] = NoOp] /\ missed' = missed
             /\ \/ UNCHANGED <<queues, dropped>>
                \/ queues' = ZRem(queues, m) /\ dropped' = dropped \cup Loss(m)
    <3>1. op'[r] = NoOp /\ Others(r) /\ NoOp.pc = "idle"
      BY <1>1, <2>2, Parts, OpStep, KindsAreOps DEF NoOp
    <3>2. \A x : Holders(x)' = Holders(x)
      BY <1>2, <3>1, HoldersSame DEF Holding
    <3>3. CASE UNCHANGED <<queues, dropped>>
      <4>1. \A x \in Event : Unmoved(x)
        BY <1>5, <3>2, <3>3 DEF Unmoved, Queued
      <4> QED BY <1>1, <1>5, <1>12, <4>1, NoneMoves, Parts
    <3>4. CASE queues' = ZRem(queues, m) /\ dropped' = dropped \cup Loss(m)
      BY <1>1, <1>4, <1>5, <2>2, <3>2, <3>4, LossMoves, Parts
    <3> QED BY <2>2, <3>3, <3>4
  <2> QED BY <1>7, <2>1, <2>2
<1> QED BY <1>11, <1>13, <1>14, <1>15, <1>16, <1>17 DEF IInv

LEMMA UntrackInv ==
    ASSUME IInv, NEW r \in Request, Untrack(r)
    PROVE  IInv'
<1>1. /\ TypeOK /\ FiniteQueues /\ SinceIsQueued /\ PassedOver /\ NoOvertaking
      /\ KnownItems /\ EnqueuedOnce /\ AllKept /\ AllAlone
  BY DEF IInv
<1>2. op[r] \in Removing /\ op[r].pc = "untracking"
  BY <1>1, Parts, OpKinds DEF Untrack
<1>3. PICK m \in Member : m = op[r].item
  BY <1>2 DEF Removing
<1>4. PICK f \in Event : f = m.event
  BY DEF Member
<1>5. f \in enqueued
  BY <1>1, <1>2, <1>3, <1>4 DEF KnownItems
<1>6. /\ op' = [op EXCEPT ![r] = NoOp]
      /\ tracking' \in {tracking, tracking \ {m}}
      /\ Raises \/ Succeeds
      /\ UNCHANGED <<queues, clock, calls, enqueued, returned, expired, missed, rewritten, since>>
      /\ \/ taken' = [taken EXCEPT ![f] = @ + 1] /\ dropped' = dropped
         \/ dropped' = dropped \cup {f} /\ taken' = taken
  BY <1>3, <1>4 DEF Untrack, Return
<1>7. op' \in [Request -> OpType] /\ op'[r] = NoOp /\ Others(r) /\ NoOp.pc = "idle"
  BY <1>1, <1>6, Parts, OpStep, KindsAreOps DEF NoOp
<1>8. /\ taken' \in [Event -> Nat] /\ dropped' \in SUBSET Event /\ dropped' \subseteq enqueued
      /\ \A e \in Event : taken'[e] # 0 => e \in enqueued
  BY <1>1, <1>5, <1>6, Parts DEF TypeOK, KnownItems
<1>9. TypeOK' /\ FiniteQueues'
  <2>1. faults' \in 0 .. MaxFaults
    BY <1>1, <1>6, Parts, FaultsOK
  <2>2. tracking' \in SUBSET Member
    BY <1>1, <1>6 DEF TypeOK
  <2> QED BY <1>1, <1>6, <1>7, <1>8, <2>1, <2>2 DEF TypeOK, FiniteQueues
<1>10. SinceIsQueued' /\ \A s \in Request : since'[s] \subseteq since[s]
  BY <1>1, <1>6, NotObserved
<1>11. PassedOver' /\ NoOvertaking'
  BY <1>1, <1>7, <1>10, OrderStays
<1>12. KnownItems'
  BY <1>1, <1>6, <1>7, <1>8, KnownStays DEF KnownItems
<1>13. EnqueuedOnce'
  BY <1>1, <1>6, <1>7, OnceStays
<1>14. AllKept' /\ AllAlone'
  <2>1. r \in Holders(f) /\ \A x : Holders(x)' = IF f = x THEN Holders(x) \ {r} ELSE Holders(x)
    BY <1>2, <1>3, <1>4, <1>7, HoldersLose DEF Holding
  <2>2. CASE taken' = [taken EXCEPT ![f] = @ + 1] /\ dropped' = dropped
    BY <1>1, <1>6, <2>1, <2>2, TakenMoves, Parts
  <2>3. CASE dropped' = dropped \cup {f} /\ taken' = taken
    BY <1>1, <1>6, <2>1, <2>3, DroppedMoves, Parts
  <2> QED BY <1>6, <2>2, <2>3
<1> QED BY <1>9, <1>10, <1>11, <1>12, <1>13, <1>14 DEF IInv

-----------------------------------------------------------------------------
\* move_to_priority, update_item and cleanup_expired.

\* A step that only changes what request r executes.
LEMMA QuietInv ==
    ASSUME IInv, NEW r \in Request, NEW o \in OpType, op' = [op EXCEPT ![r] = o],
           ~Holding(op[r]), ~Holding(o), o.pc \notin {"looking", "removing", "adding", "tracking"},
           o.pc = "taking" => /\ o.item.event \in enqueued
                              /\ \A x \in o.left : x.item.event \in enqueued,
           clock' \in Nat \ {0}, calls' \in 0 .. MaxCalls, faults' \in 0 .. MaxFaults,
           UNCHANGED <<queues, tracking, history, since>>
    PROVE  IInv'
<1>1. /\ TypeOK /\ FiniteQueues /\ SinceIsQueued /\ PassedOver /\ NoOvertaking
      /\ KnownItems /\ EnqueuedOnce /\ AllKept /\ AllAlone
  BY DEF IInv
<1>2. UNCHANGED <<queues, tracking, enqueued, returned, taken, expired, dropped, missed, rewritten, since>>
  BY DEF history
<1>3. op' \in [Request -> OpType] /\ op'[r] = o /\ Others(r)
  BY <1>1, Parts, OpStep
<1>4. o.pc \notin {"untracking", "putting"}
  BY DEF Holding
<1>5. TypeOK' /\ FiniteQueues'
  BY <1>1, <1>2, <1>3 DEF TypeOK, FiniteQueues
<1>6. SinceIsQueued' /\ \A s \in Request : since'[s] \subseteq since[s]
  BY <1>1, <1>2, NotObserved
<1>7. PassedOver' /\ NoOvertaking'
  BY <1>1, <1>3, <1>4, <1>6, OrderStays
<1>8. KnownItems'
  BY <1>1, <1>2, <1>3, <1>4, KnownStays DEF KnownItems
<1>9. EnqueuedOnce'
  BY <1>1, <1>2, <1>3, OnceStays
<1>10. AllKept' /\ AllAlone'
  <2>1. \A x : Holders(x)' = Holders(x)
    BY <1>3, HoldersSame
  <2>2. \A x \in Event : Unmoved(x)
    BY <1>2, <2>1 DEF Unmoved, Queued
  <2> QED BY <1>1, <1>2, <2>2, NoneMoves, Parts
<1> QED BY <1>5, <1>6, <1>7, <1>8, <1>9, <1>10 DEF IInv

\* A step that changes the queues.
LEMMA ChangeInv ==
    ASSUME IInv, NEW r \in Request, NEW o \in OpType, op' = [op EXCEPT ![r] = o],
           o.pc \notin {"looking", "removing", "untracking", "adding", "tracking"},
           o.pc \in {"taking", "putting"} => /\ o.item.event \in enqueued
                                             /\ \A x \in o.left : x.item.event \in enqueued,
           QueuesOK(queues'), \A x \in Entries(queues') : x.item.event \in enqueued,
           clock' \in Nat \ {0}, faults' \in 0 .. MaxFaults,
           expired' \subseteq enqueued, dropped' \subseteq enqueued,
           missed' \subseteq enqueued \cup missed, rewritten' \subseteq enqueued \cup rewritten,
           Observe, UNCHANGED <<tracking, calls, enqueued, returned, taken>>,
           AllKept', AllAlone'
    PROVE  IInv'
<1>1. /\ TypeOK /\ FiniteQueues /\ SinceIsQueued /\ PassedOver /\ NoOvertaking
      /\ KnownItems /\ EnqueuedOnce
  BY DEF IInv
<1>2. op' \in [Request -> OpType] /\ op'[r] = o /\ Others(r)
  BY <1>1, Parts, OpStep
<1>3. /\ SinceIsQueued' /\ (\A t \in Request : since'[t] \subseteq since[t])
      /\ since' \in [Request -> SUBSET Entry]
  BY <1>1, Parts, Observed
<1>4. TypeOK' /\ FiniteQueues'
  <2>1. /\ expired' \in SUBSET Event /\ dropped' \in SUBSET Event
        /\ missed' \in SUBSET Event /\ rewritten' \in SUBSET Event
    BY <1>1 DEF TypeOK
  <2> QED BY <1>1, <1>2, <1>3, <2>1, TypesHold DEF TypeOK
<1>5. PassedOver' /\ NoOvertaking'
  BY <1>1, <1>2, <1>3, OrderStays
<1>6. KnownItems'
  <2>1. \A l \in Level : \A x \in queues'[l] : x.item.event \in enqueued
    BY <1>1, Parts, KnownQueue
  <2> QED BY <1>1, <1>2, <2>1, KnownStays DEF KnownItems
<1>7. EnqueuedOnce'
  BY <1>1, <1>2, OnceStays
<1> QED BY <1>3, <1>4, <1>5, <1>6, <1>7 DEF IInv

\* Where a loop goes on.
LEMMA OnwardGoes ==
    ASSUME NEW o, o.event \in Event, o.to \in 0 .. Levels, o.asked \in SUBSET Level,
           o.left \in SUBSET Entry, clock \in Nat
    PROVE  /\ Onward(o) \in OpType
           /\ Onward(o).pc \in {"taking", "scanning", "idle"}
           /\ Onward(o).pc = "taking" =>
                 /\ \E x \in o.left : Onward(o).item = x.item
                 /\ Onward(o).left \subseteq o.left
<1>1. CASE o.left # {}
  <2> DEFINE n == [pc |-> "taking", event |-> o.event, to |-> o.to, asked |-> o.asked,
                   item |-> First(o.left).item, left |-> o.left \ {First(o.left)}, score |-> clock]
  <2>1. Onward(o) = n
    BY <1>1 DEF Onward
  <2>2. First(o.left) \in o.left /\ First(o.left).item \in Member
    BY <1>1, FirstIsLeast DEF Entry
  <2>3. n \in Taking
    BY <2>2 DEF Taking
  <2>4. n.pc = "taking" /\ n.item = First(o.left).item /\ n.left \subseteq o.left
    OBVIOUS
  <2> HIDE DEF n
  <2> QED BY <2>1, <2>2, <2>3, <2>4, KindsAreOps
<1>2. CASE o.left = {} /\ o.asked # {}
  <2> DEFINE n == [pc |-> "scanning", event |-> o.event, to |-> o.to, asked |-> o.asked,
                   left |-> {}, score |-> 0]
  <2>1. Onward(o) = n
    BY <1>2 DEF Onward
  <2>2. n \in Scanning
    BY <1>2 DEF Scanning, Asked
  <2>3. n.pc = "scanning"
    OBVIOUS
  <2> HIDE DEF n
  <2> QED BY <2>1, <2>2, <2>3, KindsAreOps
<1>3. CASE o.left = {} /\ o.asked = {}
  <2>1. Onward(o) = NoOp /\ NoOp.pc = "idle"
    BY <1>3 DEF Onward, NoOp
  <2> QED BY <2>1, KindsAreOps
<1> QED BY <1>1, <1>2, <1>3

LEMMA LevelsAsked == Level \in Asked
<1>1. 1 \in Level
  BY PriorityQueueAssumption DEF Level
<1> QED BY <1>1 DEF Asked

LEMMA RewriteInv ==
    ASSUME IInv, NEW r \in Request, NEW e \in Event, NEW l \in 0 .. Levels, Rewrite(r, e, l)
    PROVE  IInv'
<1> DEFINE o == [pc |-> "scanning", event |-> e, to |-> l, asked |-> Level, left |-> {}, score |-> 0]
<1>1. TypeOK /\ FiniteQueues
  BY DEF IInv
<1>2. /\ op[r].pc = "idle" /\ op' = [op EXCEPT ![r] = o] /\ calls < MaxCalls /\ calls' = calls + 1
      /\ UNCHANGED <<queues, tracking, clock, faults, history, since>>
  BY DEF Rewrite, Begin
<1>3. o \in OpType
  <2>1. o \in Scanning
    BY LevelsAsked DEF Scanning
  <2> QED BY <2>1, KindsAreOps
<1>4. o.pc = "scanning"
  OBVIOUS
<1> HIDE DEF o
<1>5. clock' \in Nat \ {0} /\ calls' \in 0 .. MaxCalls /\ faults' \in 0 .. MaxFaults
  BY <1>1, <1>2, Parts, PriorityQueueAssumption
<1> QED BY <1>2, <1>3, <1>4, <1>5, QuietInv DEF Holding

LEMMA CleanupInv ==
    ASSUME IInv, NEW r \in Request, NEW cutoff \in Nat, Cleanup(r, cutoff)
    PROVE  IInv'
<1> DEFINE o == [pc |-> "expiring", asked |-> Level, cutoff |-> cutoff]
<1>1. TypeOK /\ FiniteQueues
  BY DEF IInv
<1>2. /\ op[r].pc = "idle" /\ op' = [op EXCEPT ![r] = o] /\ calls < MaxCalls /\ calls' = calls + 1
      /\ UNCHANGED <<queues, tracking, clock, faults, history, since>>
  BY DEF Cleanup, Begin
<1>3. o \in OpType
  <2>1. o \in Expiring
    BY LevelsAsked DEF Expiring
  <2> QED BY <2>1, KindsAreOps
<1>4. o.pc = "expiring"
  OBVIOUS
<1> HIDE DEF o
<1>5. clock' \in Nat \ {0} /\ calls' \in 0 .. MaxCalls /\ faults' \in 0 .. MaxFaults
  BY <1>1, <1>2, Parts, PriorityQueueAssumption
<1> QED BY <1>2, <1>3, <1>4, <1>5, QuietInv DEF Holding

LEMMA ScanInv ==
    ASSUME IInv, NEW r \in Request, Scan(r)
    PROVE  IInv'
<1> DEFINE l == NextQueue(op[r].asked)
           found == [op[r] EXCEPT !.asked = @ \ {l},
                                  !.left = {x \in queues[l] : x.item.event = op[r].event}]
<1>1. TypeOK /\ FiniteQueues /\ KnownItems
  BY DEF IInv
<1>2. op[r] \in Scanning /\ op[r].pc = "scanning"
  BY <1>1, Parts, OpKinds DEF Scan
<1>3. l \in Level
  BY <1>2, NextQueueLeast DEF Scanning
<1>4. /\ \/ op' = [op EXCEPT ![r] = Onward(found)]
         \/ op' = [op EXCEPT ![r] = NoOp]
      /\ clock' \in {clock, clock + 1, clock + 0}
      /\ Raises \/ Succeeds
      /\ UNCHANGED <<queues, tracking, calls, history, since>>
  BY DEF Scan, Return
<1>5. /\ found.event \in Event /\ found.to \in 0 .. Levels /\ found.asked \in SUBSET Level
      /\ found.left \subseteq queues[l]
  BY <1>2 DEF Scanning, Asked
<1> HIDE DEF l, found
<1>6. found.left \in SUBSET Entry /\ \A x \in found.left : x.item.event \in enqueued
  BY <1>1, <1>3, <1>5, Parts DEF QueuesOK, KnownItems
<1>7. clock \in Nat \ {0}
  BY <1>1, Parts
<1>8. /\ Onward(found) \in OpType
      /\ Onward(found).pc \in {"taking", "scanning", "idle"}
      /\ Onward(found).pc = "taking" => /\ Onward(found).item.event \in enqueued
                                        /\ \A x \in Onward(found).left : x.item.event \in enqueued
  BY <1>5, <1>6, <1>7, OnwardGoes
<1>9. NoOp \in OpType /\ NoOp.pc = "idle"
  BY KindsAreOps DEF NoOp
<1>10. clock' \in Nat \ {0} /\ calls' \in 0 .. MaxCalls /\ faults' \in 0 .. MaxFaults
  BY <1>1, <1>4, <1>7, Parts, FaultsOK
<1>11. ~Holding(op[r])
  BY <1>2 DEF Holding
<1>12. CASE op' = [op EXCEPT ![r] = Onward(found)]
  BY <1>4, <1>8, <1>10, <1>11, <1>12, QuietInv DEF Holding
<1>13. CASE op' = [op EXCEPT ![r] = NoOp]
  BY <1>4, <1>9, <1>10, <1>11, <1>13, QuietInv DEF Holding
<1> QED BY <1>4, <1>12, <1>13

LEMMA TakeInv ==
    ASSUME IInv, NEW r \in Request, Take(r)
    PROVE  IInv'
<1>1. TypeOK /\ FiniteQueues /\ KnownItems /\ AllKept /\ AllAlone
  BY DEF IInv
<1>2. op[r] \in Taking /\ op[r].pc = "taking"
  BY <1>1, Parts, OpKinds DEF Take
<1>3. PICK m \in Member : m = op[r].item
  BY <1>2 DEF Taking
<1>4. m.event \in Event /\ m.event \in enqueued /\ \A x \in op[r].left : x.item.event \in enqueued
  BY <1>1, <1>2, <1>3 DEF Member, KnownItems
<1> DEFINE Ok == [op[r] EXCEPT !.pc = "putting", !.score = IF IsMove(op[r]) THEN clock ELSE @]
           On == Onward(op[r])
<1>5. clock \in Nat \ {0}
  BY <1>1, Parts
<1>6. Ok \in OpType /\ Ok.pc = "putting" /\ Ok.item = m /\ Ok.left = op[r].left
  <2>1. Ok \in Taking
    BY <1>2, <1>5 DEF Taking
  <2> QED BY <1>2, <1>3, <2>1, KindsAreOps DEF Taking
<1>7. /\ On \in OpType
      /\ On.pc \in {"taking", "scanning", "idle"}
      /\ On.pc = "taking" => /\ On.item.event \in enqueued
                             /\ \A x \in On.left : x.item.event \in enqueued
  BY <1>2, <1>4, <1>5, OnwardGoes DEF Taking
<1>8. /\ UNCHANGED <<tracking, calls, enqueued, returned, taken, expired>>
      /\ Observe /\ (Raises \/ Succeeds) /\ clock' \in {clock, clock + 1, clock + 0}
  BY DEF Take
<1>9. \/ /\ op' = [op EXCEPT ![r] = Ok] /\ queues' = ZRem(queues, m)
         /\ missed' = missed \cup Miss(m) /\ dropped' = dropped
         /\ rewritten' = rewritten \cup {m.event}
      \/ /\ op' = [op EXCEPT ![r] = On] /\ UNCHANGED <<missed, rewritten>>
         /\ \/ UNCHANGED <<queues, dropped>>
            \/ queues' = ZRem(queues, m) /\ dropped' = dropped \cup Loss(m)
  <2>1. [op EXCEPT ![r].pc = "putting", ![r].score = IF IsMove(op[r]) THEN clock ELSE @]
           = [op EXCEPT ![r] = Ok]
    BY <1>1, <1>2, Parts DEF Taking
  <2> QED BY <1>3, <2>1 DEF Take, Withdrawal
<1> HIDE DEF Ok, On
<1>10. QueuesOK(queues') /\ Entries(queues') \subseteq Entries(queues)
  BY <1>1, <1>9, Parts, ZRemRemoves
<1>11. \A x \in Entries(queues') : x.item.event \in enqueued
  BY <1>1, <1>10, Parts, EntriesAre DEF KnownItems
<1>12. faults' \in 0 .. MaxFaults /\ clock' \in Nat \ {0}
  BY <1>1, <1>5, <1>8, Parts, FaultsOK
<1>13. /\ expired' \subseteq enqueued /\ dropped' \subseteq enqueued
       /\ missed' \subseteq enqueued \cup missed /\ rewritten' \subseteq enqueued \cup rewritten
       /\ missed \subseteq missed'
  BY <1>1, <1>4, <1>8, <1>9 DEF Miss, Loss, KnownItems
<1>14. CASE /\ op' = [op EXCEPT ![r] = Ok] /\ queues' = ZRem(queues, m)
            /\ missed' = missed \cup Miss(m) /\ dropped' = dropped
  <2>1. op'[r] = Ok /\ Others(r)
    BY <1>1, <1>6, <1>14, Parts, OpStep
  <2>2. \A x : Holders(x)' = IF m.event = x THEN Holders(x) \cup {r} ELSE Holders(x)
    BY <1>2, <1>6, <2>1, HoldersGain DEF Holding
  <2>3. AllKept' /\ AllAlone'
    BY <1>1, <1>8, <1>14, <2>2, PickMoves, Parts
  <2> QED BY <1>4, <1>6, <1>8, <1>10, <1>11, <1>12, <1>13, <1>14, <2>3, ChangeInv
<1>15. CASE /\ op' = [op EXCEPT ![r] = On] /\ UNCHANGED <<missed, rewritten>>
            /\ \/ UNCHANGED <<queues, dropped>>
               \/ queues' = ZRem(queues, m) /\ dropped' = dropped \cup Loss(m)
  <2>1. op'[r] = On /\ Others(r)
    BY <1>1, <1>7, <1>15, Parts, OpStep
  <2>2. \A x : Holders(x)' = Holders(x)
    BY <1>2, <1>7, <2>1, HoldersSame DEF Holding
  <2>3. CASE UNCHANGED <<queues, dropped>>
    <3>1. \A x \in Event : Unmoved(x)
      BY <1>8, <2>2, <2>3 DEF Unmoved, Queued
    <3>2. AllKept' /\ AllAlone'
      BY <1>1, <1>8, <1>13, <3>1, NoneMoves, Parts
    <3> QED BY <1>7, <1>8, <1>10, <1>11, <1>12, <1>13, <1>15, <3>2, ChangeInv
  <2>4. CASE queues' = ZRem(queues, m) /\ dropped' = dropped \cup Loss(m)
    <3>1. AllKept' /\ AllAlone'
      BY <1>1, <1>4, <1>8, <1>15, <2>2, <2>4, LossMoves, Parts
    <3> QED BY <1>7, <1>8, <1>10, <1>11, <1>12, <1>13, <1>15, <3>1, ChangeInv
  <2> QED BY <1>15, <2>3, <2>4
<1> QED BY <1>9, <1>14, <1>15

LEMMA RewrittenIs ==
    ASSUME NEW o \in Taking
    PROVE  Rewritten(o) \in Member /\ Rewritten(o).event = o.item.event
<1>1. o.item \in Member /\ o.to \in 0 .. Levels
  BY DEF Taking
<1>2. CASE IsMove(o)
  <2>1. o.to \in Level
    BY <1>1, <1>2, PriorityQueueAssumption DEF IsMove, Level
  <2> QED BY <1>1, <1>2, <2>1 DEF Rewritten, Member
<1>3. CASE ~IsMove(o)
  BY <1>1, <1>3 DEF Rewritten, Member
<1> QED BY <1>2, <1>3

LEMMA PutInv ==
    ASSUME IInv, NEW r \in Request, Put(r)
    PROVE  IInv'
<1>1. TypeOK /\ FiniteQueues /\ KnownItems /\ AllKept /\ AllAlone
  BY DEF IInv
<1>2. op[r] \in Taking /\ op[r].pc = "putting"
  BY <1>1, Parts, OpKinds DEF Put
<1>3. PICK m \in Member, s \in Nat : m = Rewritten(op[r]) /\ s = op[r].score
  BY <1>2, RewrittenIs DEF Taking
<1>4. m.event = op[r].item.event
  BY <1>2, <1>3, RewrittenIs
<1>5. m.event \in Event /\ m.event \in enqueued /\ \A x \in op[r].left : x.item.event \in enqueued
  BY <1>1, <1>2, <1>4 DEF Member, KnownItems
<1>6. clock \in Nat \ {0}
  BY <1>1, Parts
<1>7. /\ Onward(op[r]) \in OpType
      /\ Onward(op[r]).pc \in {"taking", "scanning", "idle"}
      /\ Onward(op[r]).pc = "taking" => /\ Onward(op[r]).item.event \in enqueued
                                        /\ \A x \in Onward(op[r]).left : x.item.event \in enqueued
  BY <1>2, <1>5, <1>6, OnwardGoes DEF Taking
<1>8. NoOp \in OpType /\ NoOp.pc = "idle"
  BY KindsAreOps DEF NoOp
<1>9. /\ UNCHANGED <<tracking, calls, enqueued, returned, taken, expired, missed, rewritten>>
      /\ Observe /\ (Raises \/ Succeeds) /\ clock' \in {clock, clock + 1, clock + 0}
      /\ \/ op' = [op EXCEPT ![r] = NoOp]
         \/ op' = [op EXCEPT ![r] = Onward(op[r])]
      /\ \/ queues' = ZAdd(queues, m, s) /\ dropped' = dropped
         \/ dropped' = dropped \cup {m.event} /\ queues' = queues
  BY <1>3, <1>4 DEF Put, Return
<1>10. PICK o \in OpType :
          /\ op' = [op EXCEPT ![r] = o]
          /\ o.pc \in {"taking", "scanning", "idle"}
          /\ o.pc = "taking" => /\ o.item.event \in enqueued
                                /\ \A x \in o.left : x.item.event \in enqueued
  BY <1>7, <1>8, <1>9
<1>11. op'[r] = o /\ Others(r)
  BY <1>1, <1>10, Parts, OpStep
<1>12. QueuesOK(queues')
  BY <1>1, <1>9, Parts, ZAddAdds
<1>13. \A x \in Entries(queues') : x.item.event \in enqueued
  <2>1. \A x \in Entries(queues) : x.item.event \in enqueued
    BY <1>1, Parts, EntriesAre DEF KnownItems
  <2>2. CASE queues' = ZAdd(queues, m, s)
    <3>1. \A x \in Entries(queues') : x = [item |-> m, score |-> s] \/ x \in Entries(queues)
      BY <1>1, <2>2, Parts, ZAddAdds
    <3> QED BY <1>5, <2>1, <3>1
  <2> QED BY <1>9, <2>1, <2>2
<1>14. faults' \in 0 .. MaxFaults /\ clock' \in Nat \ {0}
  BY <1>1, <1>6, <1>9, Parts, FaultsOK
<1>15. expired' \subseteq enqueued /\ dropped' \subseteq enqueued
  BY <1>1, <1>5, <1>9 DEF KnownItems
<1>16. AllKept' /\ AllAlone'
  <2>1. /\ r \in Holders(m.event)
        /\ \A x : Holders(x)' = IF m.event = x THEN Holders(x) \ {r} ELSE Holders(x)
    BY <1>2, <1>4, <1>10, <1>11, HoldersLose DEF Holding
  <2>2. CASE queues' = ZAdd(queues, m, s) /\ dropped' = dropped
    BY <1>1, <1>9, <2>1, <2>2, PutMoves, Parts
  <2>3. CASE dropped' = dropped \cup {m.event} /\ queues' = queues
    BY <1>1, <1>5, <1>9, <2>1, <2>3, DroppedMoves, Parts
  <2> QED BY <1>9, <2>2, <2>3
<1> QED BY <1>9, <1>10, <1>12, <1>13, <1>14, <1>15, <1>16, ChangeInv

\* ZREMRANGEBYSCORE takes the old entries out of one queue.
LEMMA ExpireRemoves ==
    ASSUME NEW q, QueuesOK(q), NEW l \in Level, NEW old \in SUBSET q[l]
    PROVE  /\ QueuesOK([q EXCEPT ![l] = @ \ old])
           /\ old \subseteq Entries(q)
           /\ \A x : x \in Entries([q EXCEPT ![l] = @ \ old]) <=> (x \in Entries(q) /\ x \notin old)
<1> DEFINE p == [q EXCEPT ![l] = @ \ old]
<1>1. /\ p[l] = q[l] \ old
      /\ \A k \in Level : k # l => p[k] = q[k]
      /\ p = [k \in Level |-> p[k]]
  BY DEF QueuesOK
<1> HIDE DEF p
<1>2. \A k \in Level : p[k] \subseteq q[k]
  BY <1>1
<1>3. \A k \in Level : IsFiniteSet(p[k])
  BY <1>2, FS_Subset DEF QueuesOK
<1>4. QueuesOK(p)
  BY <1>1, <1>2, <1>3 DEF QueuesOK
<1>5. old \subseteq Entries(q) /\ \A x \in old : x.item.level = l
  BY EntriesAre DEF QueuesOK
<1>6. ASSUME NEW x
      PROVE  x \in Entries(p) <=> (x \in Entries(q) /\ x \notin old)
  <2>1. ASSUME x \in Entries(p) PROVE x \in Entries(q) /\ x \notin old
    <3>1. PICK k \in Level : x \in p[k]
      BY <1>4, <2>1, EntriesAre
    <3>2. x \in q[k] /\ x.item.level = k
      BY <1>2, <3>1 DEF QueuesOK
    <3>3. x \notin old
      BY <1>1, <1>5, <3>1, <3>2
    <3> QED BY <3>2, <3>3, EntriesAre
  <2>2. ASSUME x \in Entries(q), x \notin old PROVE x \in Entries(p)
    <3>1. PICK k \in Level : x \in q[k]
      BY <2>2, EntriesAre
    <3>2. x \in p[k]
      BY <1>1, <2>2, <3>1
    <3> QED BY <1>4, <3>2, EntriesAre
  <2> QED BY <2>1, <2>2
<1> QED BY <1>4, <1>5, <1>6 DEF p

LEMMA ExpireInv ==
    ASSUME IInv, NEW r \in Request, Expire(r)
    PROVE  IInv'
<1>1. TypeOK /\ FiniteQueues /\ KnownItems /\ AllKept /\ AllAlone
  BY DEF IInv
<1>2. op[r] \in Expiring /\ op[r].pc = "expiring"
  BY <1>1, Parts, OpKinds DEF Expire
<1>3. PICK l \in Level : l = NextQueue(op[r].asked)
  BY <1>2, NextQueueLeast DEF Expiring
<1>4. PICK old \in SUBSET queues[l] : old = Old(l, op[r].cutoff)
  BY DEF Old
<1>5. /\ UNCHANGED <<tracking, clock, calls, enqueued, returned, taken, dropped, missed, rewritten>>
      /\ Observe /\ (Raises \/ Succeeds)
      /\ \/ /\ queues' = [queues EXCEPT ![l] = @ \ old]
            /\ expired' = expired \cup {x.item.event : x \in old}
         \/ UNCHANGED <<queues, expired>>
  BY <1>3, <1>4 DEF Expire
<1>6. PICK o \in OpType : op' = [op EXCEPT ![r] = o] /\ o.pc \in {"expiring", "idle"}
  <2> DEFINE rest == op[r].asked \ {l}
             n == [op[r] EXCEPT !.asked = rest]
  <2>1. NoOp \in OpType /\ NoOp.pc = "idle"
    BY KindsAreOps DEF NoOp
  <2>2. rest # {} => n \in Expiring /\ n.pc = "expiring"
    BY <1>2 DEF Expiring, Asked
  <2>3. op' = [op EXCEPT ![r] = NoOp] \/ (rest # {} /\ op' = [op EXCEPT ![r] = n])
    BY <1>3 DEF Expire, Return
  <2> HIDE DEF n
  <2> QED BY <2>1, <2>2, <2>3, KindsAreOps
<1>7. op'[r] = o /\ Others(r)
  BY <1>1, <1>6, Parts, OpStep
<1>8. /\ QueuesOK([queues EXCEPT ![l] = @ \ old])
      /\ old \subseteq Entries(queues)
      /\ \A x : x \in Entries([queues EXCEPT ![l] = @ \ old])
                   <=> (x \in Entries(queues) /\ x \notin old)
  BY <1>1, Parts, ExpireRemoves
<1>9. QueuesOK(queues') /\ Entries(queues') \subseteq Entries(queues)
  BY <1>1, <1>5, <1>8, Parts
<1>10. \A x \in Entries(queues) : x.item.event \in enqueued
  BY <1>1, Parts, EntriesAre DEF KnownItems
<1>11. expired' \subseteq enqueued /\ dropped' \subseteq enqueued
  BY <1>1, <1>5, <1>8, <1>10 DEF KnownItems
<1>12. faults' \in 0 .. MaxFaults /\ clock' \in Nat \ {0}
  BY <1>1, <1>5, Parts, FaultsOK
<1>13. AllKept' /\ AllAlone'
  <2>1. \A x : Holders(x)' = Holders(x)
    BY <1>2, <1>6, <1>7, HoldersSame DEF Holding
  <2>2. CASE /\ queues' = [queues EXCEPT ![l] = @ \ old]
             /\ expired' = expired \cup {x.item.event : x \in old}
    BY <1>1, <1>5, <1>8, <2>1, <2>2, ExpiryMoves, Parts
  <2>3. CASE UNCHANGED <<queues, expired>>
    <3>1. \A x \in Event : Unmoved(x)
      BY <1>5, <2>1, <2>3 DEF Unmoved, Queued
    <3> QED BY <1>1, <1>5, <3>1, NoneMoves, Parts
  <2> QED BY <1>5, <2>2, <2>3
<1> QED BY <1>5, <1>6, <1>9, <1>10, <1>11, <1>12, <1>13, ChangeInv

-----------------------------------------------------------------------------
\* The invariant is inductive.

LEMMA InitIInv == Init => IInv
<1> SUFFICES ASSUME Init PROVE IInv
  OBVIOUS
<1>1. \A l \in Level : queues[l] = {}
  BY DEF Init
<1>2. \A r \in Request : op[r] = NoOp /\ op[r].pc = "idle"
  BY DEF Init, NoOp
<1>3. TypeOK
  BY <1>1, KindsAreOps, PriorityQueueAssumption DEF Init, TypeOK
<1>4. FiniteQueues
  BY <1>1, FS_EmptySet DEF FiniteQueues
<1>5. SinceIsQueued
  BY DEF Init, SinceIsQueued
<1>6. PassedOver /\ NoOvertaking /\ EnqueuedOnce
  BY <1>2 DEF PassedOver, NoOvertaking, EnqueuedOnce
<1>7. KnownItems
  BY <1>1, <1>2 DEF Init, KnownItems
<1>8. AllKept
  BY DEF Init, AllKept
<1>9. ASSUME NEW e \in Event PROVE Alone(e)
  <2>1. Queued(e) = {}
    BY <1>1 DEF Queued, Entries
  <2>2. Holders(e) = {}
    BY <1>2 DEF Holders
  <2>3. taken[e] = 0 /\ e \notin expired /\ e \notin dropped
    BY DEF Init
  <2> QED BY <2>1, <2>2, <2>3 DEF Alone
<1>10. AllAlone
  BY <1>9 DEF AllAlone
<1> QED BY <1>3, <1>4, <1>5, <1>6, <1>7, <1>8, <1>10 DEF IInv

LEMMA StutterInv ==
    ASSUME IInv, UNCHANGED vars
    PROVE  IInv'
<1>1. UNCHANGED <<queues, tracking, op, clock, calls, faults, enqueued, returned, taken,
                  expired, dropped, missed, rewritten, since>>
  BY DEF vars, history
<1>2. TypeOK' /\ FiniteQueues' /\ SinceIsQueued' /\ PassedOver' /\ NoOvertaking'
      /\ KnownItems' /\ EnqueuedOnce'
  BY <1>1 DEF IInv, TypeOK, FiniteQueues, SinceIsQueued, PassedOver, NoOvertaking, KnownItems,
              EnqueuedOnce
<1>3. \A e \in Event : Unmoved(e)
  BY <1>1 DEF Unmoved, Queued, Holders
<1>4. AllKept' /\ AllAlone'
  BY <1>1, <1>3, NoneMoves, Parts DEF IInv
<1> QED BY <1>2, <1>4 DEF IInv

LEMMA NextIInv ==
    ASSUME IInv, [Next]_vars
    PROVE  IInv'
<1>1. CASE UNCHANGED vars
  BY <1>1, StutterInv
<1>2. ASSUME NEW r \in Request, Call(r)
      PROVE  IInv'
  <2>1. ASSUME NEW e \in Event, NEW l \in Level, Enqueue(r, e, l) PROVE IInv'
    BY <2>1, EnqueueInv
  <2>2. ASSUME NEW asked \in {Level} \cup {{l} : l \in Level}, Dequeue(r, asked) PROVE IInv'
    <3>1. asked \in Asked
      BY LevelsAsked DEF Asked
    <3> QED BY <2>2, <3>1, DequeueInv
  <2>3. ASSUME NEW e \in Event, NEW l \in 0 .. Levels, Rewrite(r, e, l) PROVE IInv'
    BY <2>3, RewriteInv
  <2>4. ASSUME NEW cutoff \in 0 .. clock - 1, Cleanup(r, cutoff) PROVE IInv'
    <3>1. cutoff \in Nat
      BY Parts DEF IInv
    <3> QED BY <2>4, <3>1, CleanupInv
  <2> QED BY <1>2, <2>1, <2>2, <2>3, <2>4 DEF Call
<1>3. ASSUME NEW r \in Request, Step(r)
      PROVE  IInv'
  BY <1>3, AddToQueueInv, AddToTrackingInv, LookInv, RemoveInv, UntrackInv, ScanInv, TakeInv,
     PutInv, ExpireInv DEF Step
<1> QED BY <1>1, <1>2, <1>3 DEF Next

\* What the theorems below conclude from holds in every state the manager reaches.
THEOREM QueueInvariant == Spec => []IInv
<1>1. Init => IInv
  BY InitIInv
<1>2. IInv /\ [Next]_vars => IInv'
  BY NextIInv
<1> QED BY <1>1, <1>2, PTL DEF Spec

\* The variables have their types in every reachable state: a loop over the queues
\* never turns to a queue when none is left, and an entry lies in the sorted set of
\* its item's priority.
THEOREM QueueTypes == Spec => []TypeOK
<1>1. IInv => TypeOK
  BY DEF IInv
<1> QED BY <1>1, QueueInvariant, PTL

\* dequeue picks no item over one that goes before it and was queued during the
\* whole call, for any number of events, requests, priorities and failing commands.
THEOREM QueueNoOvertaking == Spec => []NoOvertaking
<1>1. IInv => NoOvertaking
  BY DEF IInv
<1> QED BY <1>1, QueueInvariant, PTL

-----------------------------------------------------------------------------
\* The places of an event, counted.

LEMMA CountsAre ==
    ASSUME IInv, NEW e \in Event
    PROVE  /\ IsFiniteSet(Queued(e)) /\ IsFiniteSet(Holders(e))
           /\ Cardinality(Queued(e)) \in Nat /\ Cardinality(Holders(e)) \in Nat
           /\ taken[e] \in Nat
           /\ Cardinality({e} \cap expired) = (IF e \in expired THEN 1 ELSE 0)
           /\ Cardinality({e} \cap dropped) = (IF e \in dropped THEN 1 ELSE 0)
<1>1. IsFiniteSet(Queued(e))
  <2>1. IsFiniteSet({queues[l] : l \in Level})
    <3>1. IsFiniteSet(Level)
      BY PriorityQueueAssumption, FS_Interval DEF Level
    <3>2. DOMAIN queues = Level
      BY Parts DEF IInv, QueuesOK
    <3>3. queues \in Surjection(Level, {queues[l] : l \in Level})
      BY <3>2, Parts DEF IInv, QueuesOK, Surjection
    <3> QED BY <3>1, <3>3, FS_Surjection
  <2>2. IsFiniteSet(Entries(queues))
    <3>1. \A s \in {queues[l] : l \in Level} : IsFiniteSet(s)
      BY DEF IInv, FiniteQueues
    <3> QED BY <2>1, <3>1, FS_UNION DEF Entries
  <2>3. Queued(e) \in SUBSET Entries(queues)
    BY DEF Queued
  <2> QED BY <2>2, <2>3, FS_Subset
<1>2. IsFiniteSet(Holders(e))
  <2>1. Holders(e) \in SUBSET Request
    BY DEF Holders
  <2> QED BY <2>1, PriorityQueueAssumption, FS_Subset
<1>3. taken[e] \in Nat
  BY Parts DEF IInv
<1>4. ASSUME NEW s PROVE Cardinality({e} \cap s) = (IF e \in s THEN 1 ELSE 0)
  <2>1. CASE e \in s
    <3>1. {e} \cap s = {e}
      BY <2>1
    <3> QED BY <2>1, <3>1, FS_Singleton
  <2>2. CASE e \notin s
    <3>1. {e} \cap s = {}
      BY <2>2
    <3> QED BY <2>2, <3>1, FS_EmptySet
  <2> QED BY <2>1, <2>2
<1>5. Cardinality(Queued(e)) \in Nat /\ Cardinality(Holders(e)) \in Nat
  BY <1>1, <1>2, FS_CardinalityType
<1> QED BY <1>1, <1>2, <1>3, <1>4, <1>5

LEMMA KeptIsCounted ==
    ASSUME IInv, NEW e \in Event, Kept(e)
    PROVE  Copies(e) >= 1
<1>1. Queued(e) # {} => Cardinality(Queued(e)) # 0
  BY CountsAre, FS_EmptySet
<1>2. Holders(e) # {} => Cardinality(Holders(e)) # 0
  BY CountsAre, FS_EmptySet
<1> DEFINE a == Cardinality(Queued(e))
           b == Cardinality(Holders(e))
           c == Cardinality({e} \cap expired)
           d == Cardinality({e} \cap dropped)
<1>3. /\ a \in Nat /\ b \in Nat /\ taken[e] \in Nat
      /\ c = (IF e \in expired THEN 1 ELSE 0) /\ d = (IF e \in dropped THEN 1 ELSE 0)
  BY CountsAre
<1>4. a # 0 \/ b # 0 \/ taken[e] # 0 \/ e \in expired \/ e \in dropped
  BY <1>1, <1>2 DEF Kept
<1>5. Copies(e) = a + b + taken[e] + c + d
  BY DEF Copies
<1> HIDE DEF a, b, c, d
<1> QED BY <1>3, <1>4, <1>5

LEMMA AloneIsCounted ==
    ASSUME IInv, NEW e \in Event, Alone(e)
    PROVE  Copies(e) <= 1
<1> DEFINE a == Cardinality(Queued(e))
           b == Cardinality(Holders(e))
           c == Cardinality({e} \cap expired)
           d == Cardinality({e} \cap dropped)
<1>1. a = (IF Queued(e) = {} THEN 0 ELSE 1)
  <2>1. CASE Queued(e) = {}
    BY <2>1, FS_EmptySet
  <2>2. CASE Queued(e) # {}
    <3>1. PICK x : Queued(e) = {x}
      BY <2>2 DEF Alone
    <3> QED BY <2>2, <3>1, FS_Singleton
  <2> QED BY <2>1, <2>2
<1>2. b = (IF Holders(e) = {} THEN 0 ELSE 1)
  <2>1. CASE Holders(e) = {}
    BY <2>1, FS_EmptySet
  <2>2. CASE Holders(e) # {}
    <3>1. PICK x : Holders(e) = {x}
      BY <2>2 DEF Alone
    <3> QED BY <2>2, <3>1, FS_Singleton
  <2> QED BY <2>1, <2>2
<1>3. /\ taken[e] \in Nat
      /\ c = (IF e \in expired THEN 1 ELSE 0) /\ d = (IF e \in dropped THEN 1 ELSE 0)
  BY CountsAre
<1>4. Copies(e) = a + b + taken[e] + c + d
  BY DEF Copies
<1> HIDE DEF a, b, c, d
<1>5. CASE Queued(e) # {}
  <2>1. a = 1 /\ b = 0 /\ taken[e] = 0 /\ c = 0 /\ d = 0
    BY <1>1, <1>2, <1>3, <1>5 DEF Alone
  <2> QED BY <1>4, <2>1
<1>6. CASE Queued(e) = {} /\ Holders(e) # {}
  <2>1. a = 0 /\ b = 1 /\ taken[e] = 0 /\ c = 0 /\ d = 0
    BY <1>1, <1>2, <1>3, <1>6 DEF Alone
  <2> QED BY <1>4, <2>1
<1>7. CASE Queued(e) = {} /\ Holders(e) = {} /\ taken[e] # 0
  <2>1. a = 0 /\ b = 0 /\ taken[e] = 1 /\ c = 0 /\ d = 0
    <3>1. taken[e] <= 1 /\ e \notin expired /\ e \notin dropped
      BY <1>7 DEF Alone
    <3> QED BY <1>1, <1>2, <1>3, <1>7, <3>1
  <2> QED BY <1>4, <2>1
<1>8. CASE Queued(e) = {} /\ Holders(e) = {} /\ taken[e] = 0
  <2>1. a = 0 /\ b = 0 /\ c + d <= 1 /\ c \in Nat /\ d \in Nat
    <3>1. ~(e \in expired /\ e \in dropped)
      BY DEF Alone
    <3> QED BY <1>1, <1>2, <1>3, <1>8, <3>1
  <2> QED BY <1>4, <1>8, <2>1
<1> QED BY <1>5, <1>6, <1>7, <1>8

\* No interleaving of the calls loses an event that was queued: it is queued, held
\* by a call, was returned, has expired, or was in a call that raised.
THEOREM QueueNothingLost == Spec => []NothingLost
<1>1. IInv => NothingLost
  <2> SUFFICES ASSUME IInv, NEW e \in enqueued PROVE Copies(e) >= 1
    BY DEF NothingLost
  <2>1. e \in Event /\ Kept(e)
    BY Parts DEF IInv, AllKept
  <2> QED BY <2>1, KeptIsCounted
<1> QED BY <1>1, QueueInvariant, PTL

\* An event no ZREM found gone is in one place only, so that dequeue returns it
\* once at most.
THEOREM QueueOneCopy == Spec => []OneCopy
<1>1. IInv => OneCopy
  <2> SUFFICES ASSUME IInv, NEW e \in enqueued \ missed PROVE Copies(e) <= 1
    BY DEF OneCopy
  <2>1. e \in Event /\ Alone(e)
    BY Parts DEF IInv, AllAlone
  <2> QED BY <2>1, AloneIsCounted
<1> QED BY <1>1, QueueInvariant, PTL
=============================================================================
