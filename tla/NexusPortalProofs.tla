-------------------------- MODULE NexusPortalProofs --------------------------
(***************************************************************************)
(* Theorems about NexusPortal for any number of cases, requests, actors    *)
(* and threads and any number of audit entries: what the rows say and what *)
(* the audit table says of them agree, no maker is a checker, and the      *)
(* chain of a case forks only between calls that overlap.                  *)
(***************************************************************************)
EXTENDS NexusPortal, WellFoundedInduction, TLAPS

\* A set of positions has a last one.
LEMMA LastOfSet ==
    ASSUME NEW n \in Nat, NEW E, E \subseteq 1 .. n, E # {}
    PROVE  \E i \in E : \A j \in E : j <= i
<1> DEFINE less == OpToRel(<, Nat)
           T == {n - i : i \in E}
<1>1. IsWellFoundedOn(less, Nat)
  BY NatLessThanWellFounded
<1>2. \A x, y \in Nat : x < y => <<x, y>> \in less
  BY DEF OpToRel
<1>3. T \subseteq Nat /\ T # {}
  <2>1. \A i \in E : n - i \in Nat
    OBVIOUS
  <2>2. T \subseteq Nat
    BY <2>1
  <2> QED BY <2>2
<1> HIDE DEF less
<1>4. \E x \in T : \A y \in T : ~ (<<y, x>> \in less)
  <2> HIDE DEF T
  <2> QED BY <1>1, <1>3, WFMin
<1>5. PICK i \in E : \A y \in T : ~ (<<y, n - i>> \in less)
  BY <1>4
<1>6. \A j \in E : j <= i
  <2> SUFFICES ASSUME NEW j \in E, ~ (j <= i) PROVE FALSE
    OBVIOUS
  <2>1. n - j \in Nat /\ n - i \in Nat /\ n - j < n - i /\ n - j \in T
    OBVIOUS
  <2> QED BY <1>2, <1>5, <2>1
<1> QED BY <1>6

\* LastEntry returns an entry of the case, or 0.
LEMMA LastEntryFacts ==
    ASSUME NEW c, NEW n \in Nat
    PROVE  /\ LastEntry(c, n) \in 0 .. n
           /\ EntriesOf(c, n) = {} => LastEntry(c, n) = 0
<1>1. CASE EntriesOf(c, n) = {}
  BY <1>1 DEF LastEntry
<1>2. CASE EntriesOf(c, n) # {}
  <2>1. EntriesOf(c, n) \subseteq 1 .. n
    BY DEF EntriesOf
  <2>2. \E i \in EntriesOf(c, n) : \A j \in EntriesOf(c, n) : j <= i
    BY <1>2, <2>1, LastOfSet
  <2>3. LastEntry(c, n) = CHOOSE i \in EntriesOf(c, n) : \A j \in EntriesOf(c, n) : j <= i
    BY <1>2 DEF LastEntry
  <2>4. LastEntry(c, n) \in EntriesOf(c, n)
    BY <2>2, <2>3
  <2> QED BY <1>2, <2>1, <2>4
<1> QED BY <1>1, <1>2

-----------------------------------------------------------------------------
\* The records a thread holds while it executes a call.
TxnRec ==
    [pc : {"auditing", "committing", "answering"}, call : CallType,
     read : CaseStatus \cup {"none", "pending"}, prev : Nat, since : Nat]

Active(t) == txn[t].pc # "idle"

\* A call began with the entries there were, and chose its predecessor among those
\* of some moment since.
Timed(x) ==
    /\ x.since <= Len(trail)
    /\ x.pc = "committing" =>
          \E n \in x.since .. Len(trail) : x.prev = LastEntry(x.call.case, n)

\* A request that is under way has a maker and an id nobody else uses.
Making(t) ==
    txn[t].call.kind = "request" =>
        /\ txn[t].pc # "answering"
        /\ txn[t].call.actor \in Actor
        /\ txn[t].call.request \in Request
        /\ unmasks[txn[t].call.request] = NoRow
        /\ \A u \in Thread : u # t /\ Active(u) => txn[u].call.request # txn[t].call.request

\* The maker of request q, as the entry i has it, is another than actor a.
MadeByOther(i, q, c, a) ==
    /\ i \in Kind("request")
    /\ trail[i].call.request = q
    /\ trail[i].call.case = c
    /\ trail[i].call.actor # a

\* A response that is under way found the request of another, with no response.
Checking(x) ==
    x.call.kind = "respond" =>
        /\ x.call.request \in Request
        /\ x.call.actor \in Actor
        /\ x.call.action \in {"approved", "denied"}
        /\ \E i \in 1 .. x.since : MadeByOther(i, x.call.request, x.call.case, x.call.actor)
        /\ \A i \in Responses(x.call.request) : i > x.since

\* A decision that is under way read the status the case still has, unless another
\* decision on the case was committed meanwhile.
Deciding(x) ==
    /\ x.call.kind = "decide"
    /\ \A i \in Decisions(x.call.case) : i <= x.since
    => cases[x.call.case] = x.read

CallsInv ==
    \A t \in Thread, x \in TxnRec :
        txn[t] = x => Timed(x) /\ Making(t) /\ Checking(x) /\ Deciding(x)

\* The row of a request and the entries about it.
RowsInv ==
    \A q \in Request :
        /\ unmasks[q] # NoRow => \E i \in Kind("request") : trail[i].call.request = q
        /\ \A i \in Kind("request") : trail[i].call.request = q =>
              /\ unmasks[q] # NoRow
              /\ unmasks[q].case = trail[i].call.case
              /\ unmasks[q].requested_by = trail[i].call.actor
        /\ Responses(q) = {} => unmasks[q].status \in {"none", "pending"}
        /\ Responses(q) # {} => unmasks[q].status \in {"approved", "denied"}
        /\ \A j \in Responses(q) :
              (\A i \in Responses(q) : i <= j) => unmasks[q].status = trail[j].call.action

\* ChainForksOnlyInOverlap, for each entry as a value.
Forks ==
    \A i \in 1 .. Len(trail), e \in Entry :
        trail[i] = e => \E n \in e.since .. i - 1 : e.prev = LastEntry(e.call.case, n)

\* The inductive invariant.
IInv ==
    /\ TypeOK
    /\ CallsInv
    /\ RowsInv
    /\ CheckerIsNotMaker
    /\ RespondedOnce
    /\ Forks
    /\ StatusIsLastDecision

-----------------------------------------------------------------------------
\* Facts about the parts of a state.

LEMMA TxnFacts ==
    ASSUME TypeOK, NEW t \in Thread
    PROVE  /\ Active(t) <=> txn[t] \in TxnRec
           /\ ~ Active(t) <=> txn[t] = Idle
<1>1. txn[t] \in {Idle} \cup TxnRec
  BY DEF TypeOK, TxnType, TxnRec
<1>2. Idle.pc = "idle" /\ \A x \in TxnRec : x.pc # "idle"
  BY DEF Idle, TxnRec
<1> QED BY <1>1, <1>2 DEF Active

\* The fields of an executing call.
LEMMA TxnFields ==
    ASSUME NEW x \in TxnRec
    PROVE  /\ x.pc \in {"auditing", "committing", "answering"}
           /\ x.call \in CallType
           /\ x.read \in CaseStatus \cup {"none", "pending"}
           /\ x.prev \in Nat /\ x.since \in Nat
           /\ x.call.case \in Case
           /\ x.call.actor \in Actor \cup {None}
           /\ x.call.request \in Request \cup {None}
           /\ x.call.kind \in {"decide", "request", "respond"}
           /\ x.call.action \in {"resolve", "escalate", "requested", "approved", "denied"}
<1>1. x.call \in CallType
  BY DEF TxnRec
<1> QED BY <1>1 DEF TxnRec, CallType

LEMMA TrailFacts ==
    ASSUME TypeOK
    PROVE  /\ trail \in Seq(Entry) /\ Len(trail) \in Nat
           /\ \A i \in 1 .. Len(trail) : trail[i] \in Entry
           /\ \A i \in 1 .. Len(trail) : trail[i].since \in Nat /\ trail[i].call \in CallType
<1>1. trail \in Seq(Entry) /\ Len(trail) \in Nat
  BY DEF TypeOK
<1>2. \A i \in 1 .. Len(trail) : trail[i] \in Entry
  BY <1>1
<1>3. \A e \in Entry : e.since \in Nat /\ e.call \in CallType
  BY DEF Entry
<1> QED BY <1>1, <1>2, <1>3

\* A row is the one constant or a record.
LEMMA RowFacts ==
    ASSUME TypeOK, NEW q \in Request
    PROVE  /\ unmasks[q] = NoRow \/ unmasks[q] \in Row
           /\ NoRow.status = "none"
           /\ unmasks[q] # NoRow => /\ unmasks[q] \in Row
                                    /\ unmasks[q].case \in Case
                                    /\ unmasks[q].requested_by \in Actor
                                    /\ unmasks[q].status \in {"pending", "approved", "denied"}
<1>1. unmasks[q] = NoRow \/ unmasks[q] \in Row
  BY DEF TypeOK
<1> QED BY <1>1 DEF NoRow, Row

-----------------------------------------------------------------------------
\* What the steps do to the threads.

\* Nothing is stored and the other threads stay where they are.
Private(t) ==
    /\ UNCHANGED <<cases, unmasks, trail>>
    /\ \A u \in Thread : u # t => txn'[u] = txn[u]

LEMMA BeginFacts ==
    ASSUME TypeOK, NEW t \in Thread, NEW call \in CallType,
           NEW read \in CaseStatus \cup {"none", "pending"}, Begin(t, call, read)
    PROVE  /\ TypeOK'
           /\ Private(t)
           /\ ~ Active(t)
           /\ txn'[t].pc = "auditing" /\ txn'[t].call = call /\ txn'[t].read = read
           /\ txn'[t].since = Len(trail)
<1> DEFINE x == [pc |-> "auditing", call |-> call, read |-> read,
                 prev |-> 0, since |-> Len(trail)]
<1>1. x \in TxnRec
  BY TrailFacts DEF TxnRec
<1>2. x.pc = "auditing" /\ x.call = call /\ x.read = read /\ x.since = Len(trail)
  OBVIOUS
<1>3. txn' = [txn EXCEPT ![t] = x] /\ UNCHANGED <<cases, unmasks, trail>>
  BY DEF Begin
<1> HIDE DEF x
<1>4. txn' \in [Thread -> TxnType]
  BY <1>1, <1>3 DEF TypeOK, TxnType, TxnRec
<1>5. txn'[t] = x /\ \A u \in Thread : u # t => txn'[u] = txn[u]
  BY <1>3 DEF TypeOK
<1>6. TypeOK'
  BY <1>3, <1>4 DEF TypeOK
<1> QED BY <1>2, <1>3, <1>5, <1>6 DEF Private, Active, Begin

LEMMA AppendAuditFacts ==
    ASSUME TypeOK, NEW t \in Thread, AppendAudit(t)
    PROVE  /\ TypeOK'
           /\ Private(t)
           /\ Active(t)
           /\ txn'[t].pc = "committing" /\ txn'[t].call = txn[t].call
           /\ txn'[t].read = txn[t].read /\ txn'[t].since = txn[t].since
           /\ txn'[t].prev = LastEntry(txn[t].call.case, Len(trail))
<1>1. Active(t) /\ txn[t] \in TxnRec
  BY TxnFacts DEF AppendAudit, Active
<1> DEFINE m == LastEntry(txn[t].call.case, Len(trail))
           x == [txn[t] EXCEPT !.pc = "committing", !.prev = m]
<1>2. m \in Nat
  BY TrailFacts, LastEntryFacts
<1>3. txn' = [txn EXCEPT ![t] = x] /\ UNCHANGED <<cases, unmasks, trail>>
  BY DEF AppendAudit, Previous, TypeOK
<1> HIDE DEF m
<1>4. /\ x \in TxnRec
      /\ x.pc = "committing" /\ x.call = txn[t].call /\ x.read = txn[t].read
      /\ x.since = txn[t].since /\ x.prev = m
  BY <1>1, <1>2 DEF TxnRec
<1> HIDE DEF x
<1>5. txn'[t] = x /\ \A u \in Thread : u # t => txn'[u] = txn[u]
  BY <1>3 DEF TypeOK
<1>6. txn' \in [Thread -> TxnType]
  BY <1>3, <1>4 DEF TypeOK, TxnType, TxnRec
<1>7. TypeOK'
  BY <1>3, <1>6 DEF TypeOK
<1> QED BY <1>1, <1>3, <1>4, <1>5, <1>7 DEF Private, m

LEMMA EndFacts ==
    ASSUME TypeOK, NEW t \in Thread, Answer(t) \/ Abort(t)
    PROVE  TypeOK' /\ Private(t) /\ ~ Active(t)'
<1>1. txn' = [txn EXCEPT ![t] = Idle] /\ UNCHANGED <<cases, unmasks, trail>>
  BY DEF Answer, Abort
<1>2. txn'[t] = Idle /\ \A u \in Thread : u # t => txn'[u] = txn[u]
  BY <1>1 DEF TypeOK
<1>3. txn' \in [Thread -> TxnType]
  BY <1>1 DEF TypeOK, TxnType
<1>4. TypeOK'
  BY <1>1, <1>3 DEF TypeOK
<1> QED BY <1>1, <1>2, <1>4 DEF Private, Active, Idle

\* The same entries give the same last entry.
LEMMA SameTrail ==
    ASSUME UNCHANGED trail, NEW c, NEW n
    PROVE  LastEntry(c, n)' = LastEntry(c, n)
<1>1. EntriesOf(c, n)' = EntriesOf(c, n)
  BY DEF EntriesOf
<1> QED BY <1>1 DEF LastEntry

\* What a step that stores nothing keeps.
LEMMA PrivateKeeps ==
    ASSUME IInv, UNCHANGED <<cases, unmasks, trail>>
    PROVE  /\ RowsInv'
           /\ CheckerIsNotMaker'
           /\ RespondedOnce'
           /\ Forks'
           /\ StatusIsLastDecision'
<1>1. RowsInv'
  BY DEF IInv, RowsInv, Kind, Responses
<1>2. CheckerIsNotMaker'
  BY DEF IInv, CheckerIsNotMaker, Kind
<1>3. RespondedOnce'
  BY DEF IInv, RespondedOnce, Responses, Kind, Overlaps
<1>4. Forks'
  <2>1. \A c, n : LastEntry(c, n)' = LastEntry(c, n)
    BY SameTrail
  <2> QED BY <2>1 DEF IInv, Forks
<1>5. StatusIsLastDecision'
  BY DEF IInv, StatusIsLastDecision, Decisions, Kind, Overlaps
<1> QED BY <1>1, <1>2, <1>3, <1>4, <1>5

\* A record of the call that looks at the same stored rows and entries.
LEMMA SameRecord ==
    ASSUME NEW x, UNCHANGED <<cases, unmasks, trail>>, Timed(x), Checking(x), Deciding(x),
           NEW y, y.call = x.call, y.since = x.since, y.read = x.read,
           y.pc = "committing" =>
              \E n \in x.since .. Len(trail) : y.prev = LastEntry(x.call.case, n)
    PROVE  Timed(y)' /\ Checking(y)' /\ Deciding(y)'
<1>1. \A c, n : LastEntry(c, n)' = LastEntry(c, n)
  BY SameTrail
<1>2. Timed(y)'
  BY <1>1 DEF Timed
<1>3. /\ \A q : Responses(q)' = Responses(q)
      /\ \A c : Decisions(c)' = Decisions(c)
      /\ \A i, q, c, a : MadeByOther(i, q, c, a)' <=> MadeByOther(i, q, c, a)
  BY DEF Responses, Decisions, MadeByOther, Kind
<1>4. Checking(y)'
  BY <1>3 DEF Checking
<1>5. Deciding(y)'
  BY <1>3 DEF Deciding
<1> QED BY <1>2, <1>4, <1>5

\* The other threads, when one thread ends or goes on with the call it has.
LEMMA OthersKept ==
    ASSUME IInv, NEW t \in Thread, Private(t),
           NEW u \in Thread, u # t, NEW x \in TxnRec, txn'[u] = x,
           Active(t)' /\ x.call.kind = "request"
              => txn'[t].call.request # x.call.request
    PROVE  Timed(x)' /\ Making(u)' /\ Checking(x)' /\ Deciding(x)'
<1>1. txn[u] = x /\ UNCHANGED <<cases, unmasks, trail>>
  BY DEF Private
<1>2. Timed(x) /\ Making(u) /\ Checking(x) /\ Deciding(x)
  BY <1>1 DEF IInv, CallsInv
<1>3. Timed(x)' /\ Checking(x)' /\ Deciding(x)'
  <2>1. x.pc = "committing" =>
           \E n \in x.since .. Len(trail) : x.prev = LastEntry(x.call.case, n)
    BY <1>2 DEF Timed
  <2> QED BY <1>1, <1>2, <2>1, SameRecord
<1>4. Making(u)'
  BY <1>1, <1>2 DEF Making, Private, Active
<1> QED BY <1>3, <1>4

LEMMA EndKeeps ==
    ASSUME IInv, NEW t \in Thread, Answer(t) \/ Abort(t)
    PROVE  IInv'
<1>1. TypeOK' /\ Private(t) /\ ~ Active(t)'
  BY EndFacts DEF IInv
<1>2. CallsInv'
  <2> SUFFICES ASSUME NEW u \in Thread, NEW x \in TxnRec, txn'[u] = x
               PROVE  Timed(x)' /\ Making(u)' /\ Checking(x)' /\ Deciding(x)'
    BY DEF CallsInv
  <2>1. u # t
    BY <1>1 DEF Active, TxnRec
  <2> QED BY <1>1, <2>1, OthersKept
<1>3. UNCHANGED <<cases, unmasks, trail>>
  BY <1>1 DEF Private
<1> QED BY <1>1, <1>2, <1>3, PrivateKeeps DEF IInv

LEMMA AppendAuditKeeps ==
    ASSUME IInv, NEW t \in Thread, AppendAudit(t)
    PROVE  IInv'
<1>1. /\ TypeOK' /\ Private(t) /\ Active(t)
      /\ txn'[t].pc = "committing" /\ txn'[t].call = txn[t].call
      /\ txn'[t].read = txn[t].read /\ txn'[t].since = txn[t].since
      /\ txn'[t].prev = LastEntry(txn[t].call.case, Len(trail))
  BY AppendAuditFacts DEF IInv
<1>2. txn[t] \in TxnRec
  BY <1>1, TxnFacts DEF IInv
<1>3. PICK w \in TxnRec : w = txn[t]
  BY <1>2
<1>4. Timed(w) /\ Making(t) /\ Checking(w) /\ Deciding(w)
  BY <1>3 DEF IInv, CallsInv
<1>5. w.since \in Nat /\ Len(trail) \in Nat /\ w.since <= Len(trail)
  BY <1>4, TxnFields, TrailFacts DEF IInv, Timed
<1>6. CallsInv'
  <2> SUFFICES ASSUME NEW u \in Thread, NEW x \in TxnRec, txn'[u] = x
               PROVE  Timed(x)' /\ Making(u)' /\ Checking(x)' /\ Deciding(x)'
    BY DEF CallsInv
  <2>1. CASE u = t
    <3>1. x.call = w.call /\ x.since = w.since /\ x.read = w.read /\ x.pc = "committing"
          /\ x.prev = LastEntry(w.call.case, Len(trail))
      BY <1>1, <1>3, <2>1
    <3>2. \E n \in w.since .. Len(trail) : x.prev = LastEntry(w.call.case, n)
      BY <1>5, <3>1
    <3>3. Timed(x)' /\ Checking(x)' /\ Deciding(x)'
      BY <1>1, <1>4, <3>1, <3>2, SameRecord DEF Private
    <3>4. Making(u)'
      BY <1>1, <1>4, <2>1 DEF Making, Private, Active
    <3> QED BY <3>3, <3>4
  <2>2. CASE u # t
    <3>1. txn[u] = x /\ Active(u)
      BY <1>1, <2>2 DEF Private, Active, TxnRec
    <3>2. Making(u)
      BY <3>1 DEF IInv, CallsInv
    <3>3. x.call.kind = "request" => txn'[t].call.request # x.call.request
      BY <1>1, <2>2, <3>1, <3>2 DEF Making
    <3> QED BY <1>1, <2>2, <3>3, OthersKept
  <2> QED BY <2>1, <2>2
<1>7. UNCHANGED <<cases, unmasks, trail>>
  BY <1>1 DEF Private
<1> QED BY <1>1, <1>6, <1>7, PrivateKeeps DEF IInv

\* A call begins whose request id no request under way has, and of which the
\* parts of the invariant hold.
LEMMA BeginKeeps ==
    ASSUME IInv, NEW t \in Thread, NEW call \in CallType,
           NEW read \in CaseStatus \cup {"none", "pending"}, Begin(t, call, read),
           \A u \in Thread : Active(u) /\ txn[u].call.kind = "request"
                                => txn[u].call.request # call.request,
           call.kind = "request" =>
              /\ call.actor \in Actor /\ call.request \in Request
              /\ unmasks[call.request] = NoRow
              /\ \A u \in Thread : Active(u) => txn[u].call.request # call.request,
           call.kind = "respond" =>
              /\ call.actor \in Actor /\ call.request \in Request
              /\ call.action \in {"approved", "denied"}
              /\ \E i \in 1 .. Len(trail) :
                    MadeByOther(i, call.request, call.case, call.actor)
              /\ Responses(call.request) = {},
           call.kind = "decide" => read = cases[call.case]
    PROVE  IInv'
<1>1. /\ TypeOK' /\ Private(t) /\ ~ Active(t)
      /\ txn'[t].pc = "auditing" /\ txn'[t].call = call /\ txn'[t].read = read
      /\ txn'[t].since = Len(trail)
  BY BeginFacts DEF IInv
<1>2. Len(trail) \in Nat
  BY TrailFacts DEF IInv
<1>3. UNCHANGED <<cases, unmasks, trail>>
  BY <1>1 DEF Private
<1>4. CallsInv'
  <2> SUFFICES ASSUME NEW u \in Thread, NEW x \in TxnRec, txn'[u] = x
               PROVE  Timed(x)' /\ Making(u)' /\ Checking(x)' /\ Deciding(x)'
    BY DEF CallsInv
  <2>1. CASE u = t
    <3>1. x.pc = "auditing" /\ x.call = call /\ x.read = read /\ x.since = Len(trail)
      BY <1>1, <2>1
    <3>2. Timed(x) /\ Checking(x) /\ Deciding(x)
      BY <1>2, <3>1 DEF Timed, Checking, Deciding
    <3>3. Timed(x)' /\ Checking(x)' /\ Deciding(x)'
      BY <1>3, <3>1, <3>2, SameRecord
    <3>4. Making(u)'
      BY <1>1, <1>3, <2>1, <3>1 DEF Making, Private, Active
    <3> QED BY <3>3, <3>4
  <2>2. CASE u # t
    <3>1. txn[u] = x /\ Active(u)
      BY <1>1, <2>2 DEF Private, Active, TxnRec
    <3>2. x.call.kind = "request" => txn'[t].call.request # x.call.request
      BY <1>1, <3>1
    <3> QED BY <1>1, <2>2, <3>2, OthersKept
  <2> QED BY <2>1, <2>2
<1> QED BY <1>1, <1>3, <1>4, PrivateKeeps DEF IInv

\* A request under way has an id of its own.
LEMMA MakersId ==
    ASSUME IInv, NEW u \in Thread, Active(u), txn[u].call.kind = "request"
    PROVE  /\ txn[u].call.request \in Request
           /\ unmasks[txn[u].call.request] = NoRow
<1>1. txn[u] \in TxnRec
  BY TxnFacts DEF IInv
<1>2. Making(u)
  BY <1>1 DEF IInv, CallsInv
<1> QED BY <1>2 DEF Making

LEMMA DecideKeeps ==
    ASSUME IInv, NEW t \in Thread, NEW c \in Case, NEW action \in {"resolve", "escalate"},
           Decide(t, c, action)
    PROVE  IInv'
<1> DEFINE call == [kind |-> "decide", case |-> c, actor |-> None, request |-> None,
                    action |-> action]
<1>1. call \in CallType
  BY DEF CallType
<1>2. call.kind = "decide" /\ call.request = None /\ call.case = c
  OBVIOUS
<1>3. Begin(t, call, cases[c]) /\ cases[c] \in CaseStatus \cup {"none", "pending"}
  BY DEF Decide, IInv, TypeOK
<1> HIDE DEF call
<1>4. \A u \in Thread : Active(u) /\ txn[u].call.kind = "request"
                           => txn[u].call.request # call.request
  BY <1>2, MakersId, NexusPortalAssumption
<1> QED BY <1>1, <1>2, <1>3, <1>4, BeginKeeps

LEMMA RequestKeeps ==
    ASSUME IInv, NEW t \in Thread, NEW c \in Case, NEW a \in Actor, NEW q \in Request,
           RequestUnmask(t, c, a, q)
    PROVE  IInv'
<1> DEFINE call == [kind |-> "request", case |-> c, actor |-> a, request |-> q,
                    action |-> "requested"]
<1>1. call \in CallType
  BY DEF CallType
<1>2. call.kind = "request" /\ call.request = q /\ call.actor = a
  OBVIOUS
<1>3. Begin(t, call, "none")
  BY DEF RequestUnmask
<1> HIDE DEF call
<1>4. unmasks[q] = NoRow /\ \A u \in Thread : Active(u) => txn[u].call.request # q
  BY DEF RequestUnmask, Fresh, Active
<1> QED BY <1>1, <1>2, <1>3, <1>4, BeginKeeps

LEMMA RespondKeeps ==
    ASSUME IInv, NEW t \in Thread, NEW q \in Request, NEW a \in Actor,
           NEW action \in {"approved", "denied"}, RespondUnmask(t, q, a, action)
    PROVE  IInv'
<1> DEFINE call == [kind |-> "respond", case |-> unmasks[q].case, actor |-> a,
                    request |-> q, action |-> action]
<1>1. unmasks[q].status = "pending" /\ unmasks[q].requested_by # a
  BY DEF RespondUnmask, MayRespond
<1>2. unmasks[q] # NoRow /\ unmasks[q].case \in Case
  BY <1>1, RowFacts DEF IInv
<1>3. call \in CallType
  BY <1>2 DEF CallType
<1>4. call.kind = "respond" /\ call.request = q /\ call.actor = a /\ call.action = action
      /\ call.case = unmasks[q].case
  OBVIOUS
<1>5. Begin(t, call, "pending")
  BY <1>1 DEF RespondUnmask
<1> HIDE DEF call
<1>6. \A u \in Thread : Active(u) /\ txn[u].call.kind = "request"
                           => txn[u].call.request # call.request
  BY <1>2, <1>4, MakersId
<1>7. PICK i \in Kind("request") : trail[i].call.request = q
  BY <1>2 DEF IInv, RowsInv
<1>8. unmasks[q].case = trail[i].call.case /\ unmasks[q].requested_by = trail[i].call.actor
  BY <1>7 DEF IInv, RowsInv
<1>9. \E j \in 1 .. Len(trail) : MadeByOther(j, call.request, call.case, call.actor)
  BY <1>1, <1>4, <1>7, <1>8 DEF MadeByOther, Kind
<1>10. Responses(q) = {}
  BY <1>1 DEF IInv, RowsInv
<1> QED BY <1>3, <1>4, <1>5, <1>6, <1>9, <1>10, BeginKeeps

-----------------------------------------------------------------------------
\* The commit.

\* The first n entries stay, and so does the last of them.
LEMMA SamePrefix ==
    ASSUME NEW c, NEW n \in Nat, \A i \in 1 .. n : trail'[i] = trail[i]
    PROVE  LastEntry(c, n)' = LastEntry(c, n)
<1>1. EntriesOf(c, n)' = EntriesOf(c, n)
  BY DEF EntriesOf
<1> QED BY <1>1 DEF LastEntry

\* One entry more, that of the call.
LEMMA CommitFacts ==
    ASSUME IInv, NEW t \in Thread, Commit(t), NEW x \in TxnRec, txn[t] = x
    PROVE  /\ Len(trail') = Len(trail) + 1
           /\ trail' \in Seq(Entry)
           /\ \A i \in 1 .. Len(trail) : trail'[i] = trail[i]
           /\ trail'[Len(trail) + 1] = [call |-> x.call, prev |-> x.prev, since |-> x.since]
           /\ x.pc = "committing"
           /\ Timed(x) /\ Making(t) /\ Checking(x) /\ Deciding(x)
<1>1. [call |-> x.call, prev |-> x.prev, since |-> x.since] \in Entry
  BY TxnFields DEF Entry
<1>2. trail' = Append(trail, [call |-> x.call, prev |-> x.prev, since |-> x.since])
      /\ x.pc = "committing"
  BY DEF Commit
<1>3. trail \in Seq(Entry)
  BY TrailFacts DEF IInv
<1> QED BY <1>1, <1>2, <1>3 DEF IInv, CallsInv

\* The positions of entries after the commit.
LEMMA CommitSets ==
    ASSUME IInv, NEW t \in Thread, Commit(t), NEW x \in TxnRec, txn[t] = x,
           NEW n, n = Len(trail) + 1
    PROVE  /\ n \in Nat /\ n > Len(trail)
           /\ \A k : Kind(k) \subseteq 1 .. Len(trail)
           /\ \A k : Kind(k)' = Kind(k) \cup (IF x.call.kind = k THEN {n} ELSE {})
           /\ \A q : Responses(q)' = Responses(q) \cup
                 (IF x.call.kind = "respond" /\ x.call.request = q THEN {n} ELSE {})
           /\ \A c : Decisions(c)' = Decisions(c) \cup
                 (IF x.call.kind = "decide" /\ x.call.case = c THEN {n} ELSE {})
           /\ \A i, q, c, a : MadeByOther(i, q, c, a) => MadeByOther(i, q, c, a)'
<1>1. /\ Len(trail') = n /\ Len(trail) \in Nat
      /\ \A i \in 1 .. Len(trail) : trail'[i] = trail[i]
      /\ trail'[n].call = x.call
  <2>1. /\ Len(trail') = Len(trail) + 1
        /\ \A i \in 1 .. Len(trail) : trail'[i] = trail[i]
        /\ trail'[Len(trail) + 1] = [call |-> x.call, prev |-> x.prev, since |-> x.since]
    BY CommitFacts
  <2>2. Len(trail) \in Nat
    BY TrailFacts DEF IInv
  <2> QED BY <2>1, <2>2
<1>2. 1 .. n = 1 .. Len(trail) \cup {n} /\ n \notin 1 .. Len(trail) /\ n \in Nat /\ n > Len(trail)
  BY <1>1
<1>3. \A k : Kind(k)' = Kind(k) \cup (IF x.call.kind = k THEN {n} ELSE {})
  BY <1>1, <1>2 DEF Kind
<1>4. \A k : Kind(k) \subseteq 1 .. Len(trail)
  BY DEF Kind
<1>5. \A q : Responses(q)' = Responses(q) \cup
                 (IF x.call.kind = "respond" /\ x.call.request = q THEN {n} ELSE {})
  BY <1>1, <1>2, <1>3, <1>4 DEF Responses
<1>6. \A c : Decisions(c)' = Decisions(c) \cup
                 (IF x.call.kind = "decide" /\ x.call.case = c THEN {n} ELSE {})
  BY <1>1, <1>2, <1>3, <1>4 DEF Decisions
<1>7. \A i, q, c, a : MadeByOther(i, q, c, a) => MadeByOther(i, q, c, a)'
  BY <1>1, <1>3, <1>4 DEF MadeByOther
<1> QED BY <1>2, <1>3, <1>4, <1>5, <1>6, <1>7

\* What the commit leaves in the rows.
LEMMA CommitRows ==
    ASSUME IInv, NEW t \in Thread, Commit(t), NEW x \in TxnRec, txn[t] = x
    PROVE  /\ cases' \in [Case -> CaseStatus]
           /\ unmasks' \in [Request -> Row \cup {NoRow}]
           /\ x.call.kind # "decide" => cases' = cases
           /\ x.call.kind = "decide" =>
                 /\ unmasks' = unmasks
                 /\ cases'[x.call.case] = Written(x)
                 /\ \A c \in Case : c # x.call.case => cases'[c] = cases[c]
           /\ x.call.kind # "decide" =>
                 /\ x.call.request \in Request
                 /\ \A q \in Request : q # x.call.request => unmasks'[q] = unmasks[q]
           /\ x.call.kind = "request" =>
                 /\ unmasks[x.call.request] = NoRow
                 /\ unmasks'[x.call.request] # NoRow
                 /\ unmasks'[x.call.request].case = x.call.case
                 /\ unmasks'[x.call.request].requested_by = x.call.actor
                 /\ unmasks'[x.call.request].status = "pending"
           /\ x.call.kind = "respond" =>
                 /\ unmasks[x.call.request] # NoRow
                 /\ unmasks'[x.call.request] # NoRow
                 /\ unmasks'[x.call.request].case = unmasks[x.call.request].case
                 /\ unmasks'[x.call.request].requested_by = unmasks[x.call.request].requested_by
                 /\ unmasks'[x.call.request].status = x.call.action
                 /\ x.call.action \in {"approved", "denied"}
<1>1. Stored(x)
  BY DEF Commit
<1>2. /\ cases \in [Case -> CaseStatus]
      /\ unmasks \in [Request -> Row \cup {NoRow}]
  BY DEF IInv, TypeOK
<1>3. x.call.case \in Case /\ x.call.kind \in {"decide", "request", "respond"}
      /\ Effect(x.call.action) \in CaseStatus
  BY TxnFields DEF Effect, CaseStatus
<1>4. Making(t) /\ Checking(x)
  BY CommitFacts
<1>5. \A r \in Row : r # NoRow /\ r.case \in Case /\ r.requested_by \in Actor
  BY DEF Row, NoRow
<1>6. CASE x.call.kind = "decide"
  <2>1. cases' = [cases EXCEPT ![x.call.case] = Written(x)] /\ unmasks' = unmasks
    BY <1>1, <1>6 DEF Stored
  <2>2. Written(x) \in CaseStatus
    BY <1>2, <1>3 DEF Written
  <2> QED BY <1>2, <1>3, <1>6, <2>1, <2>2
<1>7. CASE x.call.kind = "request"
  <2> DEFINE row == [case |-> x.call.case, requested_by |-> x.call.actor, status |-> "pending"]
  <2>1. cases' = cases /\ unmasks' = [unmasks EXCEPT ![x.call.request] = row]
    BY <1>1, <1>7 DEF Stored
  <2>2. x.call.request \in Request /\ x.call.actor \in Actor /\ unmasks[x.call.request] = NoRow
    BY <1>4, <1>7 DEF Making
  <2>3. row \in Row /\ row.case = x.call.case /\ row.requested_by = x.call.actor
        /\ row.status = "pending"
    BY <1>3, <2>2 DEF Row
  <2> HIDE DEF row
  <2> QED BY <1>2, <1>5, <1>7, <2>1, <2>2, <2>3
<1>8. CASE x.call.kind = "respond"
  <2>1. x.call.request \in Request /\ x.call.action \in {"approved", "denied"}
        /\ \E i \in Kind("request") : trail[i].call.request = x.call.request
    BY <1>4, <1>8 DEF Checking, MadeByOther
  <2>2. unmasks[x.call.request] # NoRow
    BY <2>1 DEF IInv, RowsInv
  <2> DEFINE row == [unmasks[x.call.request] EXCEPT !.status = x.call.action]
  <2>3. unmasks[x.call.request] \in Row
    BY <2>1, <2>2, RowFacts DEF IInv
  <2>4. cases' = cases /\ unmasks' = [unmasks EXCEPT ![x.call.request] = row]
    BY <1>1, <1>2, <1>8, <2>1 DEF Stored
  <2>5. row \in Row /\ row.case = unmasks[x.call.request].case
        /\ row.requested_by = unmasks[x.call.request].requested_by /\ row.status = x.call.action
    BY <2>1, <2>3 DEF Row
  <2> HIDE DEF row
  <2> QED BY <1>2, <1>5, <1>8, <2>1, <2>2, <2>4, <2>5
<1> QED BY <1>3, <1>6, <1>7, <1>8

\* Where the commit leaves the threads.
LEMMA CommitThreads ==
    ASSUME IInv, NEW t \in Thread, Commit(t), NEW x \in TxnRec, txn[t] = x
    PROVE  /\ txn' \in [Thread -> TxnType]
           /\ \A u \in Thread : u # t => txn'[u] = txn[u]
           /\ Active(t)' => /\ txn'[t].pc = "answering" /\ txn'[t].call = x.call
                            /\ txn'[t].since = x.since /\ txn'[t].read = x.read
                            /\ x.call.kind # "request"
<1>1. txn \in [Thread -> TxnType]
  BY DEF IInv, TypeOK
<1>2. CASE txn' = [txn EXCEPT ![t] = Idle]
  BY <1>1, <1>2 DEF TxnType, Active, Idle
<1>3. CASE x.call.kind # "request" /\ txn' = [txn EXCEPT ![t] = [x EXCEPT !.pc = "answering"]]
  <2> DEFINE y == [x EXCEPT !.pc = "answering"]
  <2>1. y \in TxnRec /\ y.pc = "answering" /\ y.call = x.call /\ y.since = x.since
        /\ y.read = x.read
    BY DEF TxnRec
  <2>2. y \in TxnType
    BY <2>1 DEF TxnType, TxnRec
  <2> HIDE DEF y
  <2>3. txn' = [txn EXCEPT ![t] = y]
    BY <1>3 DEF y
  <2> QED BY <1>1, <1>3, <2>1, <2>2, <2>3
<1> QED BY <1>1, <1>2, <1>3 DEF Commit

\* A call that is still under way after a commit: its record may have gone on to
\* answering, and sees one entry more.
LEMMA CommitCalls ==
    ASSUME IInv, NEW t \in Thread, Commit(t)
    PROVE  CallsInv'
<1>1. txn[t] \in TxnRec
  BY TxnFacts DEF IInv, Commit, Active
<1>2. PICK x \in TxnRec : txn[t] = x
  BY <1>1
<1>3. PICK n : n = Len(trail) + 1
  OBVIOUS
<1>4. Len(trail) \in Nat /\ Len(trail') = n
  BY <1>2, <1>3, TrailFacts, CommitFacts DEF IInv
<1> SUFFICES ASSUME NEW u \in Thread, NEW y \in TxnRec, txn'[u] = y
             PROVE  Timed(y)' /\ Making(u)' /\ Checking(y)' /\ Deciding(y)'
  BY DEF CallsInv
<1>5. PICK w \in TxnRec : /\ txn[u] = w
                          /\ y.call = w.call /\ y.since = w.since /\ y.read = w.read
                          /\ u # t => y = w
                          /\ u = t => w = x /\ y.pc = "answering" /\ x.call.kind # "request"
  <2>1. CASE u = t
    <3>1. Active(t)'
      BY <2>1 DEF Active, TxnRec
    <3> QED BY <1>2, <2>1, <3>1, CommitThreads
  <2>2. CASE u # t
    <3>1. txn[u] = y
      BY <1>2, <2>2, CommitThreads
    <3> QED BY <2>2, <3>1
  <2> QED BY <2>1, <2>2
<1>6. Timed(w) /\ Making(u) /\ Checking(w) /\ Deciding(w)
  BY <1>5 DEF IInv, CallsInv
<1>7. w.since \in Nat /\ w.since <= Len(trail) /\ w.call.case \in Case
  BY <1>6, TxnFields DEF Timed
<1>8. Timed(y)'
  <2>1. \A m \in 0 .. Len(trail) : \A c : LastEntry(c, m)' = LastEntry(c, m)
    <3> SUFFICES ASSUME NEW m \in 0 .. Len(trail), NEW c
                 PROVE  LastEntry(c, m)' = LastEntry(c, m)
      OBVIOUS
    <3>1. \A i \in 1 .. Len(trail) : trail'[i] = trail[i]
      BY <1>2, CommitFacts
    <3>2. m \in Nat /\ \A i \in 1 .. m : i \in 1 .. Len(trail)
      BY <1>4
    <3> QED BY <3>1, <3>2, SamePrefix
  <2>2. y.since <= Len(trail')
    BY <1>3, <1>4, <1>5, <1>7
  <2>3. ASSUME y.pc = "committing"
        PROVE  \E m \in y.since .. Len(trail') : y.prev = LastEntry(y.call.case, m)'
    <3>1. y = w
      BY <1>5, <2>3
    <3>2. PICK m \in w.since .. Len(trail) : w.prev = LastEntry(w.call.case, m)
      BY <1>6, <2>3, <3>1 DEF Timed
    <3>3. m \in 0 .. Len(trail) /\ m \in y.since .. Len(trail')
      BY <1>3, <1>4, <1>7, <3>1, <3>2
    <3> QED BY <2>1, <3>1, <3>2, <3>3
  <2> QED BY <2>2, <2>3 DEF Timed
<1>9. n \in Nat /\ n > Len(trail)
  BY <1>3, <1>4
<1>10. Checking(y)'
  <2> SUFFICES ASSUME y.call.kind = "respond"
               PROVE  /\ \E i \in 1 .. y.since :
                            MadeByOther(i, y.call.request, y.call.case, y.call.actor)'
                      /\ \A i \in Responses(y.call.request)' : i > y.since
    BY <1>5, <1>6 DEF Checking
  <2>1. /\ \E i \in 1 .. w.since : MadeByOther(i, w.call.request, w.call.case, w.call.actor)
        /\ \A i \in Responses(w.call.request) : i > w.since
    BY <1>5, <1>6 DEF Checking
  <2>2. \A i, q, c, a : MadeByOther(i, q, c, a) => MadeByOther(i, q, c, a)'
    BY <1>2, <1>3, CommitSets
  <2>3. \A q : \A i \in Responses(q)' : i \in Responses(q) \/ i = n
    BY <1>2, <1>3, CommitSets
  <2> QED BY <1>5, <1>7, <1>9, <2>1, <2>2, <2>3
<1>11. Deciding(y)'
  <2> SUFFICES ASSUME y.call.kind = "decide",
                      \A i \in Decisions(y.call.case)' : i <= y.since
               PROVE  cases'[y.call.case] = y.read
    BY DEF Deciding
  <2>1. \A c : Decisions(c)' = Decisions(c) \cup
                 (IF x.call.kind = "decide" /\ x.call.case = c THEN {n} ELSE {})
    BY <1>2, <1>3, CommitSets
  <2>2. ~ (x.call.kind = "decide" /\ x.call.case = y.call.case)
    <3> SUFFICES ASSUME x.call.kind = "decide", x.call.case = y.call.case
                 PROVE  FALSE
      OBVIOUS
    <3>1. n \in Decisions(y.call.case)'
      BY <2>1
    <3>2. n <= w.since
      BY <1>5, <3>1
    <3> QED BY <1>4, <1>7, <1>9, <3>2
  <2>3. cases'[y.call.case] = cases[y.call.case]
    BY <1>2, <1>5, <1>7, <2>2, CommitRows
  <2>4. \A i \in Decisions(w.call.case) : i <= w.since
    BY <1>5, <2>1
  <2> QED BY <1>5, <1>6, <2>3, <2>4 DEF Deciding
<1>12. Making(u)'
  <2> SUFFICES ASSUME y.call.kind = "request"
               PROVE  /\ y.pc # "answering"
                      /\ y.call.actor \in Actor
                      /\ y.call.request \in Request
                      /\ unmasks'[y.call.request] = NoRow
                      /\ \A v \in Thread : v # u /\ Active(v)' => txn'[v].call.request # y.call.request
    BY DEF Making
  <2>1. u # t /\ y = w
    BY <1>5
  <2>2. /\ w.pc # "answering" /\ w.call.actor \in Actor /\ w.call.request \in Request
        /\ unmasks[w.call.request] = NoRow
        /\ \A v \in Thread : v # u /\ Active(v) => txn[v].call.request # w.call.request
    BY <1>5, <1>6, <2>1 DEF Making
  <2>3. Active(t) /\ x.call.request # w.call.request
    BY <1>1, <1>2, <2>1, <2>2, TxnFacts DEF IInv
  <2>4. unmasks'[w.call.request] = unmasks[w.call.request]
    BY <1>2, <2>2, <2>3, CommitRows, TxnFields
  <2>5. ASSUME NEW v \in Thread, v # u, Active(v)'
        PROVE  txn'[v].call.request # w.call.request
    <3>1. CASE v = t
      <4>1. txn'[t].call = x.call
        BY <1>2, <2>5, <3>1, CommitThreads
      <4> QED BY <2>3, <3>1, <4>1
    <3>2. CASE v # t
      <4>1. txn'[v] = txn[v]
        BY <1>2, <3>2, CommitThreads
      <4> QED BY <2>2, <2>5, <4>1 DEF Active
    <3> QED BY <3>1, <3>2
  <2> QED BY <2>1, <2>2, <2>4, <2>5
<1> QED BY <1>8, <1>10, <1>11, <1>12

LEMMA CommitTypes ==
    ASSUME IInv, NEW t \in Thread, Commit(t)
    PROVE  TypeOK'
<1>1. txn[t] \in TxnRec
  BY TxnFacts DEF IInv, Commit, Active
<1>2. PICK x \in TxnRec : txn[t] = x
  BY <1>1
<1>3. trail' \in Seq(Entry)
  BY <1>2, CommitFacts
<1>4. cases' \in [Case -> CaseStatus] /\ unmasks' \in [Request -> Row \cup {NoRow}]
  BY <1>2, CommitRows
<1>5. txn' \in [Thread -> TxnType]
  BY <1>2, CommitThreads
<1> QED BY <1>3, <1>4, <1>5 DEF TypeOK

-----------------------------------------------------------------------------
\* What the commit keeps of the rest of the invariant.

LEMMA CommitRowsInv ==
    ASSUME IInv, NEW t \in Thread, Commit(t)
    PROVE  RowsInv'
<1>1. txn[t] \in TxnRec
  BY TxnFacts DEF IInv, Commit, Active
<1>2. PICK x \in TxnRec : txn[t] = x
  BY <1>1
<1>3. PICK n : n = Len(trail) + 1
  OBVIOUS
<1>4. /\ n \in Nat /\ n > Len(trail) /\ Len(trail) \in Nat
      /\ \A k : Kind(k) \subseteq 1 .. Len(trail)
      /\ \A k : Kind(k)' = Kind(k) \cup (IF x.call.kind = k THEN {n} ELSE {})
      /\ \A q : Responses(q)' = Responses(q) \cup
            (IF x.call.kind = "respond" /\ x.call.request = q THEN {n} ELSE {})
      /\ \A q : Responses(q) \subseteq 1 .. Len(trail)
  <2>1. \A q : Responses(q) \subseteq 1 .. Len(trail)
    BY DEF Responses, Kind
  <2> QED BY <1>2, <1>3, <2>1, CommitSets, TrailFacts DEF IInv
<1>5. /\ \A i \in 1 .. Len(trail) : trail'[i] = trail[i]
      /\ trail'[n].call = x.call
  <2>1. trail'[n] = [call |-> x.call, prev |-> x.prev, since |-> x.since]
    BY <1>2, <1>3, CommitFacts
  <2> QED BY <1>2, <2>1, CommitFacts
<1> DEFINE Row1(q) == unmasks[q] # NoRow => \E i \in Kind("request") : trail[i].call.request = q
           Row2(q) == \A i \in Kind("request") : trail[i].call.request = q =>
                         /\ unmasks[q] # NoRow
                         /\ unmasks[q].case = trail[i].call.case
                         /\ unmasks[q].requested_by = trail[i].call.actor
           Row3(q) == /\ Responses(q) = {} => unmasks[q].status \in {"none", "pending"}
                      /\ Responses(q) # {} => unmasks[q].status \in {"approved", "denied"}
                      /\ \A j \in Responses(q) :
                            (\A i \in Responses(q) : i <= j) => unmasks[q].status = trail[j].call.action
<1> SUFFICES ASSUME NEW q \in Request
             PROVE  Row1(q)' /\ Row2(q)' /\ Row3(q)'
  BY DEF RowsInv
<1>6. Row1(q) /\ Row2(q) /\ Row3(q)
  BY DEF IInv, RowsInv
<1>7. Making(t) /\ Checking(x)
  BY <1>2, CommitFacts
<1>8. CASE x.call.kind = "decide" \/ x.call.request # q
  <2>1. unmasks'[q] = unmasks[q]
    BY <1>2, <1>8, CommitRows
  <2>2. Responses(q)' = Responses(q)
    BY <1>4, <1>8
  <2>3. \A i \in Kind("request")' : i \in Kind("request")
            \/ (i = n /\ x.call.kind = "request" /\ x.call.request # q)
    BY <1>4, <1>8
  <2>4. Row1(q)'
    BY <1>4, <1>5, <1>6, <2>1
  <2>5. Row2(q)'
    BY <1>4, <1>5, <1>6, <2>1, <2>3
  <2>6. Row3(q)'
    BY <1>4, <1>5, <1>6, <2>1, <2>2
  <2> QED BY <2>4, <2>5, <2>6
<1>9. CASE x.call.kind = "request" /\ x.call.request = q
  <2>1. unmasks[q] = NoRow
    BY <1>2, <1>9, CommitRows
  <2>2. /\ unmasks'[q] # NoRow
        /\ unmasks'[q].case = x.call.case
        /\ unmasks'[q].requested_by = x.call.actor
        /\ unmasks'[q].status = "pending"
    BY <1>2, <1>9, CommitRows
  <2>3. \A i \in Kind("request") : trail[i].call.request # q
    BY <1>6, <2>1
  <2>4. n \in Kind("request")' /\ \A i \in Kind("request")' : i \in Kind("request") \/ i = n
    BY <1>4, <1>9
  <2>5. Responses(q) = {} /\ Responses(q)' = {}
    <3>1. unmasks[q].status = "none"
      BY <2>1 DEF NoRow
    <3> QED BY <1>4, <1>6, <1>9, <3>1
  <2>6. Row1(q)'
    BY <1>5, <1>9, <2>4
  <2>7. Row2(q)'
    BY <1>4, <1>5, <2>2, <2>3, <2>4
  <2>8. Row3(q)'
    BY <2>2, <2>5
  <2> QED BY <2>6, <2>7, <2>8
<1>10. CASE x.call.kind = "respond" /\ x.call.request = q
  <2>1. /\ unmasks[q] # NoRow /\ unmasks'[q] # NoRow
        /\ unmasks'[q].case = unmasks[q].case
        /\ unmasks'[q].requested_by = unmasks[q].requested_by
        /\ unmasks'[q].status = x.call.action
        /\ x.call.action \in {"approved", "denied"}
    BY <1>2, <1>10, CommitRows
  <2>2. Kind("request")' = Kind("request")
    BY <1>4, <1>10
  <2>3. Responses(q)' = Responses(q) \cup {n}
    BY <1>4, <1>10
  <2>4. Row1(q)' /\ Row2(q)'
    BY <1>4, <1>5, <1>6, <2>1, <2>2
  <2>5. ASSUME NEW j \in Responses(q)', \A i \in Responses(q)' : i <= j
        PROVE  unmasks'[q].status = trail'[j].call.action
    <3>1. n <= j
      BY <2>3, <2>5
    <3>2. j \in 1 .. Len(trail) \/ j = n
      BY <1>4, <2>3
    <3>3. j = n
      BY <1>4, <3>1, <3>2
    <3> QED BY <1>5, <2>1, <3>3
  <2>6. Row3(q)'
    BY <2>1, <2>3, <2>5
  <2> QED BY <2>4, <2>6
<1> QED BY <1>2, <1>8, <1>9, <1>10, TxnFields

LEMMA CommitChecked ==
    ASSUME IInv, NEW t \in Thread, Commit(t)
    PROVE  CheckerIsNotMaker' /\ RespondedOnce'
<1>1. txn[t] \in TxnRec
  BY TxnFacts DEF IInv, Commit, Active
<1>2. PICK x \in TxnRec : txn[t] = x
  BY <1>1
<1>3. PICK n : n = Len(trail) + 1
  OBVIOUS
<1>4. /\ n \in Nat /\ n > Len(trail) /\ Len(trail) \in Nat
      /\ \A k : Kind(k) \subseteq 1 .. Len(trail)
      /\ \A k : Kind(k)' = Kind(k) \cup (IF x.call.kind = k THEN {n} ELSE {})
      /\ \A q : Responses(q)' = Responses(q) \cup
            (IF x.call.kind = "respond" /\ x.call.request = q THEN {n} ELSE {})
      /\ \A q : Responses(q) \subseteq 1 .. Len(trail)
  <2>1. \A q : Responses(q) \subseteq 1 .. Len(trail)
    BY DEF Responses, Kind
  <2> QED BY <1>2, <1>3, <2>1, CommitSets, TrailFacts DEF IInv
<1>5. /\ \A i \in 1 .. Len(trail) : trail'[i] = trail[i]
      /\ trail'[n].call = x.call /\ trail'[n].since = x.since
  <2>1. trail'[n] = [call |-> x.call, prev |-> x.prev, since |-> x.since]
    BY <1>2, <1>3, CommitFacts
  <2> QED BY <1>2, <2>1, CommitFacts
<1>6. Timed(x) /\ Checking(x) /\ x.since \in Nat
  BY <1>2, CommitFacts, TxnFields
<1>7. CheckerIsNotMaker'
  <2> SUFFICES ASSUME NEW j \in Kind("respond")'
               PROVE  \E i \in Kind("request")' :
                         /\ i < j
                         /\ trail'[i].call.request = trail'[j].call.request
                         /\ trail'[i].call.case = trail'[j].call.case
                         /\ trail'[i].call.actor # trail'[j].call.actor
    BY DEF CheckerIsNotMaker
  <2>1. CASE j \in Kind("respond")
    <3>1. PICK i \in Kind("request") :
             /\ i < j
             /\ trail[i].call.request = trail[j].call.request
             /\ trail[i].call.case = trail[j].call.case
             /\ trail[i].call.actor # trail[j].call.actor
      BY <2>1 DEF IInv, CheckerIsNotMaker
    <3>2. i \in Kind("request")' /\ trail'[i] = trail[i] /\ trail'[j] = trail[j]
      BY <1>4, <1>5, <2>1
    <3> QED BY <3>1, <3>2
  <2>2. CASE j \notin Kind("respond")
    <3>1. j = n /\ x.call.kind = "respond"
      BY <1>4, <2>2
    <3>2. PICK i \in 1 .. x.since :
             /\ i \in Kind("request")
             /\ trail[i].call.request = x.call.request
             /\ trail[i].call.case = x.call.case
             /\ trail[i].call.actor # x.call.actor
      BY <1>6, <3>1 DEF Checking, MadeByOther
    <3>3. i \in Kind("request")' /\ trail'[i] = trail[i] /\ i < n
      BY <1>4, <1>5, <3>2
    <3> QED BY <1>5, <3>1, <3>2, <3>3
  <2> QED BY <2>1, <2>2
<1>8. RespondedOnce'
  <2> SUFFICES ASSUME NEW q \in Request, NEW i \in Responses(q)', NEW j \in Responses(q)', i < j
               PROVE  i > trail'[j].since
    BY DEF RespondedOnce, Overlaps
  <2>1. i \in Responses(q) /\ (j \in Responses(q) \/ (j = n /\ x.call.kind = "respond" /\ x.call.request = q))
    BY <1>4
  <2>2. CASE j \in Responses(q)
    <3>1. i > trail[j].since
      BY <2>1, <2>2 DEF IInv, RespondedOnce, Overlaps
    <3> QED BY <1>4, <1>5, <2>2, <3>1
  <2>3. CASE j = n /\ x.call.kind = "respond" /\ x.call.request = q
    BY <1>5, <1>6, <2>1, <2>3 DEF Checking
  <2> QED BY <2>1, <2>2, <2>3
<1> QED BY <1>7, <1>8

LEMMA CommitForks ==
    ASSUME IInv, NEW t \in Thread, Commit(t)
    PROVE  Forks'
<1>1. txn[t] \in TxnRec
  BY TxnFacts DEF IInv, Commit, Active
<1>2. PICK x \in TxnRec : txn[t] = x
  BY <1>1
<1>3. PICK n : n = Len(trail) + 1
  OBVIOUS
<1>4. /\ \A i \in 1 .. Len(trail) : trail'[i] = trail[i]
      /\ trail'[n] = [call |-> x.call, prev |-> x.prev, since |-> x.since]
      /\ Len(trail) \in Nat /\ Len(trail') = n
      /\ x.pc = "committing" /\ Timed(x) /\ x.since \in Nat
  BY <1>2, <1>3, CommitFacts, TrailFacts, TxnFields DEF IInv
<1>5. \A m \in 0 .. Len(trail) : \A c : LastEntry(c, m)' = LastEntry(c, m)
  <2> SUFFICES ASSUME NEW m \in 0 .. Len(trail), NEW c
               PROVE  LastEntry(c, m)' = LastEntry(c, m)
    OBVIOUS
  <2>1. m \in Nat /\ \A i \in 1 .. m : i \in 1 .. Len(trail)
    BY <1>4
  <2> QED BY <1>4, <2>1, SamePrefix
<1> SUFFICES ASSUME NEW i \in 1 .. Len(trail'), NEW e \in Entry, trail'[i] = e
             PROVE  \E m \in e.since .. i - 1 : e.prev = LastEntry(e.call.case, m)'
  BY DEF Forks
<1>6. e.since \in Nat
  BY DEF Entry
<1>7. CASE i \in 1 .. Len(trail)
  <2>1. trail[i] = e
    BY <1>4, <1>7
  <2>2. PICK m \in e.since .. i - 1 : e.prev = LastEntry(e.call.case, m)
    BY <1>7, <2>1 DEF IInv, Forks
  <2>3. m \in 0 .. Len(trail)
    BY <1>4, <1>6, <1>7
  <2> QED BY <1>5, <2>2, <2>3
<1>8. CASE i \notin 1 .. Len(trail)
  <2>1. i = n
    BY <1>3, <1>4, <1>8
  <2>2. e.call = x.call /\ e.prev = x.prev /\ e.since = x.since
    BY <1>4, <2>1
  <2>3. PICK m \in x.since .. Len(trail) : x.prev = LastEntry(x.call.case, m)
    BY <1>4 DEF Timed
  <2>4. m \in 0 .. Len(trail) /\ m \in e.since .. i - 1
    BY <1>3, <1>4, <2>1, <2>2
  <2> QED BY <1>5, <2>2, <2>3, <2>4
<1> QED BY <1>7, <1>8

LEMMA CommitStatus ==
    ASSUME IInv, NEW t \in Thread, Commit(t)
    PROVE  StatusIsLastDecision'
<1>1. txn[t] \in TxnRec
  BY TxnFacts DEF IInv, Commit, Active
<1>2. PICK x \in TxnRec : txn[t] = x
  BY <1>1
<1>3. PICK n : n = Len(trail) + 1
  OBVIOUS
<1>4. /\ n \in Nat /\ n > Len(trail) /\ Len(trail) \in Nat
      /\ \A c : Decisions(c)' = Decisions(c) \cup
            (IF x.call.kind = "decide" /\ x.call.case = c THEN {n} ELSE {})
      /\ \A c : Decisions(c) \subseteq 1 .. Len(trail)
  <2>1. \A c : Decisions(c) \subseteq 1 .. Len(trail)
    BY DEF Decisions, Kind
  <2> QED BY <1>2, <1>3, <2>1, CommitSets, TrailFacts DEF IInv
<1>5. /\ \A i \in 1 .. Len(trail) : trail'[i] = trail[i]
      /\ trail'[n].call = x.call /\ trail'[n].since = x.since
  <2>1. trail'[n] = [call |-> x.call, prev |-> x.prev, since |-> x.since]
    BY <1>2, <1>3, CommitFacts
  <2> QED BY <1>2, <2>1, CommitFacts
<1>6. Deciding(x) /\ x.since \in Nat
  BY <1>2, CommitFacts, TxnFields
<1> SUFFICES ASSUME NEW c \in Case
             PROVE  /\ Decisions(c)' = {} => cases'[c] = "under_review"
                    /\ \A j \in Decisions(c)' :
                          (\A i \in Decisions(c)' : i <= j /\ ~ (i < j /\ i > trail'[j].since))
                              => cases'[c] = Effect(trail'[j].call.action)
  BY DEF StatusIsLastDecision, Overlaps, Effect
<1>7. /\ Decisions(c) = {} => cases[c] = "under_review"
      /\ \A j \in Decisions(c) :
            (\A i \in Decisions(c) : i <= j /\ ~ (i < j /\ i > trail[j].since))
                => cases[c] = Effect(trail[j].call.action)
  BY DEF IInv, StatusIsLastDecision, Overlaps
<1>8. CASE ~ (x.call.kind = "decide" /\ x.call.case = c)
  <2>1. cases'[c] = cases[c]
    BY <1>2, <1>8, CommitRows, TxnFields
  <2>2. Decisions(c)' = Decisions(c)
    BY <1>4, <1>8
  <2>3. \A j \in Decisions(c) : trail'[j] = trail[j]
    BY <1>4, <1>5
  <2> QED BY <1>7, <2>1, <2>2, <2>3
<1>9. CASE x.call.kind = "decide" /\ x.call.case = c
  <2>1. Decisions(c)' = Decisions(c) \cup {n}
    BY <1>4, <1>9
  <2> SUFFICES ASSUME NEW j \in Decisions(c)',
                      \A i \in Decisions(c)' : i <= j /\ ~ (i < j /\ i > trail'[j].since)
               PROVE  cases'[c] = Effect(trail'[j].call.action)
    BY <2>1
  <2>2. j = n
    BY <1>4, <2>1
  <2>3. \A i \in Decisions(c) : i <= x.since
    <3> SUFFICES ASSUME NEW i \in Decisions(c) PROVE i <= x.since
      OBVIOUS
    <3>1. i < n /\ i \in Nat
      BY <1>4
    <3>2. ~ (i < n /\ i > x.since)
      BY <1>5, <2>1, <2>2
    <3> QED BY <1>6, <3>1, <3>2
  <2>4. cases[c] = x.read
    BY <1>6, <1>9, <2>3 DEF Deciding
  <2>5. cases'[c] = Written(x)
    BY <1>2, <1>9, CommitRows
  <2>6. Written(x) = Effect(x.call.action)
    BY <1>9, <2>4 DEF Written
  <2> QED BY <1>5, <2>2, <2>5, <2>6
<1> QED BY <1>8, <1>9

LEMMA CommitKeeps ==
    ASSUME IInv, NEW t \in Thread, Commit(t)
    PROVE  IInv'
BY CommitTypes, CommitCalls, CommitRowsInv, CommitChecked, CommitForks, CommitStatus DEF IInv

-----------------------------------------------------------------------------
LEMMA InitIInv == Init => IInv
<1> SUFFICES ASSUME Init PROVE IInv
  OBVIOUS
<1>1. trail = <<>> /\ Len(trail) = 0 /\ 1 .. Len(trail) = {}
  BY DEF Init
<1>2. TypeOK
  BY DEF Init, TypeOK, CaseStatus, TxnType
<1>3. \A t \in Thread : ~ (txn[t] \in TxnRec)
  BY DEF Init, Idle, TxnRec
<1>4. CallsInv
  BY <1>3 DEF CallsInv
<1>5. \A k : Kind(k) = {}
  BY <1>1 DEF Kind
<1>6. /\ \A q : Responses(q) = {}
      /\ \A c : Decisions(c) = {}
  BY <1>5 DEF Responses, Decisions
<1>7. RowsInv
  BY <1>5, <1>6 DEF RowsInv, Init, NoRow
<1>8. CheckerIsNotMaker /\ RespondedOnce /\ StatusIsLastDecision
  BY <1>5, <1>6 DEF Init, CheckerIsNotMaker, RespondedOnce, StatusIsLastDecision
<1>9. Forks
  BY <1>1 DEF Forks
<1> QED BY <1>2, <1>4, <1>7, <1>8, <1>9 DEF IInv

LEMMA StutterKeeps == ASSUME IInv, UNCHANGED vars PROVE IInv'
<1>1. UNCHANGED <<cases, unmasks, trail>> /\ txn' = txn
  BY DEF vars
<1>2. TypeOK'
  BY <1>1 DEF IInv, TypeOK
<1>3. CallsInv'
  <2> SUFFICES ASSUME NEW u \in Thread, NEW x \in TxnRec, txn'[u] = x
               PROVE  Timed(x)' /\ Making(u)' /\ Checking(x)' /\ Deciding(x)'
    BY DEF CallsInv
  <2>1. Timed(x) /\ Making(u) /\ Checking(x) /\ Deciding(x)
    BY <1>1 DEF IInv, CallsInv
  <2>2. x.pc = "committing" =>
           \E n \in x.since .. Len(trail) : x.prev = LastEntry(x.call.case, n)
    BY <2>1 DEF Timed
  <2>3. Timed(x)' /\ Checking(x)' /\ Deciding(x)'
    BY <1>1, <2>1, <2>2, SameRecord
  <2>4. Making(u)'
    BY <1>1, <2>1 DEF Making, Active
  <2> QED BY <2>3, <2>4
<1> QED BY <1>1, <1>2, <1>3, PrivateKeeps DEF IInv

LEMMA NextKeeps == IInv /\ [Next]_vars => IInv'
<1> SUFFICES ASSUME IInv, [Next]_vars PROVE IInv'
  OBVIOUS
<1>1. ASSUME NEW t \in Thread, NEW c \in Case, NEW action \in {"resolve", "escalate"},
             Decide(t, c, action)
      PROVE  IInv'
  BY <1>1, DecideKeeps
<1>2. ASSUME NEW t \in Thread, NEW c \in Case, NEW a \in Actor, NEW q \in Request,
             RequestUnmask(t, c, a, q)
      PROVE  IInv'
  BY <1>2, RequestKeeps
<1>3. ASSUME NEW t \in Thread, NEW q \in Request, NEW a \in Actor,
             NEW action \in {"approved", "denied"}, RespondUnmask(t, q, a, action)
      PROVE  IInv'
  BY <1>3, RespondKeeps
<1>4. ASSUME NEW t \in Thread, AppendAudit(t) PROVE IInv'
  BY <1>4, AppendAuditKeeps
<1>5. ASSUME NEW t \in Thread, Commit(t) PROVE IInv'
  BY <1>5, CommitKeeps
<1>6. ASSUME NEW t \in Thread, Answer(t) \/ Abort(t) PROVE IInv'
  BY <1>6, EndKeeps
<1>7. CASE UNCHANGED vars
  BY <1>7, StutterKeeps
<1> QED BY <1>1, <1>2, <1>3, <1>4, <1>5, <1>6, <1>7 DEF Next

\* What follows from the invariant.
LEMMA ForksFollow == IInv => ChainForksOnlyInOverlap
<1> SUFFICES ASSUME IInv, NEW i \in 1 .. Len(trail)
             PROVE  \E n \in trail[i].since .. i - 1 :
                       trail[i].prev = LastEntry(trail[i].call.case, n)
  BY DEF ChainForksOnlyInOverlap
<1>1. trail[i] \in Entry
  BY TrailFacts DEF IInv
<1> QED BY <1>1 DEF IInv, Forks

LEMMA AuditFollows == IInv => UnmaskingIsAudited
<1> SUFFICES ASSUME IInv, NEW q \in Request
             PROVE  /\ unmasks[q] # NoRow <=> \E i \in Kind("request") : trail[i].call.request = q
                    /\ Responses(q) = {} => unmasks[q].status \in {"none", "pending"}
                    /\ \A j \in Responses(q) :
                           (\A i \in Responses(q) : i <= j) => unmasks[q].status = trail[j].call.action
  BY DEF IInv, UnmaskingIsAudited, RequestsAreAudited
<1> QED BY DEF IInv, RowsInv

-----------------------------------------------------------------------------
\* The rows, the audit table and the calls of the portal are always typed, whatever
\* calls its threads interleave.
THEOREM PortalTypes == Spec => []TypeOK
<1>1. Init => IInv
  BY InitIInv
<1>2. IInv /\ [Next]_vars => IInv'
  BY NextKeeps
<1>3. IInv => TypeOK
  BY DEF IInv
<1> QED BY <1>1, <1>2, <1>3, PTL DEF Spec

\* _append_audit continues the chain of the case behind the entry that was last at
\* some moment of its call: however many threads there are, a chain forks only
\* between calls that overlap.
THEOREM PortalForksOnlyInOverlap == Spec => []ChainForksOnlyInOverlap
<1>1. Init => IInv
  BY InitIInv
<1>2. IInv /\ [Next]_vars => IInv'
  BY NextKeeps
<1> QED BY <1>1, <1>2, ForksFollow, PTL DEF Spec

\* decide leaves a case with the status of the decision committed last, unless that
\* one overlapped another decision on the case.
THEOREM PortalStatusIsLastDecision == Spec => []StatusIsLastDecision
<1>1. Init => IInv
  BY InitIInv
<1>2. IInv /\ [Next]_vars => IInv'
  BY NextKeeps
<1>3. IInv => StatusIsLastDecision
  BY DEF IInv
<1> QED BY <1>1, <1>2, <1>3, PTL DEF Spec

\* Two responses to one unmask request are possible only when they overlap.
THEOREM PortalRespondedOnce == Spec => []RespondedOnce
<1>1. Init => IInv
  BY InitIInv
<1>2. IInv /\ [Next]_vars => IInv'
  BY NextKeeps
<1>3. IInv => RespondedOnce
  BY DEF IInv
<1> QED BY <1>1, <1>2, <1>3, PTL DEF Spec

\* Every request and response is in the audit table, the row says what the table
\* says, and no maker is the checker of the same request.
THEOREM PortalUnmaskingIsAudited == Spec => []UnmaskingIsAudited
<1>1. Init => IInv
  BY InitIInv
<1>2. IInv /\ [Next]_vars => IInv'
  BY NextKeeps
<1> QED BY <1>1, <1>2, AuditFollows, PTL DEF Spec
=============================================================================
