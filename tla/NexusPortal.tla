----------------------------- MODULE NexusPortal -----------------------------
(***************************************************************************)
(* NexusService of backend-api: decisions on cases and maker-checker       *)
(* unmask requests, each with an entry in the hash chain of its case.      *)
(*                                                                         *)
(* The routes of routes/v1.py are plain functions, which run in threads;   *)
(* each call has a session of its own.  A query is a step, as each reads   *)
(* what is committed (READ COMMITTED, no row is locked, autoflush is off); *)
(* what a call adds and changes reaches the database in its db.commit(),   *)
(* one step.  Calls a route or the service rejects leave no trace and are  *)
(* not shown; callers are in scope of the case and of the institution.     *)
(***************************************************************************)
EXTENDS Naturals, Sequences, FiniteSets

CONSTANTS
    Case,           \* the seeded cases
    Request,        \* ids of unmask requests
    None,           \* stands for no request and no subject
    Actor,          \* subjects
    Thread,         \* threads of the server
    MaxEntries      \* bound: entries of the audit table

ASSUME NexusPortalAssumption ==
    /\ None \notin Request \cup Actor
    /\ MaxEntries \in Nat

VARIABLES
    cases,      \* nexus_cases: the status of each case
    unmasks,    \* nexus_unmask_requests, NoRow where there is none
    trail,      \* nexus_audit_entries, in the order they were inserted
    txn         \* per thread: the call it executes and what it has read

vars == <<cases, unmasks, trail, txn>>

CaseStatus == {"under_review", "resolved", "escalated"}
NoRow == [status |-> "none"]
Row == [case : Case, requested_by : Actor, status : {"pending", "approved", "denied"}]

CallType ==
    [kind : {"decide", "request", "respond"}, case : Case, actor : Actor \cup {None},
     request : Request \cup {None},
     action : {"resolve", "escalate", "requested", "approved", "denied"}]

\* An entry's hash is its position, 0 that of the entry _seed made for the case.
\* since is history: the entries there were when the call began.
Entry == [call : CallType, prev : Nat, since : Nat]

Idle == [pc |-> "idle"]

Init ==
    /\ cases = [c \in Case |-> "under_review"]
    /\ unmasks = [q \in Request |-> NoRow]
    /\ trail = <<>>
    /\ txn = [t \in Thread |-> Idle]

-----------------------------------------------------------------------------
\* The first query of a call, which finds the case or the request; `read` is the
\* status of the row the call will change.
Begin(t, call, read) ==
    /\ txn[t].pc = "idle"
    /\ txn' = [txn EXCEPT ![t] = [pc |-> "auditing", call |-> call, read |-> read,
                                  prev |-> 0, since |-> Len(trail)]]
    /\ UNCHANGED <<cases, unmasks, trail>>

\* approve and reject both resolve a case; whoever decides is no matter.
Decide(t, c, action) ==
    Begin(t, [kind |-> "decide", case |-> c, actor |-> None, request |-> None,
              action |-> action], cases[c])

\* uuid4 gives an id no request has.
Fresh(q) ==
    /\ unmasks[q] = NoRow
    /\ \A t \in Thread : txn[t].pc # "idle" => txn[t].call.request # q

RequestUnmask(t, c, a, q) ==
    /\ Fresh(q)
    /\ Begin(t, [kind |-> "request", case |-> c, actor |-> a, request |-> q,
                 action |-> "requested"], "none")

\* Mutant: a resolved request can be resolved again.
MayRespondAgain(q, a) == unmasks[q].status # "none" /\ unmasks[q].requested_by # a

MayRespond(q, a) == unmasks[q].status = "pending" /\ unmasks[q].requested_by # a

RespondUnmask(t, q, a, action) ==
    /\ MayRespond(q, a)
    /\ Begin(t, [kind |-> "respond", case |-> unmasks[q].case, actor |-> a, request |-> q,
                 action |-> action], unmasks[q].status)

EntriesOf(c, n) == {i \in 1 .. n : trail[i].call.case = c}

\* The last of the first n entries of a case, in the order of their commits.  The
\* query has no ORDER BY: entries are never updated or deleted, so the database is
\* taken to return them as they were inserted.
LastEntry(c, n) ==
    IF EntriesOf(c, n) = {} THEN 0
    ELSE CHOOSE i \in EntriesOf(c, n) : \A j \in EntriesOf(c, n) : j <= i

\* Mutant: the entries of all cases are read.
PreviousOfAll(c) == Len(trail)

Previous(c) == LastEntry(c, Len(trail))

\* _append_audit reads the entries of the case.
AppendAudit(t) ==
    /\ txn[t].pc = "auditing"
    /\ txn' = [txn EXCEPT ![t].pc = "committing",
                          ![t].prev = Previous(txn[t].call.case)]
    /\ UNCHANGED <<cases, unmasks, trail>>

Effect(action) == IF action = "resolve" THEN "resolved" ELSE "escalated"

\* Mutant: a case that was decided keeps its status.
WrittenOnce(x) == IF x.read # "under_review" THEN cases[x.call.case] ELSE Effect(x.call.action)

\* SQLAlchemy writes no attribute that was set to the value it was read with.
Written(x) ==
    IF x.read = Effect(x.call.action) THEN cases[x.call.case] ELSE Effect(x.call.action)

\* The rows a call changed, as its commit leaves them.
Stored(x) ==
    LET call == x.call
    IN  /\ cases' = IF call.kind = "decide" THEN [cases EXCEPT ![call.case] = Written(x)]
                    ELSE cases
        /\ unmasks' =
             CASE call.kind = "request" ->
                    [unmasks EXCEPT ![call.request] =
                        [case |-> call.case, requested_by |-> call.actor, status |-> "pending"]]
               [] call.kind = "respond" ->
                    [unmasks EXCEPT ![call.request].status = call.action]
               [] OTHER -> unmasks

\* db.commit(), which may raise although the database carried it out.  A request
\* is answered with the record in hand, the others with a row read again.
Commit(t) ==
    LET x == txn[t]
    IN  /\ x.pc = "committing"
        /\ Len(trail) < MaxEntries
        /\ Stored(x)
        /\ trail' = Append(trail, [call |-> x.call, prev |-> x.prev, since |-> x.since])
        /\ \/ x.call.kind # "request" /\ txn' = [txn EXCEPT ![t].pc = "answering"]
           \/ txn' = [txn EXCEPT ![t] = Idle]

\* The attributes are expired by the commit: _case_to_dict and the result of
\* respond_unmask query the row again.
Answer(t) ==
    /\ txn[t].pc = "answering"
    /\ txn' = [txn EXCEPT ![t] = Idle]
    /\ UNCHANGED <<cases, unmasks, trail>>

\* Mutant: the changed row is committed before the entry is.
AbortHalfway(t) ==
    /\ txn[t].pc \in {"auditing", "committing"}
    /\ txn' = [txn EXCEPT ![t] = Idle]
    /\ Stored(txn[t])
    /\ UNCHANGED trail

\* A query or the commit raises without effect, and the session is closed.
Abort(t) ==
    /\ txn[t].pc \in {"auditing", "committing"}
    /\ txn' = [txn EXCEPT ![t] = Idle]
    /\ UNCHANGED <<cases, unmasks, trail>>

-----------------------------------------------------------------------------
Next ==
    \E t \in Thread :
        \/ \E c \in Case, action \in {"resolve", "escalate"} : Decide(t, c, action)
        \/ \E c \in Case, a \in Actor, q \in Request : RequestUnmask(t, c, a, q)
        \/ \E q \in Request, a \in Actor, action \in {"approved", "denied"} :
               RespondUnmask(t, q, a, action)
        \/ AppendAudit(t) \/ Commit(t) \/ Answer(t) \/ Abort(t)

Spec == Init /\ [][Next]_vars

-----------------------------------------------------------------------------
TxnType ==
    {Idle} \cup
    [pc : {"auditing", "committing", "answering"}, call : CallType,
     read : CaseStatus \cup {"none", "pending"}, prev : Nat, since : Nat]

\* The types of the variables.
TypeOK ==
    /\ cases \in [Case -> CaseStatus]
    /\ unmasks \in [Request -> Row \cup {NoRow}]
    /\ trail \in Seq(Entry)
    /\ txn \in [Thread -> TxnType]

Kind(k) == {i \in 1 .. Len(trail) : trail[i].call.kind = k}
Decisions(c) == {i \in Kind("decide") : trail[i].call.case = c}
Responses(q) == {i \in Kind("respond") : trail[i].call.request = q}

\* i was committed while the call of j was under way.
Overlaps(i, j) == i < j /\ i > trail[j].since

\* An entry continues the chain of its case behind the entry that was the last when
\* some moment of its call came: the chain of a case forks only between calls that
\* overlapped, since nothing locks it (nexus_service.py:73-74).
ChainForksOnlyInOverlap ==
    \A i \in 1 .. Len(trail) :
        \E n \in trail[i].since .. i - 1 : trail[i].prev = LastEntry(trail[i].call.case, n)

\* A case has the status of the decision committed last, and is under review before
\* the first, unless the last one overlapped another decision on it: of two that
\* overlap, the later may find nothing to write (nexus_service.py:137-144).
StatusIsLastDecision ==
    \A c \in Case :
        /\ Decisions(c) = {} => cases[c] = "under_review"
        /\ \A j \in Decisions(c) :
               (\A i \in Decisions(c) : i <= j /\ ~Overlaps(i, j))
                   => cases[c] = Effect(trail[j].call.action)

\* A request is responded to once, unless two responses overlapped: then each read
\* it as pending (nexus_service.py:214).
RespondedOnce ==
    \A q \in Request : \A i, j \in Responses(q) : i < j => Overlaps(i, j)

\* Every response was made by another than the maker of the request, whose entry for
\* the same case came before it.
CheckerIsNotMaker ==
    \A j \in Kind("respond") : \E i \in Kind("request") :
        /\ i < j
        /\ trail[i].call.request = trail[j].call.request
        /\ trail[i].call.case = trail[j].call.case
        /\ trail[i].call.actor # trail[j].call.actor

\* A request has the status of its last response, is pending if it has none, and
\* there is no request or response without the entry that records it.
RequestsAreAudited ==
    \A q \in Request :
        /\ unmasks[q] # NoRow <=> \E i \in Kind("request") : trail[i].call.request = q
        /\ Responses(q) = {} => unmasks[q].status \in {"none", "pending"}
        /\ \A j \in Responses(q) :
               (\A i \in Responses(q) : i <= j) => unmasks[q].status = trail[j].call.action

\* The audit table tells the story of every request, in the order of maker and checker.
UnmaskingIsAudited == RequestsAreAudited /\ CheckerIsNotMaker
=============================================================================
