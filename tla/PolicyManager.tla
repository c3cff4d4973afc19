----------------------------- MODULE PolicyManager -----------------------------
(***************************************************************************)
(* policy_weights_svc: PolicyManager without a database pool (the policies *)
(* are in the service's memory) and with a Redis cache of the active one.  *)
(*                                                                         *)
(* Handlers are coroutines of one event loop: the code between two awaits  *)
(* of a Redis command runs undisturbed, and that is the grain of the       *)
(* actions.  An awaited command takes two: Redis executes it, and later    *)
(* the handler resumes with its answer.  Without Redis nothing suspends,   *)
(* so requests run one after another: the instance with one process.       *)
(***************************************************************************)
EXTENDS Integers, FiniteSets

CONSTANTS
    Proc,            \* requests that may be in progress together
    MaxPolicies,     \* bound: policies created
    MaxRev,          \* bound: changes of one policy's content
    MaxRestarts,     \* bound: restarts of the service
    RedisMayFail     \* a Redis command may fail (the code swallows the error)

ASSUME ManagerAssumption ==
    /\ MaxPolicies \in Nat /\ MaxRev \in Nat /\ MaxRestarts \in Nat
    /\ RedisMayFail \in BOOLEAN

VARIABLES
    policies,        \* _policies: status and revision of the content, by id
    active_id,       \* _active_policy_id, 0 for None
    cache,           \* Redis: the copy under ACTIVE_POLICY_CACHE_KEY
    req,             \* the requests in progress
    restarts         \* how often the service was restarted

memory == <<policies, active_id>>
vars == <<policies, active_id, cache, req, restarts>>

\* Policies are numbered in the order of their creation, which is the order
\* of the dictionary; "none" is the status of one that does not exist yet.
Policy == 1..MaxPolicies
PolicyStatus == {"none", "draft", "active", "inactive", "archived"}

\* A WeightPolicy object or its JSON.  Id 0 is a policy of an earlier run.
Copy == [id : 0..MaxPolicies, status : PolicyStatus, rev : 0..MaxRev]
None == [id |-> 0, status |-> "none", rev |-> 0]

Request == [op : {"none", "get", "create", "calibrate", "activate", "deactivate"},
            at : {"idle", "get", "fill", "supersede", "invalidate", "set"},
            replied : BOOLEAN, id : 0..MaxPolicies, policy : Copy, found : Copy]
Idle == [op |-> "none", at |-> "idle", replied |-> FALSE,
         id |-> 0, policy |-> None, found |-> None]

Init ==
    /\ policies = [i \in Policy |-> [status |-> "none", rev |-> 0]]
    /\ active_id = 0
    /\ cache = None
    /\ req = [p \in Proc |-> Idle]
    /\ restarts = 0

-----------------------------------------------------------------------------
\* What the handlers do with the policies in memory.

Status(i) == policies[i].status
Stored(i) == [id |-> i, status |-> Status(i), rev |-> policies[i].rev]
Free == {i \in Policy : Status(i) = "none"}
Active == {i \in Policy : Status(i) = "active"}

\* The first of S in the order of creation, as a set: empty when S is.
First(S) == {i \in S : \A j \in S : i <= j}

\* _get_active_from_memory: the one named active, else the first that is.
ActiveInMemory == {Stored(i) : i \in IF active_id # 0 THEN {active_id} ELSE First(Active)}

StoreNew == \E i \in First(Free) : policies' = [policies EXCEPT ![i].status = "draft"]

\* Mutant: the deactivated policy stays the one named active.
DeactivateStoredKeepsId(i) ==
    /\ Status(i) = "active"
    /\ policies' = [policies EXCEPT ![i].status = "inactive"]
    /\ UNCHANGED active_id

\* Mutant: a deactivated policy is a draft again.
DeactivateStoredToDraft(i) ==
    /\ Status(i) = "active"
    /\ policies' = [policies EXCEPT ![i].status = "draft"]
    /\ active_id' = IF active_id = i THEN 0 ELSE active_id

\* The part of deactivate_policy that runs before its await.
DeactivateStored(i) ==
    /\ Status(i) = "active"
    /\ policies' = [policies EXCEPT ![i].status = "inactive"]
    /\ active_id' = IF active_id = i THEN 0 ELSE active_id

\* The handler of p awaits a Redis command; the handler of p returns or raises.
Await(p, r, point) == req' = [req EXCEPT ![p] = [r EXCEPT !.at = point, !.replied = FALSE]]
Return(p) == req' = [req EXCEPT ![p] = Idle]
Resumes(p, point) == req[p].at = point /\ req[p].replied

-----------------------------------------------------------------------------
\* Redis.

\* GET of get_active_policy.  A failed command is a miss.
RedisGet(p) ==
    /\ req[p].at = "get" /\ ~req[p].replied
    /\ \E answer \in {cache} \union (IF RedisMayFail THEN {None} ELSE {}) :
          req' = [req EXCEPT ![p].found = answer, ![p].replied = TRUE]
    /\ UNCHANGED <<memory, cache, restarts>>

\* SETEX of get_active_policy ("fill") and of activate_policy ("set").
Sent(p) == IF req[p].at = "fill" THEN req[p].found ELSE req[p].policy

RedisSet(p) ==
    /\ req[p].at \in {"fill", "set"} /\ ~req[p].replied
    /\ \/ cache' = Sent(p)
       \/ RedisMayFail /\ UNCHANGED cache
    /\ req' = [req EXCEPT ![p].replied = TRUE]
    /\ UNCHANGED <<memory, restarts>>

\* DEL of _invalidate_cache.
RedisDelete(p) ==
    /\ req[p].at \in {"supersede", "invalidate"} /\ ~req[p].replied
    /\ \/ cache' = None
       \/ RedisMayFail /\ UNCHANGED cache
    /\ req' = [req EXCEPT ![p].replied = TRUE]
    /\ UNCHANGED <<memory, restarts>>

\* CACHE_TTL_SECONDS have passed since the copy was stored.
CacheExpires ==
    /\ cache # None /\ cache' = None
    /\ UNCHANGED <<memory, req, restarts>>

\* Before that, another SETEX stores a copy with a time to live of its own.
TtlRenewed == cache # None /\ \E p \in Proc : RedisSet(p) /\ cache' = Sent(p)

-----------------------------------------------------------------------------
\* Requests that run without an await.

\* update_policy: only a draft may change.
UpdatePolicy(p, i) ==
    /\ req[p] = Idle
    /\ Status(i) = "draft" /\ policies[i].rev < MaxRev
    /\ policies' = [policies EXCEPT ![i].rev = @ + 1]
    /\ UNCHANGED <<active_id, cache, req, restarts>>

\* CalibrationService.evaluate_calibration stores metrics in any policy.
EvaluateCalibration(p, i) ==
    /\ req[p] = Idle
    /\ Status(i) # "none" /\ policies[i].rev < MaxRev
    /\ policies' = [policies EXCEPT ![i].rev = @ + 1]
    /\ UNCHANGED <<active_id, cache, req, restarts>>

\* archive_old_policies: which policies are old enough is the clock's choice.
ArchiveOldPolicies(p) ==
    \E old \in SUBSET {i \in Policy : Status(i) = "inactive" /\ i # active_id} :
        /\ req[p] = Idle /\ old # {}
        /\ policies' = [i \in Policy |->
              IF i \in old THEN [policies[i] EXCEPT !.status = "archived"] ELSE policies[i]]
        /\ UNCHANGED <<active_id, cache, req, restarts>>

-----------------------------------------------------------------------------
\* create_policy and deactivate_policy: store, then invalidate the cache.

CreatePolicy(p) ==
    /\ req[p] = Idle
    /\ StoreNew
    /\ Await(p, [Idle EXCEPT !.op = "create"], "invalidate")
    /\ UNCHANGED <<active_id, cache, restarts>>

\* Mutant: deactivation does not invalidate the cache.
DeactivatePolicyKeepsCache(p, i) ==
    /\ req[p] = Idle
    /\ DeactivateStored(i)
    /\ UNCHANGED <<cache, req, restarts>>

DeactivatePolicy(p, i) ==
    /\ req[p] = Idle
    /\ DeactivateStored(i)
    /\ Await(p, [Idle EXCEPT !.op = "deactivate"], "invalidate")
    /\ UNCHANGED <<cache, restarts>>

\* Requests that begin by asking for the active policy.

GetActivePolicy(p) ==
    /\ req[p] = Idle
    /\ \E op \in {"get", "calibrate"} : Await(p, [Idle EXCEPT !.op = op], "get")
    /\ UNCHANGED <<memory, cache, restarts>>

\* activate_policy up to its first await: it holds a copy of the policy.
\* A policy that is not a draft is refused before anything is awaited.
ActivatePolicy(p, i) ==
    /\ req[p] = Idle /\ Status(i) = "draft"
    /\ Await(p, [Idle EXCEPT !.op = "activate", !.id = i, !.policy = Stored(i)], "get")
    /\ UNCHANGED <<memory, cache, restarts>>

\* Mutant: the policy is cached before it is activated.
StoreActivatedEarlySet(p) ==
    /\ policies' = [policies EXCEPT ![req[p].id].status = "active"]
    /\ active_id' = req[p].id
    /\ Await(p, req[p], "invalidate")
    /\ UNCHANGED <<cache, restarts>>

\* activate() on the copy held, which is then stored and named active.
StoreActivated(p) ==
    LET activated == [req[p].policy EXCEPT !.status = "active"] IN
    /\ policies' = [policies EXCEPT ![req[p].id] = [status |-> "active", rev |-> activated.rev]]
    /\ active_id' = req[p].id
    /\ Await(p, [req[p] EXCEPT !.policy = activated], "invalidate")
    /\ UNCHANGED <<cache, restarts>>

\* Mutant: the current policy is not deactivated.
SupersedeKeepsCurrent(p, current) == current.id \in Policy /\ StoreActivated(p)

\* deactivate_policy of the current policy, called by activate_policy: it raises
\* when memory knows no such policy or its status is not active.
Supersede(p, current) ==
    IF current.id \in Policy /\ Status(current.id) = "active"
    THEN /\ DeactivateStored(current.id)
         /\ Await(p, req[p], "supersede")
         /\ UNCHANGED <<cache, restarts>>
    ELSE Return(p) /\ UNCHANGED <<memory, cache, restarts>>

\* get_active_policy has returned to its caller.  calibrate_weights then creates
\* a policy (it is refused when the bound on policies is reached).
GotActive(p, current) ==
    CASE req[p].op = "activate" ->
            IF current # None /\ current.id # req[p].id
            THEN Supersede(p, current) ELSE StoreActivated(p)
      [] req[p].op = "calibrate" /\ Free # {} ->
            /\ StoreNew
            /\ Await(p, [Idle EXCEPT !.op = "create"], "invalidate")
            /\ UNCHANGED <<active_id, cache, restarts>>
      [] OTHER -> Return(p) /\ UNCHANGED <<memory, cache, restarts>>

\* Mutant: a hit stores the copy again, which renews its time to live.
AfterGetRenewsHit(p) ==
    /\ Resumes(p, "get")
    /\ \/ req[p].found = None /\ ActiveInMemory = {} /\ GotActive(p, None)
       \/ /\ \E policy \in IF req[p].found = None THEN ActiveInMemory ELSE {req[p].found} :
                 Await(p, [req[p] EXCEPT !.found = policy], "fill")
          /\ UNCHANGED <<memory, cache, restarts>>

\* Resuming after GET: a hit is returned, a miss is looked up and cached.
AfterGet(p) ==
    /\ Resumes(p, "get")
    /\ \/ req[p].found # None /\ GotActive(p, req[p].found)
       \/ req[p].found = None /\ ActiveInMemory = {} /\ GotActive(p, None)
       \/ /\ req[p].found = None
          /\ \E policy \in ActiveInMemory : Await(p, [req[p] EXCEPT !.found = policy], "fill")
          /\ UNCHANGED <<memory, cache, restarts>>

AfterFill(p) == Resumes(p, "fill") /\ GotActive(p, req[p].found)

\* Mutant: the handler returns once the current policy is deactivated.
AfterSupersedeReturns(p) ==
    /\ Resumes(p, "supersede")
    /\ Return(p)
    /\ UNCHANGED <<memory, cache, restarts>>

AfterSupersede(p) == Resumes(p, "supersede") /\ StoreActivated(p)

\* activate_policy caches the policy it activated; the other handlers are done.
AfterInvalidate(p) ==
    /\ Resumes(p, "invalidate")
    /\ IF req[p].op = "activate" THEN Await(p, req[p], "set") ELSE Return(p)
    /\ UNCHANGED <<memory, cache, restarts>>

AfterSet(p) ==
    /\ Resumes(p, "set")
    /\ Return(p)
    /\ UNCHANGED <<memory, cache, restarts>>

\* The service restarts: its memory is gone, what Redis holds is not.
Restart ==
    /\ restarts < MaxRestarts
    /\ restarts' = restarts + 1
    /\ policies' = [i \in Policy |-> [status |-> "none", rev |-> 0]]
    /\ active_id' = 0
    /\ req' = [p \in Proc |-> Idle]
    /\ cache' = [cache EXCEPT !.id = 0]

Redis(p) == RedisGet(p) \/ RedisSet(p) \/ RedisDelete(p)
Resume(p) ==
    AfterGet(p) \/ AfterFill(p) \/ AfterSupersede(p) \/ AfterInvalidate(p) \/ AfterSet(p)

Next ==
    \/ \E p \in Proc :
          \/ Redis(p) \/ Resume(p)
          \/ CreatePolicy(p) \/ GetActivePolicy(p) \/ ArchiveOldPolicies(p)
    \/ \E p \in Proc, i \in Policy :
          \/ ActivatePolicy(p, i) \/ DeactivatePolicy(p, i)
          \/ UpdatePolicy(p, i) \/ EvaluateCalibration(p, i)
    \/ CacheExpires \/ Restart

Spec == Init /\ [][Next]_vars

\* Redis answers, the event loop resumes what is ready, and a copy expires unless
\* a SETEX comes first and again begins a time to live.
FairSpec ==
    /\ Spec
    /\ \A p \in Proc : WF_vars(Redis(p)) /\ WF_vars(Resume(p))
    /\ WF_vars(CacheExpires \/ TtlRenewed)

-----------------------------------------------------------------------------
\* Type invariant.  The statuses pending_approval, rejected and superseded are
\* not in PolicyStatus: no handler of the service ever sets them.
TypeOK ==
    /\ policies \in [Policy -> [status : PolicyStatus, rev : 0..MaxRev]]
    /\ active_id \in 0..MaxPolicies
    /\ cache \in Copy
    /\ req \in [Proc -> Request]
    /\ restarts \in 0..MaxRestarts

\* However requests interleave, the policy named active has status active, so
\* a lookup by _active_policy_id never hands out weights that are not in force.
ActiveIdIsActive == active_id # 0 => Status(active_id) = "active"

\* A copy made of a policy that was active when, or some time before, it was made.
WasActive(c) ==
    c # None =>
        /\ c.status = "active"
        /\ c.id # 0 => Status(c.id) \in {"active", "inactive", "archived"}

\* However requests interleave, what Redis holds is a copy made of a policy that
\* was active: a draft's weights are never served as the active ones.
CachedWasActive == WasActive(cache)

\* However requests interleave, a policy that left DRAFT never returns to it:
\* weights that were in force can no longer be edited by update_policy.
DraftOnce ==
    [][\A i \in Policy :
          Status(i) \notin {"none", "draft"} /\ restarts' = restarts
              => Status(i)' \notin {"none", "draft"}]_vars

\* activate_policy deactivates the current active policy: at most one is active.
AtMostOneActive ==
    \A i, j \in Policy : Status(i) = "active" /\ Status(j) = "active" => i = j

\* Between requests the cache is empty or holds the policy named active: what was
\* activated is what is served, and what was deactivated is not.
CacheIsActive ==
    (\A p \in Proc : req[p] = Idle) /\ cache # None
        => cache.id = active_id /\ Status(active_id) = cache.status

\* Requests served one after another implement PolicyRegister.  While activate_policy
\* is between deactivating the current policy and storing the new one, the register
\* still shows the current one: no other request runs in that gap.
Superseded == {req[p].found.id : p \in {q \in Proc : req[q].at = "supersede"}}

Register == INSTANCE PolicyRegister WITH
    in_force  <- IF Superseded = {} THEN active_id ELSE CHOOSE i \in Superseded : TRUE,
    withdrawn <- {i \in Policy : Status(i) \in {"inactive", "archived"}} \ Superseded

ImplementsRegister == Register!Spec

\* A handler that has replaced the active policy leaves some policy active: the
\* moment without an active policy that activate_policy opens always closes.
SwitchCompletes ==
    \A p \in Proc :
        (req[p].at = "supersede")
            ~> (req[p].at # "supersede" /\ (active_id # 0 \/ Free = Policy))

\* A copy that a lookup in memory would no longer give, of a deactivated policy or
\* of an earlier run, does not stay in the cache: only SETEX can keep the key alive,
\* and a hit executes none, so readers do not prolong what they are wrongly served.
Stale == cache # None /\ cache.id \notin {policy.id : policy \in ActiveInMemory}

StaleCopyGoes == Stale ~> ~Stale
=============================================================================
