-------------------------- MODULE PolicyManagerProofs --------------------------
(***************************************************************************)
(* Theorems about PolicyManager, for every number of requests in progress, *)
(* of policies and of restarts, with a Redis that may fail or not; those   *)
(* about one request at a time name what they need besides: that at most   *)
(* one policy is active, that the cache holds the policy in force, and     *)
(* that the manager implements PolicyRegister.                             *)
(***************************************************************************)
EXTENDS PolicyManager, TLAPS

Record == [status : PolicyStatus, rev : 0..MaxRev]
Ops == {"none", "get", "create", "calibrate", "activate", "deactivate"}
Points == {"idle", "get", "fill", "supersede", "invalidate", "set"}

-----------------------------------------------------------------------------
\* Facts about the helpers.

LEMMA ConstantTypes ==
    /\ MaxPolicies \in Nat /\ 0 \in 0..MaxPolicies /\ 0 \in 0..MaxRev
    /\ None \in Copy /\ Idle \in Request
    /\ Policy \subseteq Nat /\ 0 \notin Policy /\ Policy \subseteq 0..MaxPolicies
  BY ManagerAssumption DEF None, Copy, Idle, Request, PolicyStatus, Policy

LEMMA StoredType ==
    ASSUME TypeOK, NEW i \in Policy
    PROVE  /\ policies[i] \in Record
           /\ Stored(i) \in Copy
           /\ Stored(i).id = i /\ Stored(i).status = Status(i)
           /\ Stored(i) # None
  BY ConstantTypes DEF TypeOK, Stored, Status, Copy, Record, None

LEMMA AwaitType ==
    ASSUME req \in [Proc -> Request], NEW p \in Proc, NEW r \in Request,
           NEW point \in Points, Await(p, r, point)
    PROVE  /\ req' \in [Proc -> Request]
           /\ req'[p] = [r EXCEPT !.at = point, !.replied = FALSE]
           /\ \A q \in Proc : q # p => req'[q] = req[q]
  <1>1. [r EXCEPT !.at = point, !.replied = FALSE] \in Request
    BY DEF Request, Points
  <1> QED  BY <1>1 DEF Await

LEMMA ReturnType ==
    ASSUME req \in [Proc -> Request], NEW p \in Proc, Return(p)
    PROVE  /\ req' \in [Proc -> Request]
           /\ req'[p] = Idle
           /\ \A q \in Proc : q # p => req'[q] = req[q]
  BY ConstantTypes DEF Return

\* The policy in force according to memory has status active, and there is none
\* only if no policy has.
LEMMA ActiveInMemoryIs ==
    ASSUME TypeOK, ActiveIdIsActive, NEW c \in ActiveInMemory
    PROVE  \E i \in Active : c = Stored(i)
  <1>1. active_id # 0 => active_id \in Policy
    BY ConstantTypes DEF TypeOK, Policy
  <1> QED  BY <1>1 DEF ActiveInMemory, ActiveIdIsActive, Active, First

\* A policy is stored under an id that was free.
LEMMA StoreNewDoes ==
    ASSUME TypeOK, StoreNew
    PROVE  \E n \in Policy :
              /\ Status(n) = "none"
              /\ policies' = [policies EXCEPT ![n].status = "draft"]
  BY DEF StoreNew, Free, First

-----------------------------------------------------------------------------
\* Type correctness.

LEMMA StoreActivatedTypes ==
    ASSUME TypeOK, NEW p \in Proc, StoreActivated(p)
    PROVE  TypeOK'
  <1> DEFINE activated == [req[p].policy EXCEPT !.status = "active"]
             r == [req[p] EXCEPT !.policy = activated]
  <1>1. activated \in Copy /\ req[p] \in Request
    BY DEF TypeOK, Request, Copy, PolicyStatus
  <1>2. r \in Request /\ req[p].id \in 0..MaxPolicies
    BY <1>1 DEF Request
  <1>3. [status |-> "active", rev |-> activated.rev] \in Record
    BY <1>1 DEF Copy, Record, PolicyStatus
  <1>4. req' \in [Proc -> Request]
    BY <1>2, AwaitType DEF StoreActivated, TypeOK, Points
  <1> QED  BY <1>2, <1>3, <1>4 DEF StoreActivated, TypeOK, Record

LEMMA DeactivateTypes ==
    ASSUME TypeOK, NEW i \in Policy, DeactivateStored(i)
    PROVE  policies' \in [Policy -> Record] /\ active_id' \in 0..MaxPolicies
  <1>1. [policies[i] EXCEPT !.status = "inactive"] \in Record
    BY DEF TypeOK, Record, PolicyStatus
  <1> QED  BY <1>1, ConstantTypes DEF DeactivateStored, TypeOK, Record

LEMMA StoreNewTypes ==
    ASSUME TypeOK, StoreNew
    PROVE  policies' \in [Policy -> Record]
  <1>1. PICK n \in Policy : policies' = [policies EXCEPT ![n].status = "draft"]
    BY StoreNewDoes
  <1>2. [policies[n] EXCEPT !.status = "draft"] \in Record
    BY DEF TypeOK, Record, PolicyStatus
  <1> QED  BY <1>1, <1>2 DEF TypeOK, Record

LEMMA GotActiveTypes ==
    ASSUME TypeOK, NEW p \in Proc, NEW current \in Copy, GotActive(p, current)
    PROVE  TypeOK'
  <1>0. req \in [Proc -> Request] /\ req[p] \in Request /\ policies \in [Policy -> Record]
    BY DEF TypeOK, Record
  <1>1. CASE Return(p) /\ UNCHANGED <<memory, cache, restarts>>
    BY <1>0, <1>1, ReturnType DEF TypeOK, memory
  <1>2. CASE StoreActivated(p)
    BY <1>2, StoreActivatedTypes
  <1>3. CASE /\ current.id \in Policy /\ DeactivateStored(current.id)
             /\ Await(p, req[p], "supersede")
             /\ UNCHANGED <<cache, restarts>>
    BY <1>0, <1>3, DeactivateTypes, AwaitType DEF TypeOK, Points, Record
  <1>4. CASE /\ StoreNew
             /\ Await(p, [Idle EXCEPT !.op = "create"], "invalidate")
             /\ UNCHANGED <<active_id, cache, restarts>>
    <2>1. [Idle EXCEPT !.op = "create"] \in Request
      BY ConstantTypes DEF Idle, Request
    <2> QED  BY <1>0, <1>4, <2>1, StoreNewTypes, AwaitType DEF TypeOK, Points, Record
  <1> QED  BY <1>1, <1>2, <1>3, <1>4 DEF GotActive, Supersede

LEMMA NextTypeOK ==
    ASSUME TypeOK, ActiveIdIsActive, [Next]_vars
    PROVE  TypeOK'
  <1>0. /\ req \in [Proc -> Request] /\ policies \in [Policy -> Record]
        /\ cache \in Copy /\ active_id \in 0..MaxPolicies /\ restarts \in 0..MaxRestarts
        /\ \A p \in Proc : req[p] \in Request /\ req[p].found \in Copy /\ req[p].policy \in Copy
    BY DEF TypeOK, Record, Request
  <1>1. ASSUME NEW p \in Proc, Redis(p)
        PROVE  TypeOK'
    <2>1. CASE RedisGet(p)
      <3>1. PICK answer \in Copy : req' = [req EXCEPT ![p].found = answer, ![p].replied = TRUE]
        BY <1>0, <2>1, ConstantTypes DEF RedisGet
      <3>2. [req[p] EXCEPT !.found = answer, !.replied = TRUE] \in Request
        BY <1>0 DEF Request
      <3> QED  BY <1>0, <2>1, <3>1, <3>2 DEF RedisGet, TypeOK, memory, Record
    <2>2. CASE RedisSet(p) \/ RedisDelete(p)
      <3>1. req' = [req EXCEPT ![p].replied = TRUE] /\ UNCHANGED <<memory, restarts>>
        BY <2>2 DEF RedisSet, Sent, RedisDelete
      <3>2. [req[p] EXCEPT !.replied = TRUE] \in Request
        BY <1>0 DEF Request
      <3>3. cache' \in Copy
        BY <1>0, <2>2, ConstantTypes DEF RedisSet, Sent, RedisDelete
      <3> QED  BY <1>0, <3>1, <3>2, <3>3 DEF TypeOK, memory, Record
    <2> QED  BY <1>1, <2>1, <2>2 DEF Redis
  <1>2. ASSUME NEW p \in Proc, Resume(p)
        PROVE  TypeOK'
    <2>1. CASE AfterGet(p)
      <3>1. ASSUME NEW c \in ActiveInMemory, Await(p, [req[p] EXCEPT !.found = c], "fill"),
                   UNCHANGED <<memory, cache, restarts>>
            PROVE  TypeOK'
        <4>1. c \in Copy
          BY ActiveInMemoryIs, StoredType DEF Active
        <4>2. [req[p] EXCEPT !.found = c] \in Request
          BY <1>0, <4>1 DEF Request
        <4>3. req' \in [Proc -> Request]
          BY <1>0, <3>1, <4>2, AwaitType DEF Points
        <4> QED  BY <1>0, <3>1, <4>3 DEF TypeOK, memory, Record
      <3> QED  BY <1>0, <2>1, <3>1, GotActiveTypes, ConstantTypes DEF AfterGet
    <2>2. CASE AfterFill(p) \/ AfterSupersede(p)
      BY <1>0, <2>2, GotActiveTypes, StoreActivatedTypes DEF AfterFill, AfterSupersede
    <2>3. CASE AfterInvalidate(p) \/ AfterSet(p)
      BY <1>0, <2>3, AwaitType, ReturnType DEF AfterInvalidate, AfterSet, TypeOK, memory, Points, Record
    <2> QED  BY <1>2, <2>1, <2>2, <2>3 DEF Resume
  <1>3. ASSUME NEW p \in Proc, CreatePolicy(p)
        PROVE  TypeOK'
    <2>1. [Idle EXCEPT !.op = "create"] \in Request
      BY ConstantTypes DEF Idle, Request
    <2> QED  BY <1>0, <1>3, <2>1, StoreNewTypes, AwaitType DEF CreatePolicy, TypeOK, Points, Record
  <1>4. ASSUME NEW p \in Proc, GetActivePolicy(p)
        PROVE  TypeOK'
    <2>1. \A op \in Ops : [Idle EXCEPT !.op = op] \in Request
      BY ConstantTypes DEF Idle, Request, Ops
    <2>2. PICK op \in {"get", "calibrate"} : Await(p, [Idle EXCEPT !.op = op], "get")
      BY <1>4 DEF GetActivePolicy
    <2>3. req' \in [Proc -> Request]
      BY <1>0, <2>1, <2>2, AwaitType DEF Points, Ops
    <2> QED  BY <1>0, <1>4, <2>3 DEF GetActivePolicy, TypeOK, memory, Record
  <1>5. ASSUME NEW p \in Proc, ArchiveOldPolicies(p)
        PROVE  TypeOK'
    <2>1. PICK old \in SUBSET Policy : policies' = [i \in Policy |->
              IF i \in old THEN [policies[i] EXCEPT !.status = "archived"] ELSE policies[i]]
      BY <1>5 DEF ArchiveOldPolicies
    <2>2. \A i \in Policy : [policies[i] EXCEPT !.status = "archived"] \in Record
      BY <1>0 DEF Record, PolicyStatus
    <2>3. policies' \in [Policy -> Record]
      BY <1>0, <2>1, <2>2
    <2> QED  BY <1>0, <1>5, <2>3 DEF ArchiveOldPolicies, TypeOK, Record
  <1>6. ASSUME NEW p \in Proc, NEW i \in Policy, ActivatePolicy(p, i)
        PROVE  TypeOK'
    <2>1. [Idle EXCEPT !.op = "activate", !.id = i, !.policy = Stored(i)] \in Request
      BY ConstantTypes, StoredType DEF Idle, Request
    <2>2. req' \in [Proc -> Request]
      BY <1>0, <1>6, <2>1, AwaitType DEF ActivatePolicy, Points
    <2> QED  BY <1>0, <1>6, <2>2 DEF ActivatePolicy, TypeOK, memory, Record
  <1>7. ASSUME NEW p \in Proc, NEW i \in Policy, DeactivatePolicy(p, i)
        PROVE  TypeOK'
    <2>1. [Idle EXCEPT !.op = "deactivate"] \in Request
      BY ConstantTypes DEF Idle, Request
    <2> QED  BY <1>0, <1>7, <2>1, DeactivateTypes, AwaitType
             DEF DeactivatePolicy, TypeOK, Points, Record
  <1>8. ASSUME NEW p \in Proc, NEW i \in Policy, UpdatePolicy(p, i) \/ EvaluateCalibration(p, i)
        PROVE  TypeOK'
    <2>1. /\ policies[i].rev < MaxRev
          /\ policies' = [policies EXCEPT ![i].rev = @ + 1]
          /\ UNCHANGED <<active_id, cache, req, restarts>>
      BY <1>8 DEF UpdatePolicy, EvaluateCalibration
    <2>2. policies[i].rev + 1 \in 0..MaxRev
      BY <1>0, <2>1, ManagerAssumption DEF Record
    <2>3. [policies[i] EXCEPT !.rev = @ + 1] \in Record
      BY <1>0, <2>2 DEF Record
    <2> QED  BY <1>0, <2>1, <2>3 DEF TypeOK, Record
  <1>9. CASE CacheExpires
    BY <1>0, <1>9, ConstantTypes DEF CacheExpires, TypeOK, memory, Record
  <1>10. CASE Restart
    <2>1. cache' \in Copy
      BY <1>0, <1>10, ConstantTypes DEF Restart, Copy
    <2>2. restarts' \in 0..MaxRestarts
      BY <1>0, <1>10, ManagerAssumption DEF Restart
    <2>3. [status |-> "none", rev |-> 0] \in Record
      BY ConstantTypes DEF Record, PolicyStatus
    <2> QED  BY <1>10, <2>1, <2>2, <2>3, ConstantTypes DEF Restart, TypeOK, Record
  <1>11. CASE UNCHANGED vars
    BY <1>11 DEF vars, TypeOK
  <1> QED  BY <1>1, <1>2, <1>3, <1>4, <1>5, <1>6, <1>7, <1>8, <1>9, <1>10, <1>11 DEF Next

-----------------------------------------------------------------------------
\* The inductive invariant: what a handler holds while it awaits Redis.  A copy
\* answered by GET or looked up in memory was of an active policy, and so is the
\* copy an activation is about to cache.

Kept == {"active", "inactive", "archived"}

HeldOK(r) ==
    /\ WasActive(r.found)
    /\ r.op = "activate" => r.id \in Policy /\ r.policy.id = r.id
    /\ r.op = "activate" /\ r.at \in {"invalidate", "set"} => WasActive(r.policy)
    /\ r.at \in {"supersede", "set"} => r.op = "activate"

Held == \A p \in Proc : HeldOK(req[p])

IInv == TypeOK /\ ActiveIdIsActive /\ CachedWasActive /\ Held

\* What a step that is no restart does to the policies in memory.
MemoryStep ==
    \/ UNCHANGED memory
    \/ /\ UNCHANGED active_id
       /\ \/ \E i \in Policy : /\ Status(i) = "none"
                               /\ policies' = [policies EXCEPT ![i].status = "draft"]
          \/ \E i \in Policy, n \in Nat : policies' = [policies EXCEPT ![i].rev = n]
          \/ \E old \in SUBSET {i \in Policy : Status(i) = "inactive" /\ i # active_id} :
                policies' = [i \in Policy |->
                   IF i \in old THEN [policies[i] EXCEPT !.status = "archived"] ELSE policies[i]]
    \/ \E i \in Policy : DeactivateStored(i)
    \/ \E p \in Proc : req[p].op = "activate" /\ StoreActivated(p)

LEMMA GotActiveMemory ==
    ASSUME TypeOK, NEW p \in Proc, NEW current \in Copy, GotActive(p, current)
    PROVE  MemoryStep /\ restarts' = restarts
  <1>1. CASE Return(p) /\ UNCHANGED <<memory, cache, restarts>>
    BY <1>1 DEF MemoryStep
  <1>2. CASE req[p].op = "activate" /\ StoreActivated(p)
    BY <1>2 DEF MemoryStep, StoreActivated
  <1>3. CASE current.id \in Policy /\ DeactivateStored(current.id) /\ UNCHANGED restarts
    BY <1>3 DEF MemoryStep
  <1>4. CASE StoreNew /\ UNCHANGED <<active_id, restarts>>
    BY <1>4, StoreNewDoes DEF MemoryStep
  <1> QED  BY <1>1, <1>2, <1>3, <1>4 DEF GotActive, Supersede

LEMMA StepMemory ==
    ASSUME TypeOK, Held, [Next]_vars
    PROVE  Restart \/ (MemoryStep /\ restarts' = restarts)
  <1>1. ASSUME NEW p \in Proc, Redis(p)
        PROVE  MemoryStep /\ restarts' = restarts
    BY <1>1 DEF Redis, RedisGet, RedisSet, Sent, RedisDelete, MemoryStep
  <1>2. ASSUME NEW p \in Proc, Resume(p)
        PROVE  MemoryStep /\ restarts' = restarts
    <2>1. None \in Copy /\ req[p].found \in Copy
      BY ConstantTypes DEF TypeOK, Request
    <2>2. CASE AfterGet(p) \/ AfterFill(p)
      BY <2>1, <2>2, GotActiveMemory DEF AfterGet, AfterFill, MemoryStep
    <2>3. CASE AfterSupersede(p)
      BY <2>3 DEF AfterSupersede, Resumes, Held, HeldOK, MemoryStep, StoreActivated
    <2>4. CASE AfterInvalidate(p) \/ AfterSet(p)
      BY <2>4 DEF AfterInvalidate, AfterSet, MemoryStep
    <2> QED  BY <1>2, <2>2, <2>3, <2>4 DEF Resume
  <1>3. ASSUME NEW p \in Proc, CreatePolicy(p)
        PROVE  MemoryStep /\ restarts' = restarts
    BY <1>3, StoreNewDoes DEF CreatePolicy, MemoryStep
  <1>4. ASSUME NEW p \in Proc, GetActivePolicy(p) \/ \E i \in Policy : ActivatePolicy(p, i)
        PROVE  MemoryStep /\ restarts' = restarts
    BY <1>4 DEF GetActivePolicy, ActivatePolicy, MemoryStep
  <1>5. ASSUME NEW p \in Proc, ArchiveOldPolicies(p)
        PROVE  MemoryStep /\ restarts' = restarts
    BY <1>5 DEF ArchiveOldPolicies, MemoryStep
  <1>6. ASSUME NEW p \in Proc, NEW i \in Policy, DeactivatePolicy(p, i)
        PROVE  MemoryStep /\ restarts' = restarts
    BY <1>6 DEF DeactivatePolicy, MemoryStep
  <1>7. ASSUME NEW p \in Proc, NEW i \in Policy, UpdatePolicy(p, i) \/ EvaluateCalibration(p, i)
        PROVE  MemoryStep /\ restarts' = restarts
    <2>1. policies[i].rev + 1 \in Nat
      BY ManagerAssumption DEF TypeOK
    <2> QED  BY <1>7, <2>1 DEF UpdatePolicy, EvaluateCalibration, MemoryStep
  <1>8. CASE CacheExpires \/ UNCHANGED vars
    BY <1>8 DEF CacheExpires, vars, MemoryStep, memory
  <1> QED  BY <1>1, <1>2, <1>3, <1>4, <1>5, <1>6, <1>7, <1>8 DEF Next

\* The same in terms of the statuses.
Others(i) == \A j \in Policy \ {i} : Status(j)' = Status(j)

StatusStep ==
    \/ active_id' = active_id /\ \A j \in Policy : Status(j)' = Status(j)
    \/ /\ active_id' = active_id
       /\ \E i \in Policy : Status(i) = "none" /\ Status(i)' = "draft" /\ Others(i)
    \/ /\ active_id' = active_id
       /\ \E old \in SUBSET {i \in Policy : Status(i) = "inactive" /\ i # active_id} :
             \A j \in Policy : Status(j)' = IF j \in old THEN "archived" ELSE Status(j)
    \/ \E i \in Policy :
          /\ Status(i) = "active" /\ Status(i)' = "inactive" /\ Others(i)
          /\ active_id' = IF active_id = i THEN 0 ELSE active_id
    \/ \E p \in Proc, i \in Policy :
          /\ req[p].op = "activate" /\ req[p].id = i
          /\ Status(i)' = "active" /\ Others(i)
          /\ active_id' = i

LEMMA MemoryStatus ==
    ASSUME TypeOK, Held, MemoryStep
    PROVE  StatusStep
  <1>0. policies \in [Policy -> Record]
    BY DEF TypeOK, Record
  <1>1. CASE UNCHANGED memory
    BY <1>1 DEF memory, StatusStep, Status
  <1>2. ASSUME NEW i \in Policy, Status(i) = "none", UNCHANGED active_id,
               policies' = [policies EXCEPT ![i].status = "draft"]
        PROVE  StatusStep
    <2>1. Status(i)' = "draft" /\ Others(i)
      BY <1>0, <1>2 DEF Record, Status, Others
    <2> QED  BY <1>2, <2>1 DEF StatusStep
  <1>3. ASSUME NEW i \in Policy, NEW n \in Nat, UNCHANGED active_id,
               policies' = [policies EXCEPT ![i].rev = n]
        PROVE  StatusStep
    <2>1. \A j \in Policy : Status(j)' = Status(j)
      BY <1>0, <1>3 DEF Record, Status
    <2> QED  BY <1>3, <2>1 DEF StatusStep
  <1>4. ASSUME NEW old \in SUBSET {i \in Policy : Status(i) = "inactive" /\ i # active_id},
               UNCHANGED active_id,
               policies' = [i \in Policy |->
                  IF i \in old THEN [policies[i] EXCEPT !.status = "archived"] ELSE policies[i]]
        PROVE  StatusStep
    <2>1. \A j \in Policy : Status(j)' = IF j \in old THEN "archived" ELSE Status(j)
      BY <1>0, <1>4 DEF Record, Status
    <2> QED  BY <1>4, <2>1 DEF StatusStep
  <1>5. ASSUME NEW i \in Policy, DeactivateStored(i)
        PROVE  StatusStep
    <2>1. Status(i)' = "inactive" /\ Others(i)
      BY <1>0, <1>5 DEF Record, Status, Others, DeactivateStored
    <2> QED  BY <1>5, <2>1 DEF StatusStep, DeactivateStored
  <1>6. ASSUME NEW p \in Proc, req[p].op = "activate", StoreActivated(p)
        PROVE  StatusStep
    <2>1. PICK i \in Policy : i = req[p].id
      BY <1>6 DEF Held, HeldOK
    <2>2. policies' = [policies EXCEPT ![i] = [status |-> "active", rev |-> req[p].policy.rev]]
      BY <1>6, <2>1 DEF StoreActivated, TypeOK, Request, Copy
    <2>3. Status(i)' = "active" /\ Others(i)
      BY <1>0, <2>2 DEF Status, Others
    <2> QED  BY <1>6, <2>1, <2>3 DEF StatusStep, StoreActivated
  <1> QED  BY <1>1, <1>2, <1>3, <1>4, <1>5, <1>6 DEF MemoryStep

\* No step but a restart makes a policy that left DRAFT anything else again.
LEMMA StepKeeps ==
    ASSUME TypeOK, Held, MemoryStep, NEW i \in Policy, Status(i) \in Kept
    PROVE  Status(i)' \in Kept
  <1>1. StatusStep
    BY MemoryStatus
  <1>2. Status(i) \notin {"none", "draft"}
    BY DEF Kept
  <1> QED  BY <1>1, <1>2 DEF StatusStep, Kept, Others, Status

LEMMA StepActiveId ==
    ASSUME IInv, MemoryStep
    PROVE  ActiveIdIsActive'
  <1>1. active_id # 0 => active_id \in Policy /\ Status(active_id) = "active"
    BY ConstantTypes DEF IInv, TypeOK, Policy, ActiveIdIsActive
  <1>2. StatusStep
    BY MemoryStatus DEF IInv
  <1>3. CASE active_id' = 0
    BY <1>3 DEF ActiveIdIsActive
  <1>4. ASSUME active_id' = active_id, active_id # 0
        PROVE  policies'[active_id].status = "active"
    BY <1>1, <1>2, <1>4 DEF StatusStep, Others, Status
  <1>5. ASSUME active_id' # active_id, active_id' # 0
        PROVE  policies'[active_id'].status = "active"
    BY <1>2, <1>5 DEF StatusStep, Status
  <1> QED  BY <1>3, <1>4, <1>5 DEF ActiveIdIsActive, Status

LEMMA WasActiveKept ==
    ASSUME TypeOK, Held, MemoryStep, NEW c \in Copy, WasActive(c)
    PROVE  WasActive(c)'
  <1>1. c.id # 0 => c.id \in Policy
    BY ConstantTypes DEF Copy, Policy
  <1> QED  BY <1>1, StepKeeps DEF WasActive, Kept

\* WasActive and HeldOK against the policies as a step leaves them.
WasActiveNext(c) ==
    c # None => c.status = "active" /\ (c.id # 0 => policies'[c.id].status \in Kept)

HeldNext(r) ==
    /\ WasActiveNext(r.found)
    /\ r.op = "activate" => r.id \in Policy /\ r.policy.id = r.id
    /\ r.op = "activate" /\ r.at \in {"invalidate", "set"} => WasActiveNext(r.policy)
    /\ r.at \in {"supersede", "set"} => r.op = "activate"

LEMMA PrimedForms ==
    /\ CachedWasActive' <=> WasActiveNext(cache')
    /\ Held' <=> \A q \in Proc : HeldNext(req'[q])
  BY DEF CachedWasActive, Held, HeldOK, HeldNext, WasActive, WasActiveNext, Status, Kept

\* Copies that were of active policies still are when the step is over.
LEMMA CarryCopy ==
    ASSUME TypeOK, Held, MemoryStep, NEW c \in Copy, WasActive(c)
    PROVE  WasActiveNext(c)
  <1>1. c.id # 0 => c.id \in Policy
    BY ConstantTypes DEF Copy, Policy
  <1>2. \A i \in Policy : Status(i) \in Kept => policies'[i].status \in Kept
    BY StepKeeps DEF Status
  <1> QED  BY <1>1, <1>2 DEF WasActive, WasActiveNext, Kept

LEMMA CarryRequest ==
    ASSUME TypeOK, Held, MemoryStep, NEW r \in Request, HeldOK(r)
    PROVE  HeldNext(r)
  <1>1. r.found \in Copy /\ r.policy \in Copy
    BY DEF Request
  <1> QED  BY <1>1, CarryCopy DEF HeldOK, HeldNext

\* It is enough that what a step leaves held and cached is sound before it.
LEMMA Carry ==
    ASSUME IInv, TypeOK', MemoryStep, WasActive(cache'), \A q \in Proc : HeldOK(req'[q])
    PROVE  CachedWasActive' /\ Held'
  <1>1. cache' \in Copy /\ \A q \in Proc : req'[q] \in Request
    BY DEF TypeOK
  <1>2. WasActiveNext(cache')
    BY <1>1, CarryCopy DEF IInv
  <1>3. \A q \in Proc : HeldNext(req'[q])
    BY <1>1, CarryRequest DEF IInv
  <1> QED  BY <1>2, <1>3, PrimedForms

LEMMA IdleHeld == WasActive(None) /\ HeldOK(Idle)
  BY DEF HeldOK, Idle, WasActive

\* One request changes, the others stay as they are.
LEMMA OneChanges ==
    ASSUME IInv, NEW p \in Proc, HeldOK(req'[p]), \A q \in Proc : q # p => req'[q] = req[q]
    PROVE  \A q \in Proc : HeldOK(req'[q])
  BY DEF IInv, Held

LEMMA CreateHeld ==
    ASSUME IInv, NEW p \in Proc, Await(p, [Idle EXCEPT !.op = "create"], "invalidate")
    PROVE  \A q \in Proc : HeldOK(req'[q])
  <1>1. [Idle EXCEPT !.op = "create"] \in Request
    BY ConstantTypes DEF Idle, Request
  <1>2. /\ req'[p] = [[Idle EXCEPT !.op = "create"] EXCEPT !.at = "invalidate", !.replied = FALSE]
        /\ \A q \in Proc : q # p => req'[q] = req[q]
    BY <1>1, AwaitType DEF IInv, TypeOK, Points
  <1>3. HeldOK(req'[p])
    BY <1>2, IdleHeld DEF HeldOK, Idle
  <1> QED  BY <1>2, <1>3, OneChanges

LEMMA StoreActivatedInv ==
    ASSUME IInv, TypeOK', NEW p \in Proc, req[p].op = "activate", StoreActivated(p)
    PROVE  CachedWasActive' /\ Held'
  <1> DEFINE activated == [req[p].policy EXCEPT !.status = "active"]
  <1>0. TypeOK /\ Held /\ MemoryStep /\ CachedWasActive
    BY DEF IInv, MemoryStep
  <1>1. /\ req[p] \in Request /\ req[p].policy \in Copy
        /\ req[p].id \in Policy /\ req[p].policy.id = req[p].id
    BY <1>0 DEF TypeOK, Request, Held, HeldOK
  <1>2. activated \in Copy /\ activated.status = "active" /\ activated.id = req[p].id
    BY <1>1 DEF Copy, PolicyStatus
  <1>3. policies'[req[p].id].status = "active"
    BY <1>0, <1>1 DEF StoreActivated, TypeOK
  <1>4. WasActiveNext(activated)
    BY <1>2, <1>3 DEF WasActiveNext, Kept
  <1>5. [req[p] EXCEPT !.policy = activated] \in Request
    BY <1>1, <1>2 DEF Request
  <1>6. /\ req'[p] = [[req[p] EXCEPT !.policy = activated] EXCEPT !.at = "invalidate", !.replied = FALSE]
        /\ \A q \in Proc : q # p => req'[q] = req[q]
    BY <1>0, <1>5, AwaitType DEF StoreActivated, TypeOK, Points
  <1>7. /\ req'[p].found = req[p].found /\ req'[p].id = req[p].id /\ req'[p].op = "activate"
        /\ req'[p].policy = activated /\ req'[p].at = "invalidate"
    BY <1>1, <1>6 DEF Request
  <1>8. HeldNext(req[p])
    BY <1>0, <1>1, CarryRequest DEF Held
  <1>9. HeldNext(req'[p])
    BY <1>1, <1>2, <1>4, <1>7, <1>8 DEF HeldNext
  <1>10. \A q \in Proc : q # p => HeldNext(req'[q])
    <2>1. \A q \in Proc : req[q] \in Request /\ HeldOK(req[q])
      BY <1>0 DEF TypeOK, Held
    <2> QED  BY <1>0, <1>6, <2>1, CarryRequest
  <1>11. WasActiveNext(cache')
    BY <1>0, CarryCopy DEF StoreActivated, CachedWasActive, TypeOK
  <1> QED  BY <1>9, <1>10, <1>11, PrimedForms

LEMMA GotActiveInv ==
    ASSUME IInv, TypeOK', NEW p \in Proc, NEW current \in Copy, GotActive(p, current)
    PROVE  CachedWasActive' /\ Held'
  <1>0. /\ TypeOK /\ WasActive(cache) /\ Held /\ req \in [Proc -> Request]
        /\ HeldOK(req[p]) /\ MemoryStep
    BY GotActiveMemory DEF IInv, CachedWasActive, TypeOK, Held
  <1>1. CASE Return(p) /\ UNCHANGED <<memory, cache, restarts>>
    <2>1. HeldOK(req'[p]) /\ \A q \in Proc : q # p => req'[q] = req[q]
      BY <1>0, <1>1, ReturnType, IdleHeld
    <2> QED  BY <1>0, <1>1, <2>1, OneChanges, Carry
  <1>2. CASE req[p].op = "activate" /\ StoreActivated(p)
    BY <1>2, StoreActivatedInv
  <1>3. CASE /\ req[p].op = "activate"
             /\ Await(p, req[p], "supersede")
             /\ UNCHANGED cache
    <2>1. /\ req'[p] = [req[p] EXCEPT !.at = "supersede", !.replied = FALSE]
          /\ \A q \in Proc : q # p => req'[q] = req[q]
      BY <1>0, <1>3, AwaitType DEF Points
    <2>2. req[p] \in Request
      BY <1>0
    <2>3. HeldOK(req'[p])
      BY <1>0, <1>3, <2>1, <2>2 DEF HeldOK, Request
    <2> QED  BY <1>0, <1>3, <2>1, <2>3, OneChanges, Carry
  <1>4. CASE Await(p, [Idle EXCEPT !.op = "create"], "invalidate") /\ UNCHANGED cache
    BY <1>0, <1>4, CreateHeld, Carry
  <1> QED  BY <1>1, <1>2, <1>3, <1>4 DEF GotActive, Supersede

LEMMA RedisInv ==
    ASSUME IInv, TypeOK', NEW p \in Proc, Redis(p), MemoryStep
    PROVE  CachedWasActive' /\ Held'
  <1>0. /\ TypeOK /\ WasActive(cache) /\ Held /\ req \in [Proc -> Request]
        /\ HeldOK(req[p]) /\ req[p] \in Request
    BY DEF IInv, CachedWasActive, TypeOK, Held
  <1>1. CASE RedisGet(p)
    <2>1. PICK answer \in {cache, None} :
              req' = [req EXCEPT ![p].found = answer, ![p].replied = TRUE]
      BY <1>1 DEF RedisGet
    <2>2. WasActive(answer)
      BY <1>0, IdleHeld
    <2>3. /\ req'[p] = [req[p] EXCEPT !.found = answer, !.replied = TRUE]
          /\ \A q \in Proc : q # p => req'[q] = req[q]
      BY <1>0, <2>1
    <2>4. HeldOK(req'[p])
      BY <1>0, <2>2, <2>3 DEF HeldOK, Request
    <2> QED  BY <1>0, <1>1, <2>3, <2>4, OneChanges, Carry DEF RedisGet
  <1>2. CASE RedisSet(p) \/ RedisDelete(p)
    <2>1. /\ req'[p] = [req[p] EXCEPT !.replied = TRUE]
          /\ \A q \in Proc : q # p => req'[q] = req[q]
      BY <1>0, <1>2 DEF RedisSet, Sent, RedisDelete
    <2>2. HeldOK(req'[p])
      BY <1>0, <2>1 DEF HeldOK, Request
    <2>3. WasActive(cache')
      BY <1>0, <1>2, IdleHeld DEF RedisSet, Sent, RedisDelete, HeldOK
    <2> QED  BY <2>1, <2>2, <2>3, OneChanges, Carry
  <1> QED  BY <1>1, <1>2 DEF Redis

LEMMA ResumeInv ==
    ASSUME IInv, TypeOK', NEW p \in Proc, Resume(p), MemoryStep
    PROVE  CachedWasActive' /\ Held'
  <1>0. /\ TypeOK /\ WasActive(cache) /\ Held /\ req \in [Proc -> Request] /\ ActiveIdIsActive
        /\ HeldOK(req[p]) /\ req[p] \in Request /\ req[p].found \in Copy /\ None \in Copy
    BY ConstantTypes DEF IInv, CachedWasActive, TypeOK, Held, Request
  <1>1. ASSUME NEW c \in ActiveInMemory, Await(p, [req[p] EXCEPT !.found = c], "fill"), UNCHANGED cache
        PROVE  CachedWasActive' /\ Held'
    <2>1. PICK i \in Active : c = Stored(i)
      BY <1>0, ActiveInMemoryIs
    <2>2. c \in Copy /\ WasActive(c)
      BY <1>0, <2>1, StoredType DEF Active, WasActive
    <2>3. [req[p] EXCEPT !.found = c] \in Request
      BY <1>0, <2>2 DEF Request
    <2>4. /\ req'[p] = [[req[p] EXCEPT !.found = c] EXCEPT !.at = "fill", !.replied = FALSE]
          /\ \A q \in Proc : q # p => req'[q] = req[q]
      BY <1>0, <1>1, <2>3, AwaitType DEF Points
    <2>5. HeldOK(req'[p])
      BY <1>0, <2>2, <2>4 DEF HeldOK, Request
    <2> QED  BY <1>0, <1>1, <2>4, <2>5, OneChanges, Carry
  <1>2. CASE AfterGet(p) \/ AfterFill(p)
    BY <1>0, <1>1, <1>2, GotActiveInv DEF AfterGet, AfterFill
  <1>3. CASE AfterSupersede(p)
    BY <1>0, <1>3, StoreActivatedInv DEF AfterSupersede, Resumes, HeldOK
  <1>4. CASE AfterInvalidate(p) /\ req[p].op = "activate"
    <2>1. /\ req'[p] = [req[p] EXCEPT !.at = "set", !.replied = FALSE]
          /\ \A q \in Proc : q # p => req'[q] = req[q]
      BY <1>0, <1>4, AwaitType DEF AfterInvalidate, Points
    <2>2. HeldOK(req'[p])
      BY <1>0, <1>4, <2>1 DEF HeldOK, Request, AfterInvalidate, Resumes
    <2> QED  BY <1>0, <1>4, <2>1, <2>2, OneChanges, Carry DEF AfterInvalidate
  <1>5. CASE Return(p) /\ UNCHANGED cache
    <2>1. HeldOK(req'[p]) /\ \A q \in Proc : q # p => req'[q] = req[q]
      BY <1>0, <1>5, ReturnType, IdleHeld
    <2> QED  BY <1>0, <1>5, <2>1, OneChanges, Carry
  <1> QED  BY <1>2, <1>3, <1>4, <1>5 DEF Resume, AfterInvalidate, AfterSet

LEMMA StartInv ==
    ASSUME IInv, TypeOK', NEW p \in Proc, MemoryStep,
           \/ CreatePolicy(p) \/ GetActivePolicy(p) \/ ArchiveOldPolicies(p)
           \/ \E i \in Policy : \/ ActivatePolicy(p, i) \/ DeactivatePolicy(p, i)
                                \/ UpdatePolicy(p, i) \/ EvaluateCalibration(p, i)
    PROVE  CachedWasActive' /\ Held'
  <1>0. TypeOK /\ WasActive(cache) /\ Held /\ req \in [Proc -> Request]
    BY DEF IInv, CachedWasActive, TypeOK
  <1>1. CASE CreatePolicy(p)
    BY <1>0, <1>1, CreateHeld, Carry DEF CreatePolicy
  <1>2. ASSUME NEW op \in {"get", "calibrate", "deactivate"}, NEW point \in {"get", "invalidate"},
               Await(p, [Idle EXCEPT !.op = op], point), UNCHANGED cache
        PROVE  CachedWasActive' /\ Held'
    <2> DEFINE r == [Idle EXCEPT !.op = op]
    <2>1. r \in Request /\ r.found = None /\ r.op # "activate"
      BY ConstantTypes DEF Idle, Request
    <2>2. point \in Points /\ point \notin {"supersede", "set"}
      BY DEF Points
    <2>3. Await(p, r, point)
      BY <1>2
    <2> HIDE DEF r
    <2>4. /\ req'[p] = [r EXCEPT !.at = point, !.replied = FALSE]
          /\ \A q \in Proc : q # p => req'[q] = req[q]
      BY <1>0, <2>1, <2>2, <2>3, AwaitType
    <2>5. HeldOK(req'[p])
      BY <2>1, <2>2, <2>4, IdleHeld DEF HeldOK, Request
    <2> QED  BY <1>0, <1>2, <2>4, <2>5, OneChanges, Carry
  <1>3. CASE GetActivePolicy(p) \/ \E i \in Policy : DeactivatePolicy(p, i)
    BY <1>2, <1>3 DEF GetActivePolicy, DeactivatePolicy
  <1>4. ASSUME NEW i \in Policy, ActivatePolicy(p, i)
        PROVE  CachedWasActive' /\ Held'
    <2> DEFINE r == [Idle EXCEPT !.op = "activate", !.id = i, !.policy = Stored(i)]
    <2>1. r \in Request /\ r.found = None /\ r.id = i /\ r.policy.id = i
      BY <1>0, ConstantTypes, StoredType DEF Idle, Request
    <2> HIDE DEF r
    <2>2. /\ req'[p] = [r EXCEPT !.at = "get", !.replied = FALSE]
          /\ \A q \in Proc : q # p => req'[q] = req[q]
      BY <1>0, <1>4, <2>1, AwaitType DEF Points, ActivatePolicy, r
    <2>3. HeldOK(req'[p])
      BY <2>1, <2>2, IdleHeld DEF HeldOK, Request
    <2> QED  BY <1>0, <1>4, <2>2, <2>3, OneChanges, Carry DEF ActivatePolicy
  <1>5. CASE UNCHANGED <<cache, req>>
    BY <1>0, <1>5, Carry DEF Held
  <1> QED  BY <1>1, <1>3, <1>4, <1>5 DEF ArchiveOldPolicies, UpdatePolicy, EvaluateCalibration

LEMMA RestartInv ==
    ASSUME IInv, Restart
    PROVE  ActiveIdIsActive' /\ CachedWasActive' /\ Held'
  <1>1. cache' = [cache EXCEPT !.id = 0] /\ cache \in Copy /\ WasActive(cache)
    BY DEF Restart, IInv, TypeOK, CachedWasActive
  <1>2. cache'.id = 0 /\ cache'.status = cache.status /\ cache'.rev = cache.rev
    BY <1>1 DEF Copy
  <1>3. cache = None => cache' = None
    BY <1>1, <1>2 DEF None
  <1>4. WasActiveNext(cache')
    BY <1>1, <1>2, <1>3 DEF WasActive, WasActiveNext
  <1>5. \A q \in Proc : HeldNext(req'[q])
    BY DEF Restart, HeldNext, WasActiveNext, Idle
  <1>6. active_id' = 0
    BY DEF Restart
  <1> QED  BY <1>4, <1>5, <1>6, PrimedForms DEF ActiveIdIsActive

LEMMA NextIInv ==
    ASSUME IInv, [Next]_vars
    PROVE  IInv'
  <1>1. TypeOK'
    BY NextTypeOK DEF IInv
  <1>2. CASE Restart
    BY <1>1, <1>2, RestartInv DEF IInv
  <1>3. CASE MemoryStep /\ restarts' = restarts
    <2>1. ActiveIdIsActive'
      BY <1>3, StepActiveId
    <2>2. CASE ~Restart /\ ~CacheExpires /\ ~UNCHANGED vars
      BY <1>1, <1>3, <2>1, <2>2, RedisInv, ResumeInv, StartInv DEF Next, IInv
    <2>3. CASE CacheExpires \/ UNCHANGED vars
      <3>1. WasActive(cache') /\ req' = req
        BY <2>3, IdleHeld DEF CacheExpires, vars, IInv, CachedWasActive
      <3> QED  BY <1>1, <1>3, <2>1, <3>1, Carry DEF IInv, Held
    <2> QED  BY <1>2, <2>2, <2>3
  <1> QED  BY <1>2, <1>3, StepMemory DEF IInv

LEMMA InitIInv ==
    ASSUME Init
    PROVE  IInv
  <1>1. TypeOK
    <2>1. [status |-> "none", rev |-> 0] \in Record
      BY ConstantTypes DEF Record, PolicyStatus
    <2>2. 0 \in 0..MaxRestarts
      BY ManagerAssumption
    <2> QED  BY <2>1, <2>2, ConstantTypes DEF Init, TypeOK, Record
  <1>2. CachedWasActive /\ Held
    BY IdleHeld DEF Init, CachedWasActive, Held
  <1> QED  BY <1>1, <1>2 DEF IInv, Init, ActiveIdIsActive

-----------------------------------------------------------------------------

\* However requests interleave and whatever Redis does, the manager's state keeps
\* its types: in particular no policy gets a status no handler sets.
THEOREM PolicyTypes == Spec => []TypeOK
  <1>1. IInv => TypeOK
    BY DEF IInv
  <1> QED  BY <1>1, InitIInv, NextIInv, PTL DEF Spec

\* The policy _active_policy_id names has status active, for any number of requests
\* interleaved at their Redis calls.
THEOREM PolicyActiveIdIsActive == Spec => []ActiveIdIsActive
  <1>1. IInv => ActiveIdIsActive
    BY DEF IInv
  <1> QED  BY <1>1, InitIInv, NextIInv, PTL DEF Spec

\* What the cache holds was made from a policy that had been activated.
THEOREM PolicyCachedWasActive == Spec => []CachedWasActive
  <1>1. IInv => CachedWasActive
    BY DEF IInv
  <1> QED  BY <1>1, InitIInv, NextIInv, PTL DEF Spec

\* A policy that left DRAFT never returns to it.
THEOREM PolicyDraftOnce == Spec => DraftOnce
  <1>1. ASSUME IInv, [Next]_vars, restarts' = restarts, NEW i \in Policy,
               Status(i) \notin {"none", "draft"}
        PROVE  policies'[i].status \notin {"none", "draft"}
    <2>1. ~Restart
      BY <1>1 DEF Restart, IInv, TypeOK
    <2>2. TypeOK /\ Held /\ MemoryStep
      BY <1>1, <2>1, StepMemory DEF IInv
    <2>3. Status(i) \in Kept
      BY <1>1, <2>2, StoredType DEF Record, PolicyStatus, Kept, Status
    <2>4. policies'[i].status \in Kept
      BY <2>2, <2>3, StepKeeps DEF Status
    <2> QED  BY <2>4 DEF Kept
  <1>2. IInv /\ [Next]_vars =>
            [\A i \in Policy :
                Status(i) \notin {"none", "draft"} /\ restarts' = restarts
                   => Status(i)' \notin {"none", "draft"}]_vars
    BY <1>1 DEF Status
  <1> QED  BY <1>2, InitIInv, NextIInv, PTL DEF Spec, DraftOnce

-----------------------------------------------------------------------------
\* One request at a time.  No more than the policy named active is active, the
\* policy being activated is still the draft it was, and between deactivating the
\* current policy and activating its successor none is active.

Serial == \A p, q \in Proc : p = q

ActivatingDraft ==
    \A p \in Proc :
        req[p].op = "activate" /\ req[p].at \in {"get", "fill", "supersede"}
            => Status(req[p].id) = "draft"

Exclusive ==
    /\ \A i \in Policy : Status(i) = "active" => active_id = i
    /\ ActivatingDraft
    /\ \A p \in Proc : req[p].at = "supersede" => \A i \in Policy : Status(i) # "active"
    /\ \A p \in Proc : req[p].at = "fill" => req[p].found # None

\* A step after which the only request is not activating, or not yet.
LEMMA NotActivating ==
    ASSUME Serial, NEW p \in Proc,
           req'[p].at \in {"idle", "invalidate", "set"},
           \A i \in Policy : policies'[i].status = "active" => active_id' = i
    PROVE  Exclusive'
  <1>1. \A q \in Proc : req'[q].at \in {"idle", "invalidate", "set"}
    BY DEF Serial
  <1> QED  BY <1>1 DEF Exclusive, ActivatingDraft, Status

LEMMA SerialActivated ==
    ASSUME IInv, Serial, NEW p \in Proc, req[p].op = "activate",
           \A i \in Policy : Status(i) # "active", StoreActivated(p)
    PROVE  Exclusive'
  <1> DEFINE r == [req[p] EXCEPT !.policy = [req[p].policy EXCEPT !.status = "active"]]
  <1>0. policies \in [Policy -> Record] /\ req \in [Proc -> Request] /\ req[p] \in Request
    BY DEF IInv, TypeOK, Record
  <1>1. r \in Request
    BY <1>0 DEF Request, Copy, PolicyStatus
  <1>2. Await(p, r, "invalidate")
    BY DEF StoreActivated
  <1> HIDE DEF r
  <1>3. req'[p] = [r EXCEPT !.at = "invalidate", !.replied = FALSE]
    BY <1>0, <1>1, <1>2, AwaitType DEF Points
  <1>4. req'[p].at = "invalidate"
    BY <1>1, <1>3 DEF Request
  <1>5. active_id' = req[p].id
        /\ \A i \in Policy : i # req[p].id => policies'[i].status = Status(i)
    BY <1>0 DEF StoreActivated, Status
  <1> QED  BY <1>4, <1>5, NotActivating

LEMMA SerialCreated ==
    ASSUME IInv, Serial, Exclusive, NEW p \in Proc, StoreNew, UNCHANGED active_id,
           Await(p, [Idle EXCEPT !.op = "create"], "invalidate")
    PROVE  Exclusive'
  <1>0. policies \in [Policy -> Record] /\ req \in [Proc -> Request]
    BY DEF IInv, TypeOK, Record
  <1>1. [Idle EXCEPT !.op = "create"] \in Request
    BY ConstantTypes DEF Idle, Request
  <1>2. req'[p] = [[Idle EXCEPT !.op = "create"] EXCEPT !.at = "invalidate", !.replied = FALSE]
    BY <1>0, <1>1, AwaitType DEF Points
  <1>3. req'[p].at = "invalidate"
    BY <1>1, <1>2 DEF Request
  <1>4. \A i \in Policy : policies'[i].status = "active" => Status(i) = "active"
    <2>1. PICK n \in Policy : policies' = [policies EXCEPT ![n].status = "draft"]
      BY StoreNewDoes DEF IInv
    <2> QED  BY <1>0, <2>1 DEF Status, Record
  <1> QED  BY <1>3, <1>4, NotActivating DEF Exclusive

LEMMA SerialDeactivated ==
    ASSUME IInv, Exclusive, NEW i \in Policy, DeactivateStored(i)
    PROVE  /\ \A j \in Policy : policies'[j].status # "active"
           /\ \A j \in Policy : Status(j) = "draft" => policies'[j].status = "draft"
  <1>1. policies \in [Policy -> Record]
    BY DEF IInv, TypeOK, Record
  <1>2. \A j \in Policy : policies'[j].status = IF j = i THEN "inactive" ELSE Status(j)
    BY <1>1 DEF DeactivateStored, Status, Record
  <1> QED  BY <1>2 DEF Exclusive, DeactivateStored

LEMMA SerialGotActive ==
    ASSUME IInv, Serial, Exclusive, NEW p \in Proc, NEW current \in Copy,
           req[p].at \in {"get", "fill"},
           WasActive(current),
           current = None => \A i \in Policy : Status(i) # "active",
           GotActive(p, current)
    PROVE  Exclusive'
  <1>0. req \in [Proc -> Request] /\ req[p] \in Request /\ HeldOK(req[p])
    BY DEF IInv, TypeOK, Held
  <1>1. CASE Return(p) /\ UNCHANGED <<memory, cache, restarts>>
    <2>1. req'[p].at = "idle"
      BY <1>0, <1>1, ReturnType DEF Idle
    <2> QED  BY <1>1, <2>1, NotActivating DEF memory, Exclusive, Status
  <1>2. CASE req[p].op = "activate"
    <2>1. req[p].id \in Policy /\ Status(req[p].id) = "draft"
      BY <1>0, <1>2 DEF HeldOK, Exclusive, ActivatingDraft
    <2>2. current # None => current.id # req[p].id
      BY <2>1, ConstantTypes DEF WasActive
    <2>3. CASE StoreActivated(p) /\ current = None
      BY <1>2, <2>3, SerialActivated
    <2>4. CASE /\ current.id \in Policy /\ DeactivateStored(current.id)
               /\ Await(p, req[p], "supersede")
      <3>1. /\ \A j \in Policy : policies'[j].status # "active"
            /\ \A j \in Policy : Status(j) = "draft" => policies'[j].status = "draft"
        BY <2>4, SerialDeactivated
      <3>2. req'[p] = [req[p] EXCEPT !.at = "supersede", !.replied = FALSE]
        BY <1>0, <2>4, AwaitType DEF Points
      <3>3. req'[p].at = "supersede" /\ req'[p].id = req[p].id
        BY <1>0, <3>2 DEF Request
      <3>4. policies'[req[p].id].status = "draft"
        BY <2>1, <3>1
      <3>5. \A q \in Proc : q = p
        BY DEF Serial
      <3> QED  BY <3>1, <3>3, <3>4, <3>5 DEF Exclusive, ActivatingDraft, Status
    <2> QED  BY <1>1, <1>2, <2>2, <2>3, <2>4 DEF GotActive, Supersede
  <1>3. CASE /\ StoreNew /\ UNCHANGED active_id
             /\ Await(p, [Idle EXCEPT !.op = "create"], "invalidate")
    BY <1>3, SerialCreated
  <1> QED  BY <1>1, <1>2, <1>3 DEF GotActive

\* A step that leaves memory alone and does not move the request's activation on.
LEMMA SerialSameMemory ==
    ASSUME Exclusive, UNCHANGED memory,
           \A q \in Proc : req'[q].op = req[q].op /\ req'[q].at = req[q].at /\ req'[q].id = req[q].id,
           \A q \in Proc : req[q].at = "fill" => req'[q].found = req[q].found
    PROVE  Exclusive'
  BY DEF Exclusive, ActivatingDraft, memory, Status

LEMMA SerialRedis ==
    ASSUME IInv, Exclusive, NEW p \in Proc, Redis(p)
    PROVE  Exclusive'
  <1>0. \A q \in Proc : req[q] \in Request
    BY DEF IInv, TypeOK
  <1>1. req \in [Proc -> Request] /\ UNCHANGED memory
    BY DEF IInv, TypeOK, Redis, RedisGet, RedisSet, Sent, RedisDelete
  <1>2. CASE RedisGet(p)
    <2>1. PICK answer : req' = [req EXCEPT ![p].found = answer, ![p].replied = TRUE]
      BY <1>2 DEF RedisGet
    <2>2. req[p].at = "get"
      BY <1>2 DEF RedisGet
    <2> QED  BY <1>0, <1>1, <2>1, <2>2, SerialSameMemory DEF Request
  <1>3. CASE RedisSet(p) \/ RedisDelete(p)
    <2>1. req' = [req EXCEPT ![p].replied = TRUE]
      BY <1>3 DEF RedisSet, Sent, RedisDelete
    <2> QED  BY <1>0, <1>1, <2>1, SerialSameMemory DEF Request
  <1> QED  BY <1>2, <1>3 DEF Redis

LEMMA SerialResume ==
    ASSUME IInv, Serial, Exclusive, NEW p \in Proc, Resume(p)
    PROVE  Exclusive'
  <1>0. /\ req \in [Proc -> Request] /\ req[p] \in Request /\ HeldOK(req[p]) /\ TypeOK
        /\ ActiveIdIsActive /\ WasActive(req[p].found) /\ req[p].found \in Copy
        /\ None \in Copy /\ WasActive(None)
    BY ConstantTypes, IdleHeld DEF IInv, TypeOK, Held, HeldOK, Request
  <1>1. CASE AfterGet(p) /\ req[p].found # None /\ GotActive(p, req[p].found)
    BY <1>0, <1>1, SerialGotActive DEF AfterGet, Resumes
  <1>2. CASE AfterGet(p) /\ ActiveInMemory = {} /\ GotActive(p, None)
    <2>1. active_id = 0
      BY <1>2 DEF ActiveInMemory
    <2>2. \A i \in Policy : Status(i) # "active"
      BY <2>1, ConstantTypes DEF Exclusive
    <2> QED  BY <1>0, <1>2, <2>2, SerialGotActive DEF AfterGet, Resumes
  <1>3. ASSUME NEW c \in ActiveInMemory, Await(p, [req[p] EXCEPT !.found = c], "fill"),
               UNCHANGED memory, req[p].at = "get"
        PROVE  Exclusive'
    <2> DEFINE r == [req[p] EXCEPT !.found = c]
    <2>1. c \in Copy /\ c # None
      BY <1>0, ActiveInMemoryIs, StoredType DEF Active
    <2>2. r \in Request /\ r.found = c /\ r.id = req[p].id /\ r.op = req[p].op
      BY <1>0, <2>1 DEF Request
    <2>3. Await(p, r, "fill")
      BY <1>3
    <2> HIDE DEF r
    <2>4. req'[p] = [r EXCEPT !.at = "fill", !.replied = FALSE]
      BY <1>0, <2>2, <2>3, AwaitType DEF Points
    <2>5. /\ req'[p].found # None /\ req'[p].at = "fill"
          /\ req'[p].id = req[p].id /\ req'[p].op = req[p].op
      BY <2>1, <2>2, <2>4 DEF Request
    <2>6. \A q \in Proc : q = p
      BY DEF Serial
    <2> QED  BY <1>3, <2>5, <2>6 DEF Exclusive, ActivatingDraft, memory, Status
  <1>4. CASE AfterFill(p)
    BY <1>0, <1>4, SerialGotActive DEF AfterFill, Resumes, Exclusive
  <1>5. CASE AfterSupersede(p)
    <2>1. req[p].op = "activate" /\ \A i \in Policy : Status(i) # "active"
      BY <1>0, <1>5 DEF AfterSupersede, Resumes, HeldOK, Exclusive
    <2> QED  BY <1>5, <2>1, SerialActivated DEF AfterSupersede
  <1>6. CASE AfterInvalidate(p) \/ AfterSet(p)
    <2>1. CASE Await(p, req[p], "set")
      <3>1. req'[p] = [req[p] EXCEPT !.at = "set", !.replied = FALSE]
        BY <1>0, <2>1, AwaitType DEF Points
      <3>2. req'[p].at = "set"
        BY <1>0, <3>1 DEF Request
      <3> QED  BY <1>6, <3>2, NotActivating DEF AfterInvalidate, AfterSet, memory, Exclusive, Status
    <2>2. CASE Return(p)
      <3>1. req'[p].at = "idle"
        BY <1>0, <2>2, ReturnType DEF Idle
      <3> QED  BY <1>6, <3>1, NotActivating DEF AfterInvalidate, AfterSet, memory, Exclusive, Status
    <2> QED  BY <1>6, <2>1, <2>2 DEF AfterInvalidate, AfterSet
  <1> QED  BY <1>1, <1>2, <1>3, <1>4, <1>5, <1>6 DEF Resume, AfterGet, Resumes

LEMMA SerialStart ==
    ASSUME IInv, Serial, Exclusive, NEW p \in Proc,
           \/ CreatePolicy(p) \/ GetActivePolicy(p) \/ ArchiveOldPolicies(p)
           \/ \E i \in Policy : \/ ActivatePolicy(p, i) \/ DeactivatePolicy(p, i)
                                \/ UpdatePolicy(p, i) \/ EvaluateCalibration(p, i)
    PROVE  Exclusive'
  <1>0. req \in [Proc -> Request] /\ policies \in [Policy -> Record] /\ TypeOK
    BY DEF IInv, TypeOK, Record
  <1>1. CASE CreatePolicy(p)
    BY <1>1, SerialCreated DEF CreatePolicy
  <1>2. CASE GetActivePolicy(p)
    <2>1. PICK op \in {"get", "calibrate"} : Await(p, [Idle EXCEPT !.op = op], "get")
      BY <1>2 DEF GetActivePolicy
    <2> DEFINE r == [Idle EXCEPT !.op = op]
    <2>2. r \in Request /\ r.op # "activate"
      BY ConstantTypes DEF Idle, Request
    <2>3. Await(p, r, "get")
      BY <2>1
    <2> HIDE DEF r
    <2>4. req'[p] = [r EXCEPT !.at = "get", !.replied = FALSE]
      BY <1>0, <2>2, <2>3, AwaitType DEF Points
    <2>5. req'[p].at = "get" /\ req'[p].op # "activate"
      BY <2>2, <2>4 DEF Request
    <2>6. \A q \in Proc : q = p
      BY DEF Serial
    <2> QED  BY <1>2, <2>5, <2>6 DEF GetActivePolicy, Exclusive, ActivatingDraft, memory, Status
  <1>3. ASSUME NEW i \in Policy, ActivatePolicy(p, i)
        PROVE  Exclusive'
    <2> DEFINE r == [Idle EXCEPT !.op = "activate", !.id = i, !.policy = Stored(i)]
    <2>1. r \in Request /\ r.id = i
      BY <1>0, ConstantTypes, StoredType DEF Idle, Request
    <2>2. Await(p, r, "get")
      BY <1>3 DEF ActivatePolicy
    <2> HIDE DEF r
    <2>3. req'[p] = [r EXCEPT !.at = "get", !.replied = FALSE]
      BY <1>0, <2>1, <2>2, AwaitType DEF Points
    <2>4. req'[p].at = "get" /\ req'[p].id = i
      BY <2>1, <2>3 DEF Request
    <2>5. \A q \in Proc : q = p
      BY DEF Serial
    <2> QED  BY <1>3, <2>4, <2>5 DEF ActivatePolicy, Exclusive, ActivatingDraft, memory, Status
  <1>4. ASSUME NEW i \in Policy, DeactivatePolicy(p, i)
        PROVE  Exclusive'
    <2>1. [Idle EXCEPT !.op = "deactivate"] \in Request
      BY ConstantTypes DEF Idle, Request
    <2>2. req'[p] = [[Idle EXCEPT !.op = "deactivate"] EXCEPT !.at = "invalidate", !.replied = FALSE]
      BY <1>0, <1>4, <2>1, AwaitType DEF DeactivatePolicy, Points
    <2>3. req'[p].at = "invalidate"
      BY <2>1, <2>2 DEF Request
    <2> QED  BY <1>4, <2>3, SerialDeactivated, NotActivating DEF DeactivatePolicy
  <1>5. CASE ArchiveOldPolicies(p) \/ \E i \in Policy : UpdatePolicy(p, i) \/ EvaluateCalibration(p, i)
    <2>1. req'[p].at = "idle" /\ active_id' = active_id
      BY <1>5 DEF ArchiveOldPolicies, UpdatePolicy, EvaluateCalibration, Idle
    <2>2. \A i \in Policy : policies'[i].status = "active" => Status(i) = "active"
      <3>1. ASSUME ArchiveOldPolicies(p), NEW i \in Policy, policies'[i].status = "active"
            PROVE  Status(i) = "active"
        BY <1>0, <3>1 DEF ArchiveOldPolicies, Status, Record
      <3>2. ASSUME NEW i \in Policy, UpdatePolicy(p, i) \/ EvaluateCalibration(p, i)
            PROVE  \A j \in Policy : policies'[j].status = Status(j)
        BY <1>0, <3>2 DEF UpdatePolicy, EvaluateCalibration, Status, Record
      <3> QED  BY <1>5, <3>1, <3>2
    <2> QED  BY <2>1, <2>2, NotActivating DEF Exclusive
  <1> QED  BY <1>1, <1>2, <1>3, <1>4, <1>5

LEMMA NextExclusive ==
    ASSUME IInv, Serial, Exclusive, [Next]_vars
    PROVE  Exclusive'
  <1>1. CASE Restart
    BY <1>1 DEF Restart, Exclusive, ActivatingDraft, Idle, Status
  <1>2. CASE CacheExpires \/ UNCHANGED vars
    BY <1>2, SerialSameMemory DEF CacheExpires, vars, memory
  <1> QED  BY <1>1, <1>2, SerialRedis, SerialResume, SerialStart DEF Next

\* One request at a time (which is what a service without Redis does), whatever
\* Redis answers or drops and however often the service restarts: activating a
\* policy leaves no other policy active.
THEOREM PolicySerialOneActive ==
    ASSUME \A p, q \in Proc : p = q
    PROVE  Spec => []AtMostOneActive
  <1>1. Init => Exclusive
    BY DEF Init, Exclusive, ActivatingDraft, Idle, Status
  <1>2. IInv /\ Exclusive /\ [Next]_vars => Exclusive'
    BY NextExclusive DEF Serial
  <1>3. Exclusive => AtMostOneActive
    BY DEF Exclusive, AtMostOneActive
  <1> QED  BY <1>1, <1>2, <1>3, InitIInv, NextIInv, PTL DEF Spec
-----------------------------------------------------------------------------
\* One request at a time: what its steps do.

\* The policies that were in force, and those that are no longer.
Gone == {i \in Policy : Status(i) \in {"inactive", "archived"}}

\* While activate_policy waits for the cache, the policy it deactivated is the one it
\* found, and none is in force.
Gap ==
    \A p \in Proc : req[p].at = "supersede" =>
        /\ req[p].found.id \in Policy /\ Status(req[p].found.id) = "inactive"
        /\ active_id = 0

\* The step stores, changes or archives policies without putting one in force.
Stays(p) ==
    /\ active_id' = active_id
    /\ \A i \in Policy : i \in Gone <=> policies'[i].status \in {"inactive", "archived"}
    /\ req[p].at # "supersede" /\ req'[p].at # "supersede"

Waits(p) ==
    /\ UNCHANGED memory
    /\ req[p].at = "supersede" /\ req'[p].at = "supersede"
    /\ req'[p].found = req[p].found

Withdraws(p) ==
    /\ \E i \in Policy : DeactivateStored(i)
    /\ req[p].at # "supersede" /\ req'[p].at # "supersede"

Opens(p) ==
    /\ req[p].found.id \in Policy /\ DeactivateStored(req[p].found.id)
    /\ req[p].at # "supersede" /\ req'[p].at = "supersede"
    /\ req'[p].found = req[p].found

Activates(p) ==
    /\ req[p].id \in Policy /\ Status(req[p].id) = "draft"
    /\ active_id' = req[p].id
    /\ \A j \in Policy :
          policies'[j].status = IF j = req[p].id THEN "active" ELSE Status(j)
    /\ \A i \in Policy : Status(i) # "active"
    /\ req'[p].at = "invalidate"

SerialMove(p) == Stays(p) \/ Waits(p) \/ Withdraws(p) \/ Opens(p) \/ Activates(p)

\* The request after each of the ways GotActive may end.
LEMMA ActivatedRequest ==
    ASSUME TypeOK, NEW p \in Proc, StoreActivated(p)
    PROVE  /\ req'[p].at = "invalidate" /\ ~req'[p].replied
           /\ req'[p].op = req[p].op /\ req'[p].id = req[p].id
           /\ active_id' = req[p].id
           /\ \A j \in Policy :
                 policies'[j].status = IF j = req[p].id THEN "active" ELSE Status(j)
  <1> DEFINE activated == [req[p].policy EXCEPT !.status = "active"]
             r == [req[p] EXCEPT !.policy = activated]
  <1>1. policies \in [Policy -> Record] /\ req \in [Proc -> Request] /\ req[p] \in Request
    BY DEF TypeOK, Record
  <1>2. activated \in Copy
    BY <1>1 DEF Request, Copy, PolicyStatus
  <1>3. r \in Request /\ r.op = req[p].op /\ r.id = req[p].id
    BY <1>1, <1>2 DEF Request
  <1>4. Await(p, r, "invalidate")
    BY DEF StoreActivated
  <1> HIDE DEF r
  <1>5. req'[p] = [r EXCEPT !.at = "invalidate", !.replied = FALSE]
    BY <1>1, <1>3, <1>4, AwaitType DEF Points
  <1>6. /\ req'[p].at = "invalidate" /\ ~req'[p].replied
        /\ req'[p].op = req[p].op /\ req'[p].id = req[p].id
    BY <1>3, <1>5 DEF Request
  <1>7. /\ active_id' = req[p].id
        /\ \A j \in Policy :
              policies'[j].status = IF j = req[p].id THEN "active" ELSE Status(j)
    BY <1>1 DEF StoreActivated, Status
  <1> QED  BY <1>6, <1>7

LEMMA CreatedRequest ==
    ASSUME TypeOK, NEW p \in Proc, NEW op \in Ops, NEW point \in Points,
           Await(p, [Idle EXCEPT !.op = op], point)
    PROVE  req'[p].at = point /\ ~req'[p].replied /\ req'[p].op = op
  <1> DEFINE r == [Idle EXCEPT !.op = op]
  <1>1. r \in Request /\ r.op = op
    BY ConstantTypes DEF Idle, Request, Ops
  <1>2. Await(p, r, point)
    OBVIOUS
  <1>3. req \in [Proc -> Request]
    BY DEF TypeOK
  <1> HIDE DEF r
  <1>4. req'[p] = [r EXCEPT !.at = point, !.replied = FALSE]
    BY <1>2, <1>3 DEF Await
  <1> QED  BY <1>1, <1>4 DEF Request

LEMMA MovedRequest ==
    ASSUME TypeOK, NEW p \in Proc, NEW point \in Points, Await(p, req[p], point)
    PROVE  /\ req'[p].at = point /\ ~req'[p].replied
           /\ req'[p].op = req[p].op /\ req'[p].id = req[p].id
           /\ req'[p].found = req[p].found /\ req'[p].policy = req[p].policy
  <1>1. req \in [Proc -> Request] /\ req[p] \in Request
    BY DEF TypeOK
  <1>2. req'[p] = [req[p] EXCEPT !.at = point, !.replied = FALSE]
    BY <1>1, AwaitType
  <1> QED  BY <1>1, <1>2 DEF Request

LEMMA NewIsNotGone ==
    ASSUME TypeOK, StoreNew
    PROVE  \A i \in Policy : i \in Gone <=> policies'[i].status \in {"inactive", "archived"}
  <1>1. PICK n \in Policy :
           Status(n) = "none" /\ policies' = [policies EXCEPT ![n].status = "draft"]
    BY StoreNewDoes
  <1> QED  BY <1>1 DEF TypeOK, Gone, Status

LEMMA SameMemoryGone ==
    ASSUME UNCHANGED memory
    PROVE  /\ active_id' = active_id
           /\ \A i \in Policy : i \in Gone <=> policies'[i].status \in {"inactive", "archived"}
  BY DEF memory, Gone, Status

LEMMA GotActiveMoves ==
    ASSUME IInv, Serial, Exclusive, NEW p \in Proc, NEW current \in Copy,
           req[p].at \in {"get", "fill"},
           WasActive(current),
           current = None \/ current = req[p].found,
           current = None => \A i \in Policy : Status(i) # "active",
           GotActive(p, current)
    PROVE  SerialMove(p)
  <1>0. TypeOK /\ req \in [Proc -> Request] /\ req[p] \in Request /\ HeldOK(req[p])
    BY DEF IInv, TypeOK, Held
  <1>1. CASE Return(p) /\ UNCHANGED memory
    <2>1. req'[p].at = "idle"
      BY <1>0, <1>1, ReturnType DEF Idle
    <2> QED  BY <1>1, <2>1, SameMemoryGone DEF SerialMove, Stays
  <1>2. CASE req[p].op = "activate"
    <2>1. req[p].id \in Policy /\ Status(req[p].id) = "draft"
      BY <1>0, <1>2 DEF HeldOK, Exclusive, ActivatingDraft
    <2>2. current # None => current.id # req[p].id
      BY <2>1, ConstantTypes DEF WasActive
    <2>3. CASE StoreActivated(p) /\ current = None
      <3>1. Activates(p)
        BY <1>0, <2>1, <2>3, ActivatedRequest DEF Activates
      <3> QED  BY <3>1 DEF SerialMove
    <2>4. CASE /\ current # None /\ current.id \in Policy /\ DeactivateStored(current.id)
               /\ Await(p, req[p], "supersede")
      <3>1. req'[p].at = "supersede" /\ req'[p].found = req[p].found
        BY <1>0, <2>4, MovedRequest DEF Points
      <3>2. current = req[p].found
        BY <2>4
      <3>3. Opens(p)
        BY <2>4, <3>1, <3>2 DEF Opens
      <3> QED  BY <3>3 DEF SerialMove
    <2> QED  BY <1>1, <1>2, <2>2, <2>3, <2>4 DEF GotActive, Supersede
  <1>3. CASE /\ StoreNew /\ UNCHANGED active_id
             /\ Await(p, [Idle EXCEPT !.op = "create"], "invalidate")
    <2>1. req'[p].at = "invalidate"
      BY <1>0, <1>3, CreatedRequest DEF Ops, Points
    <2>2. Stays(p)
      BY <1>0, <1>3, <2>1, NewIsNotGone DEF Stays
    <2> QED  BY <2>2 DEF SerialMove
  <1> QED  BY <1>1, <1>2, <1>3 DEF GotActive

LEMMA RedisMoves ==
    ASSUME IInv, NEW p \in Proc, Redis(p)
    PROVE  SerialMove(p)
  <1>0. UNCHANGED memory /\ req \in [Proc -> Request] /\ req[p] \in Request
    BY DEF IInv, TypeOK, Redis, RedisGet, RedisSet, Sent, RedisDelete
  <1>1. CASE RedisGet(p)
    <2>1. PICK answer : req' = [req EXCEPT ![p].found = answer, ![p].replied = TRUE]
      BY <1>1 DEF RedisGet
    <2>2. req'[p].at = "get" /\ req[p].at = "get"
      BY <1>0, <1>1, <2>1 DEF RedisGet, Request
    <2> QED  BY <1>0, <2>2, SameMemoryGone DEF SerialMove, Stays
  <1>2. CASE RedisSet(p) \/ RedisDelete(p)
    <2>1. req' = [req EXCEPT ![p].replied = TRUE]
      BY <1>2 DEF RedisSet, Sent, RedisDelete
    <2>2. req'[p].at = req[p].at /\ req'[p].found = req[p].found
      BY <1>0, <2>1 DEF Request
    <2> QED  BY <1>0, <2>2, SameMemoryGone DEF SerialMove, Stays, Waits
  <1> QED  BY <1>1, <1>2 DEF Redis

LEMMA ResumeMoves ==
    ASSUME IInv, Serial, Exclusive, NEW p \in Proc, Resume(p)
    PROVE  SerialMove(p)
  <1>0. /\ req \in [Proc -> Request] /\ req[p] \in Request /\ HeldOK(req[p]) /\ TypeOK
        /\ ActiveIdIsActive /\ WasActive(req[p].found) /\ req[p].found \in Copy
        /\ None \in Copy /\ WasActive(None)
    BY ConstantTypes, IdleHeld DEF IInv, TypeOK, Held, HeldOK, Request
  <1>1. CASE AfterGet(p) /\ req[p].found # None /\ GotActive(p, req[p].found)
    BY <1>0, <1>1, GotActiveMoves DEF AfterGet, Resumes
  <1>2. CASE AfterGet(p) /\ ActiveInMemory = {} /\ GotActive(p, None)
    <2>1. active_id = 0
      BY <1>2 DEF ActiveInMemory
    <2>2. \A i \in Policy : Status(i) # "active"
      BY <2>1, ConstantTypes DEF Exclusive
    <2> QED  BY <1>0, <1>2, <2>2, GotActiveMoves DEF AfterGet, Resumes
  <1>3. ASSUME NEW c \in ActiveInMemory, Await(p, [req[p] EXCEPT !.found = c], "fill"),
               UNCHANGED memory, req[p].at = "get"
        PROVE  SerialMove(p)
    <2> DEFINE r == [req[p] EXCEPT !.found = c]
    <2>1. c \in Copy
      BY <1>0, ActiveInMemoryIs, StoredType DEF Active
    <2>2. r \in Request
      BY <1>0, <2>1 DEF Request
    <2>3. Await(p, r, "fill")
      BY <1>3
    <2> HIDE DEF r
    <2>4. req'[p] = [r EXCEPT !.at = "fill", !.replied = FALSE]
      BY <1>0, <2>2, <2>3, AwaitType DEF Points
    <2>5. req'[p].at = "fill"
      BY <2>2, <2>4 DEF Request
    <2> QED  BY <1>3, <2>5, SameMemoryGone DEF SerialMove, Stays
  <1>4. CASE AfterFill(p)
    BY <1>0, <1>4, GotActiveMoves DEF AfterFill, Resumes, Exclusive
  <1>5. CASE AfterSupersede(p)
    <2>1. req[p].op = "activate" /\ \A i \in Policy : Status(i) # "active"
      BY <1>0, <1>5 DEF AfterSupersede, Resumes, HeldOK, Exclusive
    <2>2. req[p].id \in Policy /\ Status(req[p].id) = "draft"
      BY <1>0, <1>5, <2>1 DEF AfterSupersede, Resumes, HeldOK, Exclusive, ActivatingDraft
    <2>3. Activates(p)
      BY <1>0, <1>5, <2>1, <2>2, ActivatedRequest DEF AfterSupersede, Activates
    <2> QED  BY <2>3 DEF SerialMove
  <1>6. CASE AfterInvalidate(p) \/ AfterSet(p)
    <2>1. UNCHANGED memory /\ req[p].at # "supersede"
      BY <1>6 DEF AfterInvalidate, AfterSet, Resumes
    <2>2. req'[p].at # "supersede"
      BY <1>0, <1>6, MovedRequest, ReturnType DEF AfterInvalidate, AfterSet, Points, Idle
    <2> QED  BY <2>1, <2>2, SameMemoryGone DEF SerialMove, Stays
  <1> QED  BY <1>1, <1>2, <1>3, <1>4, <1>5, <1>6 DEF Resume, AfterGet, Resumes

LEMMA StartMoves ==
    ASSUME IInv, NEW p \in Proc,
           \/ CreatePolicy(p) \/ GetActivePolicy(p) \/ ArchiveOldPolicies(p)
           \/ \E i \in Policy : \/ ActivatePolicy(p, i) \/ DeactivatePolicy(p, i)
                                \/ UpdatePolicy(p, i) \/ EvaluateCalibration(p, i)
    PROVE  SerialMove(p)
  <1>0. /\ req \in [Proc -> Request] /\ policies \in [Policy -> Record] /\ TypeOK
        /\ req[p].at # "supersede"
    <2>1. req[p] = Idle
      BY DEF CreatePolicy, GetActivePolicy, ArchiveOldPolicies, ActivatePolicy,
             DeactivatePolicy, UpdatePolicy, EvaluateCalibration
    <2>2. Idle.at # "supersede"
      BY DEF Idle
    <2> QED  BY <2>1, <2>2 DEF IInv, TypeOK, Record
  <1>1. CASE CreatePolicy(p)
    <2>1. req'[p].at = "invalidate"
      BY <1>0, <1>1, CreatedRequest DEF CreatePolicy, Ops, Points
    <2> QED  BY <1>0, <1>1, <2>1, NewIsNotGone DEF CreatePolicy, SerialMove, Stays
  <1>2. CASE GetActivePolicy(p)
    <2>1. PICK op \in {"get", "calibrate"} : Await(p, [Idle EXCEPT !.op = op], "get")
      BY <1>2 DEF GetActivePolicy
    <2>2. req'[p].at = "get"
      BY <1>0, <2>1, CreatedRequest DEF Ops, Points
    <2> QED  BY <1>0, <1>2, <2>2, SameMemoryGone DEF GetActivePolicy, SerialMove, Stays
  <1>3. ASSUME NEW i \in Policy, ActivatePolicy(p, i)
        PROVE  SerialMove(p)
    <2> DEFINE r == [Idle EXCEPT !.op = "activate", !.id = i, !.policy = Stored(i)]
    <2>1. r \in Request
      BY <1>0, ConstantTypes, StoredType DEF Idle, Request
    <2>2. Await(p, r, "get")
      BY <1>3 DEF ActivatePolicy
    <2> HIDE DEF r
    <2>3. req'[p] = [r EXCEPT !.at = "get", !.replied = FALSE]
      BY <1>0, <2>1, <2>2, AwaitType DEF Points
    <2>4. req'[p].at = "get"
      BY <2>1, <2>3 DEF Request
    <2> QED  BY <1>0, <1>3, <2>4, SameMemoryGone DEF ActivatePolicy, SerialMove, Stays
  <1>4. ASSUME NEW i \in Policy, DeactivatePolicy(p, i)
        PROVE  SerialMove(p)
    <2>1. req'[p].at = "invalidate"
      BY <1>0, <1>4, CreatedRequest DEF DeactivatePolicy, Ops, Points
    <2> QED  BY <1>0, <1>4, <2>1 DEF DeactivatePolicy, SerialMove, Withdraws
  <1>5. CASE ArchiveOldPolicies(p) \/ \E i \in Policy : UpdatePolicy(p, i) \/ EvaluateCalibration(p, i)
    <2>1. req'[p].at # "supersede" /\ active_id' = active_id
      BY <1>0, <1>5 DEF ArchiveOldPolicies, UpdatePolicy, EvaluateCalibration
    <2>2. \A i \in Policy : i \in Gone <=> policies'[i].status \in {"inactive", "archived"}
      <3>1. CASE ArchiveOldPolicies(p)
        BY <1>0, <3>1 DEF ArchiveOldPolicies, Gone, Status, Record
      <3>2. ASSUME NEW i \in Policy, UpdatePolicy(p, i) \/ EvaluateCalibration(p, i)
            PROVE  \A j \in Policy : policies'[j].status = Status(j)
        BY <1>0, <3>2 DEF UpdatePolicy, EvaluateCalibration, Status, Record
      <3> QED  BY <1>5, <3>1, <3>2 DEF Gone
    <2> QED  BY <1>0, <2>1, <2>2 DEF SerialMove, Stays
  <1> QED  BY <1>1, <1>2, <1>3, <1>4, <1>5

LEMMA NextMoves ==
    ASSUME IInv, Serial, Exclusive, [Next]_vars
    PROVE  \/ Restart
           \/ UNCHANGED <<memory, req>>
           \/ \E p \in Proc : SerialMove(p)
  <1>1. CASE CacheExpires \/ UNCHANGED vars
    BY <1>1 DEF CacheExpires, vars, memory
  <1> QED  BY <1>1, RedisMoves, ResumeMoves, StartMoves DEF Next

\* Deactivation of the policy in force leaves none in force.
LEMMA DeactivatedGone ==
    ASSUME IInv, Exclusive, NEW i \in Policy, DeactivateStored(i)
    PROVE  /\ active_id = i /\ i # 0 /\ active_id' = 0
           /\ i \notin Gone
           /\ policies'[i].status = "inactive"
           /\ \A j \in Policy :
                 policies'[j].status \in {"inactive", "archived"} <=> j \in Gone \cup {i}
  <1>1. policies \in [Policy -> Record]
    BY DEF IInv, TypeOK, Record
  <1>2. \A j \in Policy : policies'[j].status = IF j = i THEN "inactive" ELSE Status(j)
    BY <1>1 DEF DeactivateStored, Status, Record
  <1> QED  BY <1>2, ConstantTypes DEF Exclusive, DeactivateStored, Gone

LEMMA NextGap ==
    ASSUME IInv, Serial, Exclusive, Gap, [Next]_vars
    PROVE  Gap'
  <1>1. CASE Restart
    BY <1>1 DEF Restart, Gap, Idle
  <1>2. CASE UNCHANGED <<memory, req>>
    BY <1>2 DEF Gap, memory, Status
  <1>3. ASSUME NEW p \in Proc, SerialMove(p)
        PROVE  Gap'
    <2> SUFFICES ASSUME req'[p].at = "supersede"
                 PROVE  /\ req'[p].found.id \in Policy
                        /\ policies'[req'[p].found.id].status = "inactive"
                        /\ active_id' = 0
      BY DEF Gap, Status, Serial
    <2>1. CASE Waits(p)
      BY <2>1 DEF Waits, Gap, memory, Status
    <2>2. CASE Opens(p)
      BY <2>2, DeactivatedGone DEF Opens
    <2> QED  BY <1>3, <2>1, <2>2 DEF SerialMove, Stays, Withdraws, Activates
  <1> QED  BY <1>1, <1>2, <1>3, NextMoves

-----------------------------------------------------------------------------
\* The register: which policy is in force, and which ones were.

InForce == IF Superseded = {} THEN active_id ELSE CHOOSE i \in Superseded : TRUE
Withdrawn == {i \in Policy : Status(i) \in {"inactive", "archived"}} \ Superseded

LEMMA OutsideGap ==
    /\ (\A p \in Proc : req[p].at # "supersede") => InForce = active_id /\ Withdrawn = Gone
    /\ (\A p \in Proc : req'[p].at # "supersede") => InForce' = active_id' /\ Withdrawn' = Gone'
  BY DEF InForce, Withdrawn, Gone, Superseded

LEMMA InsideGap ==
    ASSUME Serial, NEW p \in Proc
    PROVE  /\ req[p].at = "supersede" =>
                 InForce = req[p].found.id /\ Withdrawn = Gone \ {req[p].found.id}
           /\ req'[p].at = "supersede" =>
                 InForce' = req'[p].found.id /\ Withdrawn' = Gone' \ {req'[p].found.id}
  <1>1. ASSUME req[p].at = "supersede"
        PROVE  InForce = req[p].found.id /\ Withdrawn = Gone \ {req[p].found.id}
    <2>1. Superseded = {req[p].found.id}
      BY <1>1 DEF Superseded, Serial
    <2> QED  BY <2>1 DEF InForce, Withdrawn, Gone
  <1>2. ASSUME req'[p].at = "supersede"
        PROVE  InForce' = req'[p].found.id /\ Withdrawn' = Gone' \ {req'[p].found.id}
    <2>1. Superseded' = {req'[p].found.id}
      BY <1>2 DEF Superseded, Serial
    <2> QED  BY <2>1 DEF InForce, Withdrawn, Gone
  <1> QED  BY <1>1, <1>2

\* Each move is a step of the register, or leaves it as it is.
LEMMA MoveRegister ==
    ASSUME IInv, Serial, Exclusive, Gap, NEW p \in Proc, SerialMove(p)
    PROVE  \/ UNCHANGED <<InForce, Withdrawn>>
           \/ /\ InForce # 0 /\ InForce' = 0
              /\ Withdrawn' = Withdrawn \union ({InForce} \ {0})
           \/ \E i \in Policy :
                 /\ i # InForce /\ i \notin Withdrawn /\ InForce' = i
                 /\ Withdrawn' = Withdrawn \union ({InForce} \ {0})
  <1>0. \A q \in Proc : q = p
    BY DEF Serial
  <1>1. Gone' = {i \in Policy : policies'[i].status \in {"inactive", "archived"}}
        /\ Gone \subseteq Policy
    BY DEF Gone, Status
  <1>2. CASE Stays(p)
    <2>1. Gone' = Gone /\ active_id' = active_id
      BY <1>1, <1>2 DEF Stays
    <2> QED  BY <1>0, <1>2, <2>1, OutsideGap DEF Stays
  <1>3. CASE Waits(p)
    <2>1. Gone' = Gone
      BY <1>3 DEF Waits, memory, Gone, Status
    <2> QED  BY <1>3, <2>1, InsideGap DEF Waits
  <1>4. CASE Withdraws(p)
    <2>1. PICK i \in Policy : DeactivateStored(i)
      BY <1>4 DEF Withdraws
    <2>2. active_id = i /\ i # 0 /\ active_id' = 0 /\ Gone' = Gone \cup {i}
      BY <1>1, <2>1, DeactivatedGone
    <2> QED  BY <1>0, <1>4, <2>2, OutsideGap DEF Withdraws
  <1>5. CASE Opens(p)
    <2> DEFINE i == req[p].found.id
    <2>1. active_id = i /\ i \notin Gone /\ Gone' = Gone \cup {i}
      BY <1>1, <1>5, DeactivatedGone DEF Opens
    <2>2. InForce = i /\ Withdrawn = Gone
      BY <1>0, <1>5, <2>1, OutsideGap DEF Opens
    <2>3. InForce' = i /\ Withdrawn' = Gone' \ {i}
      BY <1>5, InsideGap DEF Opens
    <2> QED  BY <2>1, <2>2, <2>3
  <1>6. CASE Activates(p)
    <2> DEFINE i == req[p].id
    <2>1. i \in Policy /\ i # 0 /\ i \notin Gone /\ Gone' = Gone
      BY <1>1, <1>6, ConstantTypes DEF Activates, Gone
    <2>2. InForce' = i /\ Withdrawn' = Gone
      BY <1>0, <1>6, <2>1, OutsideGap DEF Activates
    <2>3. CASE req[p].at = "supersede"
      <3> DEFINE k == req[p].found.id
      <3>1. InForce = k /\ Withdrawn = Gone \ {k}
        BY <2>3, InsideGap
      <3>2. k \in Policy /\ Status(k) = "inactive" /\ k \in Gone /\ k # 0
        BY <2>3, ConstantTypes DEF Gap, Gone
      <3> QED  BY <2>1, <2>2, <3>1, <3>2
    <2>4. CASE req[p].at # "supersede"
      <3>1. InForce = active_id /\ Withdrawn = Gone
        BY <1>0, <2>4, OutsideGap
      <3>2. active_id = 0
        BY <1>6, ConstantTypes DEF Activates, IInv, ActiveIdIsActive, TypeOK, Policy
      <3> QED  BY <2>1, <2>2, <3>1, <3>2
    <2> QED  BY <2>3, <2>4
  <1> QED  BY <1>2, <1>3, <1>4, <1>5, <1>6 DEF SerialMove

LEMMA NextRegister ==
    ASSUME IInv, Serial, Exclusive, Gap, [Next]_vars, ~Restart
    PROVE  [Register!Next]_(Register!vars)
  <1>1. CASE UNCHANGED <<memory, req>>
    BY <1>1 DEF memory, Superseded, Status, Register!vars
  <1>2. ASSUME NEW p \in Proc, SerialMove(p)
        PROVE  [Register!Next]_(Register!vars)
    BY <1>2, MoveRegister DEF InForce, Withdrawn, Register!Next, Register!TakeOver,
                              Register!Withdraw, Register!Leaves, Register!vars
  <1> QED  BY <1>1, <1>2, NextMoves

\* One request at a time, whatever Redis answers or drops: until the service restarts
\* its policies behave as a register of the policy in force, which changes in one step
\* and never returns to a policy it left.
THEOREM PolicyImplementsRegister ==
    ASSUME \A p, q \in Proc : p = q, MaxRestarts = 0
    PROVE  Spec => ImplementsRegister
  <1>1. Init => Register!Init /\ Exclusive /\ Gap
    <2> SUFFICES ASSUME Init PROVE Register!Init /\ Exclusive /\ Gap
      OBVIOUS
    <2>1. Superseded = {}
      BY DEF Init, Superseded, Idle
    <2>2. active_id = 0 /\ \A i \in Policy : Status(i) = "none"
      BY DEF Init, Status
    <2> QED  BY <2>1, <2>2 DEF Init, Idle, Register!Init, Exclusive, ActivatingDraft, Gap
  <1>2. IInv /\ Exclusive /\ Gap /\ [Next]_vars => (IInv /\ Exclusive /\ Gap)'
    BY NextIInv, NextExclusive, NextGap DEF Serial
  <1>3. IInv /\ Exclusive /\ Gap /\ [Next]_vars => [Register!Next]_(Register!vars)
    BY NextRegister DEF Serial, Restart, IInv, TypeOK
  <1> QED  BY <1>1, <1>2, <1>3, InitIInv, PTL DEF Spec, ImplementsRegister, Register!Spec

-----------------------------------------------------------------------------
\* One request at a time and no failing Redis: the cache is only ever out of date
\* while the request that will empty or refill it is in progress.

Current == cache # None => cache.id = active_id /\ active_id # 0

Fresh ==
    /\ (\A p \in Proc : req[p].at \in {"idle", "get", "fill", "set"}) => Current
    /\ \A p \in Proc : req[p].at = "invalidate" /\ req[p].replied => Current
    /\ \A p \in Proc :
          req[p].at = "fill" => req[p].found.id = active_id /\ active_id # 0
    /\ \A p \in Proc :
          req[p].op = "activate" /\ req[p].at \in {"invalidate", "set"} => req[p].id = active_id

\* What is to be shown of the only request.
LEMMA FreshOfOne ==
    ASSUME Serial, NEW p \in Proc,
           req'[p].at \in {"idle", "get", "fill", "set"} => Current',
           req'[p].at = "invalidate" /\ req'[p].replied => Current',
           req'[p].at = "fill" => req'[p].found.id = active_id' /\ active_id' # 0,
           req'[p].op = "activate" /\ req'[p].at \in {"invalidate", "set"}
              => req'[p].id = active_id'
    PROVE  Fresh'
  <1>1. \A q \in Proc : q = p
    BY DEF Serial
  <1> QED  BY <1>1 DEF Fresh

\* The points of the handlers at which the cache is up to date.
LEMMA FreshHere ==
    ASSUME Serial, Fresh, NEW p \in Proc,
           \/ req[p].at \in {"idle", "get", "fill", "set"}
           \/ req[p].at = "invalidate" /\ req[p].replied
    PROVE  Current
  <1>1. \A q \in Proc : q = p
    BY DEF Serial
  <1> QED  BY <1>1 DEF Fresh

LEMMA SameCurrent ==
    ASSUME Current, UNCHANGED <<cache, active_id>>
    PROVE  Current'
  BY DEF Current

LEMMA RedisFresh ==
    ASSUME IInv, Serial, Exclusive, Fresh, RedisMayFail = FALSE, NEW p \in Proc, Redis(p)
    PROVE  Fresh'
  <1>0. /\ UNCHANGED memory /\ req \in [Proc -> Request] /\ req[p] \in Request
        /\ HeldOK(req[p]) /\ active_id' = active_id
    BY DEF IInv, TypeOK, Held, Redis, RedisGet, RedisSet, Sent, RedisDelete, memory
  <1>1. CASE RedisGet(p)
    <2>1. PICK answer : req' = [req EXCEPT ![p].found = answer, ![p].replied = TRUE]
      BY <1>1 DEF RedisGet
    <2>2. req'[p].at = "get" /\ req[p].at = "get"
      BY <1>0, <1>1, <2>1 DEF RedisGet, Request
    <2>3. Current'
      BY <1>0, <1>1, <2>2, FreshHere, SameCurrent DEF RedisGet
    <2> QED  BY <2>2, <2>3, FreshOfOne
  <1>2. CASE RedisSet(p) \/ RedisDelete(p)
    <2>1. req' = [req EXCEPT ![p].replied = TRUE]
      BY <1>2 DEF RedisSet, Sent, RedisDelete
    <2>2. /\ req'[p].at = req[p].at /\ req'[p].found = req[p].found
          /\ req'[p].op = req[p].op /\ req'[p].id = req[p].id
      BY <1>0, <2>1 DEF Request
    <2>3. Current'
      <3>1. CASE cache' = None
        BY <3>1 DEF Current
      <3>2. CASE req[p].at = "fill" /\ cache' = req[p].found
        BY <1>0, <3>2 DEF Fresh, Current
      <3>3. CASE req[p].at = "set" /\ cache' = req[p].policy
        <4>1. req[p].op = "activate" /\ req[p].policy.id = req[p].id /\ req[p].id \in Policy
          BY <1>0, <3>3 DEF HeldOK
        <4>2. req[p].id = active_id /\ active_id # 0
          BY <3>3, <4>1, ConstantTypes DEF Fresh
        <4> QED  BY <1>0, <3>3, <4>1, <4>2 DEF Current
      <3> QED  BY <1>2, <3>1, <3>2, <3>3 DEF RedisSet, Sent, RedisDelete
    <2> QED  BY <1>0, <2>2, <2>3, FreshOfOne DEF Fresh
  <1> QED  BY <1>1, <1>2 DEF Redis

LEMMA ActivatedFresh ==
    ASSUME IInv, Serial, NEW p \in Proc, StoreActivated(p)
    PROVE  Fresh'
  <1>1. TypeOK
    BY DEF IInv
  <1> QED  BY <1>1, ActivatedRequest, FreshOfOne

LEMMA CreatedFresh ==
    ASSUME IInv, Serial, NEW p \in Proc, NEW op \in {"create", "deactivate"},
           Await(p, [Idle EXCEPT !.op = op], "invalidate")
    PROVE  Fresh'
  <1>1. req'[p].at = "invalidate" /\ ~req'[p].replied /\ req'[p].op = op
    BY CreatedRequest DEF IInv, Ops, Points
  <1> QED  BY <1>1, FreshOfOne

LEMMA ReturnedFresh ==
    ASSUME IInv, Serial, NEW p \in Proc, Return(p), Current, UNCHANGED <<memory, cache>>
    PROVE  Fresh'
  <1>1. req'[p].at = "idle"
    BY ReturnType DEF IInv, TypeOK, Idle
  <1>2. Current'
    BY SameCurrent DEF memory
  <1> QED  BY <1>1, <1>2, FreshOfOne

LEMMA GotActiveFresh ==
    ASSUME IInv, Serial, Current, NEW p \in Proc, NEW current, GotActive(p, current)
    PROVE  Fresh'
  <1>1. CASE Return(p) /\ UNCHANGED <<memory, cache>>
    BY <1>1, ReturnedFresh
  <1>2. CASE StoreActivated(p)
    BY <1>2, ActivatedFresh
  <1>3. CASE Await(p, req[p], "supersede")
    <2>1. req'[p].at = "supersede"
      BY <1>3, MovedRequest DEF IInv, Points
    <2> QED  BY <2>1, FreshOfOne
  <1>4. CASE Await(p, [Idle EXCEPT !.op = "create"], "invalidate")
    BY <1>4, CreatedFresh
  <1> QED  BY <1>1, <1>2, <1>3, <1>4 DEF GotActive, Supersede

LEMMA ResumeFresh ==
    ASSUME IInv, Serial, Exclusive, Fresh, NEW p \in Proc, Resume(p)
    PROVE  Fresh'
  <1>0. req \in [Proc -> Request] /\ req[p] \in Request /\ TypeOK /\ ActiveIdIsActive
    BY DEF IInv, TypeOK
  <1>1. CASE AfterGet(p)
    <2>1. req[p].at = "get" /\ Current
      BY <1>1, FreshHere DEF AfterGet, Resumes
    <2>2. ASSUME NEW c \in ActiveInMemory, Await(p, [req[p] EXCEPT !.found = c], "fill"),
                 UNCHANGED <<memory, cache>>
          PROVE  Fresh'
      <3> DEFINE r == [req[p] EXCEPT !.found = c]
      <3>1. c \in Copy /\ c.id = active_id /\ active_id # 0
        <4>1. PICK i \in Active : c = Stored(i)
          BY <1>0, ActiveInMemoryIs
        <4>2. i \in Policy /\ active_id = i
          BY <4>1 DEF Exclusive, Active
        <4> QED  BY <1>0, <4>1, <4>2, StoredType, ConstantTypes
      <3>2. r \in Request /\ r.found = c /\ r.op = req[p].op
        BY <1>0, <3>1 DEF Request
      <3>3. Await(p, r, "fill")
        BY <2>2
      <3> HIDE DEF r
      <3>4. req'[p] = [r EXCEPT !.at = "fill", !.replied = FALSE]
        BY <1>0, <3>2, <3>3, AwaitType DEF Points
      <3>5. req'[p].at = "fill" /\ req'[p].found = c
        BY <3>2, <3>4 DEF Request
      <3>6. Current' /\ active_id' = active_id
        BY <2>1, <2>2, SameCurrent DEF memory
      <3> QED  BY <3>1, <3>5, <3>6, FreshOfOne
    <2> QED  BY <1>1, <2>1, <2>2, GotActiveFresh DEF AfterGet
  <1>2. CASE AfterFill(p)
    BY <1>2, FreshHere, GotActiveFresh DEF AfterFill, Resumes
  <1>3. CASE AfterSupersede(p)
    BY <1>3, ActivatedFresh DEF AfterSupersede
  <1>4. CASE AfterInvalidate(p) \/ AfterSet(p)
    <2>1. Current /\ UNCHANGED <<memory, cache>>
      BY <1>4, FreshHere DEF AfterInvalidate, AfterSet, Resumes
    <2>2. CASE Return(p)
      BY <2>1, <2>2, ReturnedFresh
    <2>3. CASE req[p].at = "invalidate" /\ req[p].op = "activate" /\ Await(p, req[p], "set")
      <3>1. req'[p].at = "set" /\ req'[p].id = req[p].id
        BY <1>0, <2>3, MovedRequest DEF Points
      <3>2. Current' /\ active_id' = active_id /\ req[p].id = active_id
        BY <2>1, <2>3, SameCurrent DEF memory, Fresh
      <3> QED  BY <3>1, <3>2, FreshOfOne
    <2> QED  BY <1>4, <2>2, <2>3 DEF AfterInvalidate, AfterSet, Resumes
  <1> QED  BY <1>1, <1>2, <1>3, <1>4 DEF Resume

LEMMA StartFresh ==
    ASSUME IInv, Serial, Fresh, NEW p \in Proc,
           \/ CreatePolicy(p) \/ GetActivePolicy(p) \/ ArchiveOldPolicies(p)
           \/ \E i \in Policy : \/ ActivatePolicy(p, i) \/ DeactivatePolicy(p, i)
                                \/ UpdatePolicy(p, i) \/ EvaluateCalibration(p, i)
    PROVE  Fresh'
  <1>0. TypeOK /\ req \in [Proc -> Request]
    BY DEF IInv, TypeOK
  <1>1. req[p] = Idle
    BY DEF CreatePolicy, GetActivePolicy, ArchiveOldPolicies, ActivatePolicy,
           DeactivatePolicy, UpdatePolicy, EvaluateCalibration
  <1>2. req[p].at = "idle" /\ Current
    <2>1. req[p].at = "idle"
      BY <1>1 DEF Idle
    <2> QED  BY <2>1, FreshHere
  <1>3. CASE CreatePolicy(p) \/ \E i \in Policy : DeactivatePolicy(p, i)
    BY <1>3, CreatedFresh DEF CreatePolicy, DeactivatePolicy
  <1>4. ASSUME NEW r \in Request, Await(p, r, "get"), UNCHANGED <<memory, cache>>
        PROVE  Fresh'
    <2>1. req'[p].at = "get"
      <3>1. req'[p] = [r EXCEPT !.at = "get", !.replied = FALSE]
        BY <1>0, <1>4 DEF Await
      <3> QED  BY <3>1 DEF Request
    <2>2. Current'
      BY <1>2, <1>4, SameCurrent DEF memory
    <2> QED  BY <2>1, <2>2, FreshOfOne
  <1>5. CASE GetActivePolicy(p)
    <2>1. \A op \in Ops : [Idle EXCEPT !.op = op] \in Request
      BY ConstantTypes DEF Idle, Request, Ops
    <2> QED  BY <1>4, <1>5, <2>1 DEF GetActivePolicy, Ops
  <1>6. ASSUME NEW i \in Policy, ActivatePolicy(p, i)
        PROVE  Fresh'
    <2>1. [Idle EXCEPT !.op = "activate", !.id = i, !.policy = Stored(i)] \in Request
      BY <1>0, ConstantTypes, StoredType DEF Idle, Request
    <2> QED  BY <1>4, <1>6, <2>1 DEF ActivatePolicy
  <1>7. CASE ArchiveOldPolicies(p) \/ \E i \in Policy : UpdatePolicy(p, i) \/ EvaluateCalibration(p, i)
    <2>1. UNCHANGED <<active_id, cache, req>>
      BY <1>7 DEF ArchiveOldPolicies, UpdatePolicy, EvaluateCalibration
    <2>2. Current'
      BY <1>2, <2>1, SameCurrent
    <2> QED  BY <1>2, <2>1, <2>2, FreshOfOne
  <1> QED  BY <1>3, <1>5, <1>6, <1>7

LEMMA NextFresh ==
    ASSUME IInv, Serial, Exclusive, Fresh, RedisMayFail = FALSE, [Next]_vars, ~Restart
    PROVE  Fresh'
  <1>1. CASE CacheExpires
    BY <1>1 DEF CacheExpires, Fresh, Current, memory
  <1>2. CASE UNCHANGED vars
    BY <1>2 DEF vars, Fresh, Current
  <1> QED  BY <1>1, <1>2, RedisFresh, ResumeFresh, StartFresh DEF Next

\* One request at a time, and Redis does what it is asked to: until the service
\* restarts, what the cache holds between requests is the policy in force.
THEOREM PolicyCacheIsActive ==
    ASSUME \A p, q \in Proc : p = q, RedisMayFail = FALSE
    PROVE  Spec => [](restarts = 0 => CacheIsActive)
  <1> DEFINE FreshUntilRestart == restarts = 0 => Fresh
  <1>1. Init => Exclusive /\ FreshUntilRestart
    BY DEF Init, Exclusive, ActivatingDraft, Idle, Status, Fresh, Current
  <1>2. IInv /\ Exclusive /\ FreshUntilRestart /\ [Next]_vars => (Exclusive /\ FreshUntilRestart)'
    <2> SUFFICES ASSUME IInv, Exclusive, FreshUntilRestart, [Next]_vars
                 PROVE  Exclusive' /\ (restarts' = 0 => Fresh')
      OBVIOUS
    <2>1. Serial
      BY DEF Serial
    <2>2. restarts' = restarts \/ (Restart /\ restarts' # 0)
      <3>1. restarts \in Nat /\ TypeOK /\ Held
        BY ManagerAssumption DEF IInv, TypeOK
      <3>2. Restart => restarts' # 0
        BY <3>1 DEF Restart
      <3> QED  BY <3>1, <3>2, StepMemory
    <2>3. restarts' = 0 => restarts = 0 /\ ~Restart
      <3>1. Restart => restarts' # restarts
        BY ManagerAssumption DEF Restart, IInv, TypeOK
      <3> QED  BY <2>2, <3>1
    <2> QED  BY <2>1, <2>3, NextExclusive, NextFresh
  <1>3. IInv /\ FreshUntilRestart => (restarts = 0 => CacheIsActive)
    <2> SUFFICES ASSUME IInv, Fresh, \A p \in Proc : req[p] = Idle, cache # None
                 PROVE  cache.id = active_id /\ Status(active_id) = cache.status
      BY DEF CacheIsActive
    <2>1. Current
      BY DEF Fresh, Idle
    <2> QED  BY <2>1 DEF Current, IInv, ActiveIdIsActive, CachedWasActive, WasActive
  <1> HIDE DEF FreshUntilRestart
  <1> QED  BY <1>1, <1>2, <1>3, InitIInv, NextIInv, PTL DEF Spec
=============================================================================
