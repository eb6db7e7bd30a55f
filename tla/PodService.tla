----------------------------- MODULE PodService -----------------------------
(***************************************************************************)
(* Pods (src/core/pod), the quota of their creator (src/core/quota) and    *)
(* the two collectors that run on every tick of the event loop: `pod:gc'   *)
(* (gcCleanup) and `health:pod:check' (src/core/events/health-check.ts).   *)
(*                                                                         *)
(* A job is one call in progress.  It stops at every await, so jobs        *)
(* interleave between the reads and the writes of a pod, of the index      *)
(* `pod:ids', of the usage counter and of the marker of a collection, and  *)
(* the calls to the provider.  A write carries the version that was read:  *)
(* the store refuses it once another job has written the same key.  Only   *)
(* the count of failed health checks, whose write nobody looks at, is read *)
(* and written in one step.                                                *)
(***************************************************************************)
EXTENDS Integers, FiniteSets, TLC

CONSTANTS Pods,
          WithInstance,  \* pods whose spec names a provider instance
          Users,         \* concurrent requests
          Collectors,    \* isolates running the two collectors
          Quota,         \* maxSandboxes of the creator, 0 for unlimited
          MaxFails,      \* failed health checks before a collection
          ProviderFails, \* may a call to the provider fail?
          MaxCalls,      \* bound on the users' calls
          MaxCrashes     \* bound on the jobs that end before their last step

ASSUME PodsAssumption == WithInstance \subseteq Pods
ASSUME JobsAssumption == Users \cap Collectors = {}
ASSUME BoundsAssumption == /\ {Quota, MaxFails, MaxCalls, MaxCrashes} \subseteq Nat
                           /\ ProviderFails \in BOOLEAN

Jobs == Users \cup Collectors
Phases == {"Pending", "Running", "Succeeded", "Failed"}
UserOps == {"provision", "stop", "start", "restart", "update", "terminate", "sync"}
CollectorOps == {"gc", "check"}

PodKey(p) == <<"pod", p>>
MarkerKey(p) == <<"marker", p>>
IndexKey == <<"index">>
UsageKey == <<"usage">>
NoKey == <<>>
Keys == {PodKey(p) : p \in Pods} \cup {MarkerKey(p) : p \in Pods}
          \cup {IndexKey, UsageKey, NoKey}

VARIABLES pod,      \* the entities `pod:<id>'
          cloud,    \* the provider's resources
          age,      \* 0, 1: 60 s since createdAt, 2: also due since updatedAt
          ids,      \* the index `pod:ids'
          usage,    \* the creator's usage.sandboxes
          made,     \* which of these two keys exist
          marker,   \* the markers `gc:pod:queued:<id>'
          fails,    \* `pod:health:fails:<id>'
          stable,   \* stableSince has the entity's updatedAt
          job,      \* the calls in progress
          calls, crashes

vars == <<pod, cloud, age, ids, usage, made, marker, fails, stable, job, calls, crashes>>

Absent == [phase |-> "none", marked |-> FALSE]
Idle == [op |-> "none", at |-> "idle", phase |-> "none", marked |-> FALSE,
         due |-> 0, key |-> NoKey, fresh |-> FALSE, seen |-> {}, tries |-> 0]

Steps == {"idle", "quota", "create", "insert", "read", "call", "describe", "status",
          "mark", "delete", "write", "indexRead", "indexWrite", "usageRead",
          "usageWrite", "health", "gate", "setMarker", "reread", "rewrite",
          "unmarkRead", "unmarkWrite"}

\* A call in progress on `pod'; phase and marked: the entity as read, then as it
\* will be written.
InProgress == [op : UserOps \cup CollectorOps, pod : Pods, at : Steps \ {"idle"},
               phase : Phases \cup {"none"}, marked : BOOLEAN, due : 0..2, key : Keys,
               fresh : BOOLEAN, seen : SUBSET Pods, tries : 0..3]

TypeOK ==
  /\ pod \in [Pods -> [phase : Phases, marked : BOOLEAN] \cup {Absent}]
  /\ cloud \in [Pods -> {"none", "pending", "up", "exited"}]
  /\ age \in [Pods -> 0..2]
  /\ ids \subseteq Pods
  /\ usage \in Nat
  /\ made \subseteq {IndexKey, UsageKey}
  /\ marker \in [Pods -> {"none", "live", "expired", "null"}]
  /\ fails \in [Pods -> 0..MaxFails]
  /\ stable \in [Collectors -> SUBSET Pods]
  /\ job \in [Jobs -> InProgress \cup {Idle}]
  /\ calls \in 0..MaxCalls
  /\ crashes \in 0..MaxCrashes

Init == /\ pod = [p \in Pods |-> Absent]
        /\ cloud = [p \in Pods |-> "none"]
        /\ age = [p \in Pods |-> 0]
        /\ ids = {} /\ usage = 0 /\ made = {}
        /\ marker = [p \in Pods |-> "none"]
        /\ fails = [p \in Pods |-> 0]
        /\ stable = [c \in Collectors |-> {}]
        /\ job = [j \in Jobs |-> Idle]
        /\ calls = 0 /\ crashes = 0

-----------------------------------------------------------------------------
\* A call of op on p at a step that is tried at most n times; it has read nothing.
Attempt(op, p, at, n) ==
  [op |-> op, pod |-> p, at |-> at, phase |-> "none", marked |-> FALSE,
   due |-> 0, key |-> NoKey, fresh |-> FALSE, seen |-> {}, tries |-> n]
Begin(op, p, at) == Attempt(op, p, at, 0)
\* The call goes on at a loop of at most n attempts; what it had read is no more.
Proceed(r, at, n) == Attempt(r.op, r.pod, at, n)

\* Job j goes on as r.
Go(j, r) == job' = [job EXCEPT ![j] = r]
To(j, at) == Go(j, [job[j] EXCEPT !.at = at])
End(j) == Go(j, Idle)

\* Job j has read `key' and goes on as r.
Reading(r, key) == [r EXCEPT !.key = key, !.fresh = TRUE]

\* Mutant: the store ignores the version a write carries.
CurrentAlways(r) == TRUE

\* The store accepts the write of a job whose version is current.
Current(r) == r.fresh

\* Job j has written `key' and goes on as r; who else has read it is outdated.
Wrote(j, key, r) ==
  job' = [i \in Jobs |-> IF i = j THEN r
                         ELSE IF job[i].key = key THEN [job[i] EXCEPT !.fresh = FALSE]
                         ELSE job[i]]

\* A best-effort call to the provider: what it does to the resource, or, if it
\* fails, perhaps nothing.
Provider(p, effect) ==
  \E failed \in IF ProviderFails THEN BOOLEAN ELSE {FALSE} :
    cloud' = IF failed THEN cloud ELSE [cloud EXCEPT ![p] = effect]

\* Every transition sets updatedAt.
Touch(p) == /\ age' = [age EXCEPT ![p] = IF @ = 0 THEN 0 ELSE 1]
            /\ stable' = [c \in Collectors |-> stable[c] \ {p}]

-----------------------------------------------------------------------------
\* PodService.provision(): quota, provider, entity, index, counter.
Provision(j, p) ==
  /\ job[j].op = "none" /\ j \in Users /\ calls < MaxCalls
  /\ pod[p] = Absent /\ cloud[p] = "none"
  /\ \A i \in Jobs : job[i].op = "provision" => job[i].pod # p
  /\ calls' = calls + 1
  /\ Go(j, Begin("provision", p, "quota"))
  /\ UNCHANGED <<pod, cloud, age, ids, usage, made, marker, fails, stable, crashes>>

\* checkQuota()
CheckQuota(j) ==
  /\ job[j].at = "quota"
  /\ IF Quota > 0 /\ usage >= Quota THEN End(j) ELSE To(j, "create")
  /\ UNCHANGED <<pod, cloud, age, ids, usage, made, marker, fails, stable, calls, crashes>>

\* Mutant: the id is indexed before the entity is stored.
IndexFirst == "indexRead"

AfterCreate == "insert"

Create(j) ==
  /\ job[j].at = "create"
  /\ \/ /\ cloud' = [cloud EXCEPT ![job[j].pod] = "pending"]
        /\ To(j, AfterCreate)
     \/ ProviderFails /\ End(j) /\ UNCHANGED cloud
  /\ UNCHANGED <<pod, age, ids, usage, made, marker, fails, stable, calls, crashes>>

Insert(j) ==
  /\ job[j].at = "insert"
  /\ pod' = [pod EXCEPT ![job[j].pod] = [phase |-> "Pending", marked |-> FALSE]]
  /\ Go(j, Proceed(job[j], "indexRead", 3))
  /\ UNCHANGED <<cloud, age, ids, usage, made, marker, fails, stable, calls, crashes>>

-----------------------------------------------------------------------------
\* stop, start, restart, update, terminate, syncRuntime; gcCleanup and one pod's
\* turn of the health check.
Call(j, op, p) ==
  /\ job[j].op = "none" /\ pod[p] # Absent
  /\ \/ j \in Users /\ op \in UserOps \ {"provision"} /\ calls < MaxCalls /\ calls' = calls + 1
     \/ j \in Collectors /\ op \in CollectorOps /\ p \in ids /\ UNCHANGED calls
  /\ Go(j, Begin(op, p, "read"))
  /\ UNCHANGED <<pod, cloud, age, ids, usage, made, marker, fails, stable, crashes>>

\* Where a job goes once it has read the entity e: `end' when it throws or
\* returns.
AfterRead(j, p, e) ==
  LET op == job[j].op IN
  CASE op = "start" -> IF e.phase \in {"Succeeded", "Failed"} THEN "call" ELSE "end"
    [] op \in {"stop", "restart", "update"} -> "call"
    [] op = "sync" -> "describe"
    [] op = "terminate" -> "mark"
    [] op = "gc" -> "status"
    [] op = "check" ->
         IF e.phase \in {"Succeeded", "Failed"} THEN IF age[p] = 2 THEN "gate" ELSE "end"
         ELSE IF e.phase = "Pending" THEN "health"
         ELSE IF p \notin WithInstance \/ (j \in Collectors /\ p \in stable[j]) THEN "end"
         ELSE "health"

\* transitionPod(): the entity as the operation will write it.
Transition(op, e) ==
  CASE op = "start" -> [phase |-> "Running", marked |-> FALSE]
    [] op = "stop" -> [phase |-> "Succeeded", marked |-> e.marked]
    [] op \in {"restart", "update"} -> [phase |-> "Running", marked |-> e.marked]
    [] op = "terminate" -> [phase |-> "Failed", marked |-> TRUE]
    [] OTHER -> e

Read(j) ==
  /\ job[j].at = "read"
  /\ LET p == job[j].pod
         next == AfterRead(j, p, pod[p])
     IN IF next = "end" THEN End(j)
        ELSE IF next = "gate" THEN Go(j, Proceed(job[j], "gate", 0))
        ELSE Go(j, Reading([job[j] EXCEPT !.at = next, !.phase = pod[p].phase,
                              !.marked = pod[p].marked,
                              !.due = IF job[j].op \in CollectorOps THEN age[p] ELSE 0],
                            PodKey(p)))
  /\ UNCHANGED <<pod, cloud, age, ids, usage, made, marker, fails, stable, calls, crashes>>

\* What provider.stop, start and restart do to a resource that exists.
Effect(op, c) == IF c = "none" \/ op = "update" THEN c
                 ELSE IF op = "stop" THEN "exited" ELSE "up"

\* stop() asks the provider before transitionPod() throws on a pod that is not
\* Running.
CallProvider(j) ==
  /\ job[j].at = "call"
  /\ LET r == job[j]
         e == Transition(r.op, [phase |-> r.phase, marked |-> r.marked])
     IN /\ Provider(r.pod, Effect(r.op, cloud[r.pod]))
        /\ IF r.op = "stop" /\ r.phase # "Running" THEN End(j)
           ELSE Go(j, [r EXCEPT !.at = "write", !.phase = e.phase, !.marked = e.marked])
  /\ UNCHANGED <<pod, age, ids, usage, made, marker, fails, stable, calls, crashes>>

\* toPodPhase()
PhasesOf(c) == CASE c = "pending" -> {"Pending"}
                 [] c = "up" -> {"Running"}
                 [] c = "exited" -> {"Succeeded", "Failed"}
                 [] c = "none" -> {}

\* syncRuntime(): describe() finds nothing, fails, or tells the phase.
Describe(j) ==
  /\ job[j].at = "describe"
  /\ \/ \E ph \in PhasesOf(cloud[job[j].pod]) :
          Go(j, [job[j] EXCEPT !.at = "write", !.phase = ph])
     \/ (cloud[job[j].pod] = "none" \/ ProviderFails) /\ End(j)
  /\ UNCHANGED <<pod, cloud, age, ids, usage, made, marker, fails, stable, calls, crashes>>

\* terminate(), step 1: set deletionTimestamp.
Mark(j) ==
  /\ job[j].at = "mark"
  /\ LET r == job[j] p == r.pod IN
     IF Current(r)
       THEN /\ pod' = [pod EXCEPT ![p] = [phase |-> r.phase, marked |-> TRUE]]
            /\ Touch(p)
            /\ Wrote(j, PodKey(p), [r EXCEPT !.at = "delete", !.phase = "Failed", !.marked = TRUE])
       ELSE End(j) /\ UNCHANGED <<pod, age, stable>>
  /\ UNCHANGED <<cloud, ids, usage, made, marker, fails, calls, crashes>>

\* Mutant: gcCleanup() looks at the phase alone.
CollectableByPhase(r) == r.due >= 1 /\ r.phase \in {"Succeeded", "Failed"}

\* A minute after its creation: finished, or marked for deletion.
Collectable(r) == r.due >= 1 /\ (r.phase \in {"Succeeded", "Failed"} \/ r.marked)

\* gcCleanup(): a resource that is gone, or whose status cannot be had, is
\* force deleted without a call to delete().
Status(j) ==
  /\ job[j].at = "status"
  /\ LET r == job[j] IN
     \/ /\ cloud[r.pod] = "none" \/ ProviderFails
        /\ Go(j, [r EXCEPT !.at = "write", !.phase = "Failed", !.marked = TRUE])
     \/ /\ cloud[r.pod] # "none"
        /\ IF Collectable(r)
             THEN Go(j, [r EXCEPT !.at = "delete",
                           !.phase = IF r.phase \in {"Succeeded", "Failed"} THEN @ ELSE "Failed"])
             ELSE End(j)
  /\ UNCHANGED <<pod, cloud, age, ids, usage, made, marker, fails, stable, calls, crashes>>

\* Mutant: dispatchPodGc() never calls the provider.
DeletesForUsers(r) == r.op # "check"

\* dispatchPodGc() makes no call for a pod without an instance.
Deletes(r) == r.op = "check" => r.pod \in WithInstance

\* provider.delete() in terminate(), gcCleanup() and dispatchPodGc().
Delete(j) ==
  /\ job[j].at = "delete"
  /\ IF Deletes(job[j]) THEN Provider(job[j].pod, "none") ELSE UNCHANGED cloud
  /\ IF job[j].op = "check" THEN Go(j, Proceed(job[j], "reread", 3))
     ELSE To(j, "write")
  /\ UNCHANGED <<pod, age, ids, usage, made, marker, fails, stable, calls, crashes>>

\* PodStore.update() with the version that was read; a conflict is a 409.
Write(j) ==
  /\ job[j].at = "write"
  /\ LET r == job[j] p == r.pod IN
     IF Current(r)
       THEN /\ pod' = [pod EXCEPT ![p] = [phase |-> r.phase, marked |-> r.marked]]
            /\ Touch(p)
            /\ Wrote(j, PodKey(p), IF r.op \in {"terminate", "gc"}
                                     THEN Proceed(r, "indexRead", 3) ELSE Idle)
       ELSE End(j) /\ UNCHANGED <<pod, age, stable>>
  /\ UNCHANGED <<cloud, ids, usage, made, marker, fails, calls, crashes>>

-----------------------------------------------------------------------------
AfterIndex(r) ==
  CASE r.op \in {"provision", "terminate"} -> Proceed(r, "usageRead", 3)
    [] r.op = "check" -> Proceed(r, "unmarkRead", 0)
    [] r.op = "gc" -> Idle

Retry(r, at, giveUp) == IF r.tries > 1 THEN Proceed(r, at, r.tries - 1) ELSE giveUp

\* addToIndex(), removeFromIndex(): up to three attempts; dispatchPodGc makes one.
\* There is nothing to remove from an index that does not exist.
IndexRead(j) ==
  /\ job[j].at = "indexRead"
  /\ IF job[j].op = "provision" \/ IndexKey \in made
       THEN Go(j, [Reading(job[j], IndexKey) EXCEPT !.at = "indexWrite", !.seen = ids])
       ELSE Go(j, Retry(job[j], "indexRead", AfterIndex(job[j])))
  /\ UNCHANGED <<pod, cloud, age, ids, usage, made, marker, fails, stable, calls, crashes>>

IndexWrite(j) ==
  /\ job[j].at = "indexWrite"
  /\ LET r == job[j] IN
     IF Current(r)
       THEN /\ ids' = IF r.op = "provision" THEN r.seen \cup {r.pod} ELSE r.seen \ {r.pod}
            /\ made' = made \cup {IndexKey}
            /\ Wrote(j, IndexKey, AfterIndex(r))
       ELSE Go(j, Retry(r, "indexRead", AfterIndex(r))) /\ UNCHANGED <<ids, made>>
  /\ UNCHANGED <<pod, cloud, age, usage, marker, fails, stable, calls, crashes>>

\* recordCreate(), recordDelete(): not awaited, up to three attempts.
UsageRead(j) ==
  /\ job[j].at = "usageRead"
  /\ IF job[j].op = "provision" \/ UsageKey \in made
       THEN Go(j, [Reading(job[j], UsageKey) EXCEPT !.at = "usageWrite"])
       ELSE End(j)
  /\ UNCHANGED <<pod, cloud, age, ids, usage, made, marker, fails, stable, calls, crashes>>

Count(op, n) == IF op = "provision" THEN n + 1 ELSE IF n > 0 THEN n - 1 ELSE 0

\* Mutant: the loop goes on after a write that succeeded.
AfterUsageAgain(r) == Retry(r, "usageRead", Idle)

AfterUsage(r) == Idle

UsageWrite(j) ==
  /\ job[j].at = "usageWrite"
  /\ LET r == job[j] IN
     IF Current(r)
       THEN /\ usage' = Count(r.op, usage)
            /\ made' = made \cup {UsageKey}
            /\ Wrote(j, UsageKey, AfterUsage(r))
       ELSE Go(j, Retry(r, "usageRead", Idle)) /\ UNCHANGED <<usage, made>>
  /\ UNCHANGED <<pod, cloud, age, ids, marker, fails, stable, calls, crashes>>

-----------------------------------------------------------------------------
\* The health check's verdict on a Pending or Running pod: decidePodGc() on what
\* checkProviderStatus() says and on the count of failed checks.
Collect(j) == Go(j, Proceed(job[j], "gate", 0))

HealthPending(j, r, gone) ==
  /\ UNCHANGED <<fails, stable>>
  /\ IF r.pod \in WithInstance /\ gone THEN Collect(j)
     ELSE IF r.pod \in WithInstance /\ cloud[r.pod] = "up"
       THEN Go(j, Begin("sync", r.pod, "read"))
     ELSE IF r.due = 2 THEN Collect(j) ELSE End(j)

HealthRunning(j, r, gone) ==
  LET p == r.pod IN
  IF ~gone /\ cloud[p] = "up"
    THEN /\ fails' = [fails EXCEPT ![p] = 0]
         /\ stable' = IF Current(r) THEN [stable EXCEPT ![j] = @ \cup {p}] ELSE stable
         /\ End(j)
    ELSE /\ stable' = [stable EXCEPT ![j] = @ \ {p}]
         /\ fails' = IF gone \/ fails[p] = MaxFails THEN fails
                     ELSE [fails EXCEPT ![p] = @ + 1]
         /\ IF gone \/ fails[p] + 1 >= MaxFails THEN Collect(j) ELSE End(j)

Health(j) ==
  /\ job[j].at = "health"
  /\ LET r == job[j] IN
     \E gone \in BOOLEAN :
       /\ gone => cloud[r.pod] = "none" \/ ProviderFails
       /\ ~gone => cloud[r.pod] # "none" \/ r.pod \notin WithInstance
       /\ IF r.phase = "Pending" THEN HealthPending(j, r, gone) ELSE HealthRunning(j, r, gone)
  /\ UNCHANGED <<pod, cloud, age, ids, usage, made, marker, calls, crashes>>

\* dispatchPodGc(): the marker; that its write is refused goes unnoticed.
Gate(j) ==
  /\ job[j].at = "gate"
  /\ IF marker[job[j].pod] = "live" THEN End(j)
     ELSE Go(j, [Reading(job[j], MarkerKey(job[j].pod)) EXCEPT !.at = "setMarker"])
  /\ UNCHANGED <<pod, cloud, age, ids, usage, made, marker, fails, stable, calls, crashes>>

SetMarker(j) ==
  /\ job[j].at = "setMarker"
  /\ LET r == job[j] next == Proceed(r, "delete", 0) IN
     IF Current(r) /\ marker[r.pod] # "null"
       THEN /\ marker' = [marker EXCEPT ![r.pod] = "live"]
            /\ Wrote(j, MarkerKey(r.pod), next)
       ELSE Go(j, next) /\ UNCHANGED marker
  /\ UNCHANGED <<pod, cloud, age, ids, usage, made, fails, stable, calls, crashes>>

\* gcUpdatePodState(): whatever the phase is by now, the pod is Failed.
Reread(j) ==
  /\ job[j].at = "reread"
  /\ Go(j, [Reading(job[j], PodKey(job[j].pod)) EXCEPT
              !.at = "rewrite", !.phase = "Failed", !.marked = pod[job[j].pod].marked])
  /\ UNCHANGED <<pod, cloud, age, ids, usage, made, marker, fails, stable, calls, crashes>>

Rewrite(j) ==
  /\ job[j].at = "rewrite"
  /\ LET r == job[j] p == r.pod IN
     IF Current(r)
       THEN /\ pod' = [pod EXCEPT ![p] = [phase |-> r.phase, marked |-> r.marked]]
            /\ Touch(p)
            /\ Wrote(j, PodKey(p), Proceed(r, "indexRead", 1))
       ELSE /\ Go(j, Retry(r, "reread", Proceed(r, "unmarkRead", 0)))
            /\ UNCHANGED <<pod, age, stable>>
  /\ UNCHANGED <<cloud, ids, usage, made, marker, fails, calls, crashes>>

\* A marker set to null reads as absent, yet its key exists: it is never set again.
UnmarkRead(j) ==
  /\ job[j].at = "unmarkRead"
  /\ IF marker[job[j].pod] \in {"live", "expired"}
       THEN Go(j, [Reading(job[j], MarkerKey(job[j].pod)) EXCEPT !.at = "unmarkWrite"])
       ELSE End(j)
  /\ UNCHANGED <<pod, cloud, age, ids, usage, made, marker, fails, stable, calls, crashes>>

UnmarkWrite(j) ==
  /\ job[j].at = "unmarkWrite"
  /\ LET r == job[j] IN
     IF Current(r)
       THEN /\ marker' = [marker EXCEPT ![r.pod] = "null"]
            /\ Wrote(j, MarkerKey(r.pod), Idle)
       ELSE End(j) /\ UNCHANGED marker
  /\ UNCHANGED <<pod, cloud, age, ids, usage, made, fails, stable, calls, crashes>>

-----------------------------------------------------------------------------
\* The provider's side and the clock.
Boot(p) == /\ cloud[p] = "pending" /\ cloud' = [cloud EXCEPT ![p] = "up"]
           /\ UNCHANGED <<pod, age, ids, usage, made, marker, fails, stable, job, calls, crashes>>
Exit(p) == /\ cloud[p] = "up" /\ cloud' = [cloud EXCEPT ![p] = "exited"]
           /\ UNCHANGED <<pod, age, ids, usage, made, marker, fails, stable, job, calls, crashes>>
Elapse(p) == /\ pod[p] # Absent /\ age[p] < 2 /\ age' = [age EXCEPT ![p] = @ + 1]
             /\ UNCHANGED <<pod, cloud, ids, usage, made, marker, fails, stable, job, calls, crashes>>
Expire(p) == /\ marker[p] = "live" /\ marker' = [marker EXCEPT ![p] = "expired"]
             /\ UNCHANGED <<pod, cloud, age, ids, usage, made, fails, stable, job, calls, crashes>>

\* The isolate is evicted, or the store fails and the call throws.
Crash(j) ==
  /\ job[j].op # "none" /\ crashes < MaxCrashes /\ crashes' = crashes + 1
  /\ End(j)
  /\ stable' = IF j \in Collectors THEN [stable EXCEPT ![j] = {}] ELSE stable
  /\ UNCHANGED <<pod, cloud, age, ids, usage, made, marker, fails, calls>>

JobStep(j) ==
  \/ CheckQuota(j) \/ Create(j) \/ Insert(j)
  \/ Read(j) \/ CallProvider(j) \/ Describe(j) \/ Mark(j) \/ Status(j) \/ Delete(j) \/ Write(j)
  \/ IndexRead(j) \/ IndexWrite(j) \/ UsageRead(j) \/ UsageWrite(j)
  \/ Health(j) \/ Gate(j) \/ SetMarker(j) \/ Reread(j) \/ Rewrite(j)
  \/ UnmarkRead(j) \/ UnmarkWrite(j)

Next ==
  \/ \E j \in Jobs :
       \/ JobStep(j) \/ Crash(j)
       \/ \E p \in Pods : \/ Provision(j, p)
                          \/ \E op \in UserOps \cup CollectorOps : Call(j, op, p)
  \/ \E p \in Pods : Boot(p) \/ Exit(p) \/ Elapse(p) \/ Expire(p)

Spec == Init /\ [][Next]_vars

\* Awaited calls return; the event loop's next tick visits every pod of the
\* index again (loop.ts, EventLoop!HealthCheckRecurs); time passes.
Fairness == /\ \A j \in Jobs : WF_vars(JobStep(j))
            /\ \A c \in Collectors, p \in Pods : SF_vars(Call(c, "gc", p))
            /\ \A p \in Pods : WF_vars(Elapse(p))
FairSpec == Spec /\ Fairness

-----------------------------------------------------------------------------
\* The transition table of transitions.ts, with the collectors' writes.
Allowed(op, e, f) ==
  CASE op = "provision" -> e = Absent /\ f = [phase |-> "Pending", marked |-> FALSE]
    [] op = "start" -> e.phase \in {"Succeeded", "Failed"} /\ f = Transition(op, e)
    [] op = "stop" -> e.phase = "Running" /\ f = Transition(op, e)
    [] op \in {"restart", "update"} -> e # Absent /\ f = Transition(op, e)
    [] op = "terminate" -> f = [phase |-> e.phase, marked |-> TRUE] \/ (e.marked /\ f = Transition(op, e))
    [] op = "sync" -> e # Absent /\ f.phase # "none" /\ f.marked = e.marked
    [] op = "check" -> e # Absent /\ f = [phase |-> "Failed", marked |-> e.marked]
    [] op = "gc" -> e # Absent /\ f = [phase |-> "Failed", marked |-> TRUE]

\* Whatever calls overlap, an entity only takes the transitions of
\* transitionPod() from the state it is in, not from one that a call saw before.
ByTheTable ==
  \A p \in Pods : pod'[p] # pod[p] =>
    \E j \in Jobs : /\ job[j].op # "none" /\ job[j].pod = p
                    /\ Allowed(job[j].op, pod[p], pod'[p])
FollowsTable == [][ByTheTable]_vars

\* What the collectors look at exists: provision() stores the entity first.
IndexedExist == \A p \in ids : pod[p] # Absent

\* The state is well formed, provision() counts once and terminate() never below zero,
\* although both retry.
UsageBounded == TypeOK /\ usage <= Cardinality({p \in Pods : pod[p] # Absent})

\* "GC will retry" (service.ts, terminate): a pod leaves the index, out of the
\* collectors' reach, only when its resource is gone.
GoneFirst == \A p \in WithInstance : p \in ids /\ p \notin ids' => cloud[p] = "none"

\* With the collectors at work too, a pod changes as the table of transitions says
\* and leaves the index only when its resource is gone (service.ts, health-check.ts).
PodSteps == [][ByTheTable /\ GoneFirst]_vars

\* A pod marked for deletion loses its resource, even if the call that marked it
\* ended half-way, unless start() takes the mark off.
TerminatedCollected ==
  \A p \in Pods : (pod[p].marked /\ p \in ids) ~> (cloud[p] = "none" \/ ~pod[p].marked)

\* For TLC: users are interchangeable, and so are pods that all name an instance.
Symmetry == Permutations(Users) \cup Permutations(Pods)
=============================================================================
