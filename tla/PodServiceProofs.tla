-------------------------- MODULE PodServiceProofs --------------------------
(***************************************************************************)
(* However many requests and collectors overlap on however many pods, and  *)
(* wherever their jobs end: what the index names exists, the counter never *)
(* exceeds the pods that exist, and an entity only takes the transitions   *)
(* of the table.                                                           *)
(***************************************************************************)
EXTENDS PodService, FiniteSetTheorems, TLAPS

USE PodsAssumption, JobsAssumption, BoundsAssumption

-----------------------------------------------------------------------------
\* The operations whose calls can be at a step.
OpsAt(at) ==
  CASE at = "idle" -> {"none"}
    [] at \in {"quota", "create", "insert"} -> {"provision"}
    [] at = "read" -> (UserOps \cup CollectorOps) \ {"provision"}
    [] at = "call" -> {"stop", "start", "restart", "update"}
    [] at = "describe" -> {"sync"}
    [] at = "mark" -> {"terminate"}
    [] at = "status" -> {"gc"}
    [] at = "delete" -> {"terminate", "gc", "check"}
    [] at = "write" -> (UserOps \cup {"gc"}) \ {"provision"}
    [] at \in {"indexRead", "indexWrite"} -> {"provision", "terminate", "gc", "check"}
    [] at \in {"usageRead", "usageWrite"} -> {"provision", "terminate"}
    [] OTHER -> {"check"}

Staged(r, j) == /\ r \in InProgress \cup {Idle}
                /\ r.op \in OpsAt(r.at)
                /\ r.op \in CollectorOps => j \in Collectors

Typed == TypeOK /\ \A j \in Jobs : Staged(job[j], j)

\* Two keys of the store are the same only if they are written alike.
LEMMA KeysDiffer ==
  /\ NoKey \in Keys /\ IndexKey \in Keys /\ UsageKey \in Keys
  /\ IndexKey # UsageKey /\ IndexKey # NoKey /\ UsageKey # NoKey
  /\ \A p \in Pods : /\ PodKey(p) \in Keys /\ MarkerKey(p) \in Keys
                     /\ PodKey(p) # IndexKey /\ PodKey(p) # UsageKey
                     /\ MarkerKey(p) # IndexKey
                     /\ PodKey(p) # NoKey /\ MarkerKey(p) # NoKey
                     /\ \A q \in Pods : /\ PodKey(p) # MarkerKey(q)
                                        /\ PodKey(p) = PodKey(q) => p = q
BY DEF Keys, PodKey, MarkerKey, IndexKey, UsageKey, NoKey

\* A job that has stopped, one that begins, goes on or reads is well typed.
LEMMA AttemptShape ==
  ASSUME NEW op \in UserOps \cup CollectorOps, NEW p \in Pods, NEW at \in Steps \ {"idle"},
         NEW n \in 0..3
  PROVE  Attempt(op, p, at, n) \in InProgress
BY KeysDiffer DEF Attempt, InProgress, Phases

LEMMA BeginShape ==
  ASSUME NEW op \in UserOps \cup CollectorOps, NEW p \in Pods, NEW at \in Steps \ {"idle"}
  PROVE  /\ Begin(op, p, at) \in InProgress
         /\ Begin(op, p, at).op = op /\ Begin(op, p, at).pod = p /\ Begin(op, p, at).at = at
         /\ Begin(op, p, at).seen = {}
<1>1. Begin(op, p, at) \in InProgress
  BY AttemptShape DEF Begin
<1>2. /\ Begin(op, p, at).op = op /\ Begin(op, p, at).pod = p /\ Begin(op, p, at).at = at
      /\ Begin(op, p, at).seen = {}
  BY DEF Begin, Attempt
<1>. QED
  BY <1>1, <1>2

LEMMA IdleShape == \A j : Idle.op = "none" /\ Idle.at = "idle" /\ Staged(Idle, j)
BY DEF Staged, Idle, OpsAt, CollectorOps

\* A record of InProgress is no Idle, and is where its operation can be.
LEMMA RunningShape ==
  ASSUME NEW j, NEW r, Staged(r, j), r.at # "idle" \/ r.op # "none"
  PROVE  r \in InProgress /\ r.at # "idle" /\ r.op # "none"
<1>1. r # Idle
  BY DEF Idle
<1>2. r \in InProgress
  BY <1>1 DEF Staged
<1>. QED
  BY <1>2 DEF InProgress, UserOps, CollectorOps

-----------------------------------------------------------------------------
JobsTyped == /\ job \in [Jobs -> InProgress \cup {Idle}]
             /\ \A j \in Jobs : Staged(job[j], j)

\* A step of one job leaves the others alone, but for what they had read.
LEMMA GoTyped ==
  ASSUME JobsTyped, NEW j \in Jobs, NEW r, Staged(r, j), Go(j, r)
  PROVE  JobsTyped' /\ job'[j] = r /\ \A i \in Jobs \ {j} : job'[i] = job[i]
BY DEF JobsTyped, Go, Staged

LEMMA WroteTyped ==
  ASSUME JobsTyped, NEW j \in Jobs, NEW key, key # NoKey, NEW r, Staged(r, j),
         Wrote(j, key, r)
  PROVE  /\ JobsTyped' /\ job'[j] = r
         /\ \A i \in Jobs \ {j} :
              job'[i] = IF job[i].key = key THEN [job[i] EXCEPT !.fresh = FALSE] ELSE job[i]
<1>1. ASSUME NEW i \in Jobs, job[i].key = key
      PROVE  Staged([job[i] EXCEPT !.fresh = FALSE], i)
  <2>1. job[i] # Idle
    BY <1>1 DEF Idle
  <2>. QED
    BY ZenonT(40), <1>1, <2>1 DEF Staged, JobsTyped, InProgress
<1>. QED
  BY <1>1 DEF JobsTyped, Wrote, Staged

\* A call that goes on at a step of its operation.
LEMMA AttemptStaged ==
  ASSUME NEW j \in Jobs, NEW r, Staged(r, j), r.op # "none",
         NEW at \in Steps \ {"idle"}, r.op \in OpsAt(at), NEW n \in 0..3
  PROVE  Staged(Proceed(r, at, n), j)
<1>1. r \in InProgress
  BY RunningShape
<1>2. r.op \in UserOps \cup CollectorOps /\ r.pod \in Pods
  BY <1>1 DEF InProgress
<1>3. Proceed(r, at, n) \in InProgress
  BY <1>2, AttemptShape DEF Proceed
<1>. QED
  BY <1>3 DEF Staged, Proceed, Attempt

LEMMA RetryStaged ==
  ASSUME NEW j \in Jobs, NEW r, Staged(r, j), r.op # "none",
         NEW at \in Steps \ {"idle"}, r.op \in OpsAt(at), NEW giveUp, Staged(giveUp, j)
  PROVE  Staged(Retry(r, at, giveUp), j)
<1>1. CASE r.tries > 1
  <2>1. r.tries \in 0..3
    BY RunningShape DEF InProgress
  <2>2. r.tries - 1 \in 0..3
    BY <1>1, <2>1
  <2>. QED
    BY <1>1, <2>2, AttemptStaged DEF Retry
<1>2. CASE ~(r.tries > 1)
  BY <1>2 DEF Retry
<1>. QED
  BY <1>1, <1>2

LEMMA AfterIndexStaged ==
  ASSUME NEW j \in Jobs, NEW r, Staged(r, j), r.at \in {"indexRead", "indexWrite"}
  PROVE  Staged(AfterIndex(r), j)
<1>1. r.op \in {"provision", "terminate", "gc", "check"}
  BY DEF Staged, OpsAt
<1>2. CASE r.op \in {"provision", "terminate"}
  <2>1. Staged(Proceed(r, "usageRead", 3), j)
    BY <1>2, AttemptStaged DEF Steps, OpsAt
  <2>. QED
    BY <1>2, <2>1 DEF AfterIndex
<1>3. CASE r.op = "check"
  <2>1. Staged(Proceed(r, "unmarkRead", 0), j)
    BY <1>3, AttemptStaged DEF Steps, OpsAt
  <2>. QED
    BY <1>3, <2>1 DEF AfterIndex
<1>4. CASE r.op = "gc"
  BY <1>4, IdleShape DEF AfterIndex
<1>. QED
  BY <1>1, <1>2, <1>3, <1>4

\* What the store holds under a pod's key.
LEMMA EntityShape ==
  ASSUME TypeOK, NEW p \in Pods
  PROVE  /\ pod[p].phase \in Phases \cup {"none"} /\ pod[p].marked \in BOOLEAN
         /\ pod[p] # Absent => pod[p] = [phase |-> pod[p].phase, marked |-> pod[p].marked]
         /\ pod[p] # Absent => pod[p].phase \in Phases
<1>1. pod[p] \in [phase : Phases, marked : BOOLEAN] \cup {Absent}
  BY DEF TypeOK
<1>2. CASE pod[p] = Absent
  BY <1>2 DEF Absent
<1>3. CASE pod[p] # Absent
  BY <1>1, <1>3
<1>. QED
  BY <1>2, <1>3

LEMMA JobStepsTyped ==
  ASSUME TypeOK, JobsTyped, NEW j \in Jobs, JobStep(j)
  PROVE  JobsTyped'
<1>. DEFINE r == job[j]
<1>0. Staged(r, j)
  BY DEF JobsTyped
<1>0a. r.at # "idle" => r \in InProgress /\ r.op # "none" /\ r.pod \in Pods
  BY <1>0, RunningShape DEF InProgress
<1>1. CASE CheckQuota(j)
  <2>1. Staged([r EXCEPT !.at = "create"], j)
    BY <1>1, <1>0, <1>0a DEF CheckQuota, Staged, InProgress, Steps, OpsAt
  <2>. QED
    BY <1>1, <2>1, GoTyped, IdleShape DEF CheckQuota, To, End
<1>2. CASE Create(j)
  <2>1. Staged([r EXCEPT !.at = "insert"], j)
    BY <1>2, <1>0, <1>0a DEF Create, Staged, InProgress, Steps, OpsAt
  <2>. QED
    BY <1>2, <2>1, GoTyped, IdleShape DEF Create, AfterCreate, To, End
<1>3. CASE Insert(j)
  <2>1. r.op = "provision"
    BY <1>3, <1>0 DEF Insert, Staged, OpsAt
  <2>2. Staged(Proceed(r, "indexRead", 3), j)
    BY <1>0, <2>1, AttemptStaged DEF Steps, OpsAt
  <2>. QED
    BY <1>3, <2>2, GoTyped DEF Insert
<1>4. CASE Read(j)
  <2>. DEFINE p == r.pod
              next == AfterRead(j, p, pod[p])
              q == [r EXCEPT !.at = next, !.phase = pod[p].phase, !.marked = pod[p].marked,
                             !.due = IF r.op \in CollectorOps THEN age[p] ELSE 0]
  <2>0. r \in InProgress /\ r.op # "none" /\ p \in Pods
    BY <1>4, <1>0a DEF Read
  <2>1. r.op \in (UserOps \cup CollectorOps) \ {"provision"}
    BY <1>4, <1>0 DEF Read, Staged, OpsAt
  <2>2. next \in {"call", "describe", "mark", "status", "gate", "health", "end"}
        /\ (next # "end" => r.op \in OpsAt(next))
    BY <2>1 DEF AfterRead, UserOps, CollectorOps, OpsAt
  <2>3. CASE next = "end"
    BY <1>4, <2>3, GoTyped, IdleShape DEF Read, End
  <2>4. CASE next = "gate"
    BY <1>4, <1>0, <2>0, <2>2, <2>4, AttemptStaged, GoTyped DEF Read, Steps
  <2>5. CASE next \notin {"end", "gate"}
    <3>1. pod[p].phase \in Phases \cup {"none"} /\ pod[p].marked \in BOOLEAN
      BY <2>0, EntityShape
    <3>2. (IF r.op \in CollectorOps THEN age[p] ELSE 0) \in 0..2
      BY <2>0 DEF TypeOK
    <3>3. next \in Steps \ {"idle"}
      BY <2>2, <2>5 DEF Steps
    <3>4. q \in InProgress /\ q.op = r.op /\ q.at = next
      <4>. HIDE DEF next
      <4>. QED
        BY <2>0, <3>1, <3>2, <3>3 DEF InProgress
    <3>5. Reading(q, PodKey(p)) \in InProgress /\ Reading(q, PodKey(p)).op = r.op
          /\ Reading(q, PodKey(p)).at = next
      <4>. HIDE DEF q, next
      <4>. QED
        BY <2>0, <3>4, KeysDiffer DEF Reading, InProgress
    <3>6. Staged(Reading(q, PodKey(p)), j)
      BY <1>0, <2>2, <2>5, <3>5 DEF Staged
    <3>. QED
      BY <1>4, <2>5, <3>6, GoTyped DEF Read
  <2>. QED
    BY <2>3, <2>4, <2>5
<1>5. CASE CallProvider(j)
  <2>. DEFINE e == Transition(r.op, [phase |-> r.phase, marked |-> r.marked])
              q == [r EXCEPT !.at = "write", !.phase = e.phase, !.marked = e.marked]
  <2>0. r \in InProgress /\ r.op \in {"stop", "start", "restart", "update"}
    BY <1>5, <1>0, <1>0a DEF CallProvider, Staged, OpsAt
  <2>1. e.phase \in Phases /\ e.marked \in BOOLEAN
    BY <2>0 DEF Transition, InProgress, Phases
  <2>2. q \in InProgress /\ q.op = r.op /\ q.at = "write"
    <3>. HIDE DEF e
    <3>. QED
      BY <2>0, <2>1 DEF InProgress, Steps
  <2>3. Staged(q, j)
    <3>. HIDE DEF q
    <3>. QED
      BY <1>0, <2>0, <2>2 DEF Staged, OpsAt, UserOps
  <2>. QED
    BY <1>5, <2>3, GoTyped, IdleShape DEF CallProvider, End
<1>6. CASE Describe(j)
  <2>0. r \in InProgress /\ r.op = "sync"
    BY <1>6, <1>0, <1>0a DEF Describe, Staged, OpsAt
  <2>1. ASSUME NEW c, NEW ph \in PhasesOf(cloud[r.pod])
        PROVE  Staged([r EXCEPT !.at = "write", !.phase = ph], j)
    <3>1. ph \in Phases
      <4>1. cloud[r.pod] \in {"none", "pending", "up", "exited"}
        BY <2>0 DEF TypeOK, InProgress
      <4>. QED
        BY <2>1, <4>1 DEF PhasesOf, Phases
    <3>. QED
      BY ZenonT(40), <2>0, <3>1 DEF Staged, OpsAt, UserOps, CollectorOps, InProgress, Steps
  <2>. QED
    BY <1>6, <2>1, GoTyped, IdleShape DEF Describe, End
<1>7. CASE Mark(j)
  <2>0. r \in InProgress /\ r.op = "terminate" /\ r.pod \in Pods
    BY <1>7, <1>0, <1>0a DEF Mark, Staged, OpsAt
  <2>1. Staged([r EXCEPT !.at = "delete", !.phase = "Failed", !.marked = TRUE], j)
    BY <2>0 DEF Staged, OpsAt, UserOps, CollectorOps, InProgress, Steps, Phases
  <2>. QED
    BY <1>7, <2>0, <2>1, GoTyped, WroteTyped, IdleShape, KeysDiffer DEF Mark, End
<1>8. CASE Status(j)
  <2>0. r \in InProgress /\ r.op = "gc"
    BY <1>8, <1>0, <1>0a DEF Status, Staged, OpsAt
  <2>. DEFINE failed == [r EXCEPT !.at = "write", !.phase = "Failed", !.marked = TRUE]
              due == [r EXCEPT !.at = "delete", !.phase = IF r.phase \in {"Succeeded", "Failed"}
                                                          THEN @ ELSE "Failed"]
  <2>1. Staged(failed, j)
    <3>1. failed \in InProgress /\ failed.op = r.op /\ failed.at = "write"
      BY <2>0 DEF InProgress, Steps, Phases
    <3>. QED
      BY <1>0, <2>0, <3>1 DEF Staged, OpsAt
  <2>2. Staged(due, j)
    <3>1. due \in InProgress /\ due.op = r.op /\ due.at = "delete"
      BY ZenonT(40), <2>0 DEF InProgress, Steps, Phases
    <3>. QED
      BY <1>0, <2>0, <3>1 DEF Staged, OpsAt
  <2>. QED
    BY <1>8, <2>1, <2>2, GoTyped, IdleShape DEF Status, End
<1>9. CASE Delete(j)
  <2>0. r \in InProgress /\ r.op \in {"terminate", "gc", "check"}
    BY <1>9, <1>0, <1>0a DEF Delete, Staged, OpsAt
  <2>1. CASE r.op = "check"
    <3>1. Staged(Proceed(r, "reread", 3), j)
      BY <1>0, <2>0, <2>1, AttemptStaged DEF Steps, OpsAt
    <3>. QED
      BY <1>9, <2>1, <3>1, GoTyped DEF Delete
  <2>2. CASE r.op # "check"
    <3>1. Staged([r EXCEPT !.at = "write"], j)
      BY <1>0, <2>0, <2>2 DEF Staged, OpsAt, UserOps, CollectorOps, InProgress, Steps
    <3>. QED
      BY <1>9, <2>2, <3>1, GoTyped DEF Delete, To
  <2>. QED
    BY <2>1, <2>2
<1>10. CASE Write(j)
  <2>0. r \in InProgress /\ r.op # "none" /\ r.pod \in Pods
    BY <1>10, <1>0, <1>0a DEF Write
  <2>1. Staged(IF r.op \in {"terminate", "gc"} THEN Proceed(r, "indexRead", 3) ELSE Idle, j)
    <3>1. CASE r.op \in {"terminate", "gc"}
      BY <1>0, <2>0, <3>1, AttemptStaged DEF Steps, OpsAt
    <3>2. CASE r.op \notin {"terminate", "gc"}
      BY <3>2, IdleShape
    <3>. QED
      BY <3>1, <3>2
  <2>. QED
    BY <1>10, <2>0, <2>1, GoTyped, WroteTyped, IdleShape, KeysDiffer DEF Write, End
<1>11. CASE IndexRead(j)
  <2>0. r \in InProgress /\ r.op \in {"provision", "terminate", "gc", "check"}
    BY <1>11, <1>0, <1>0a DEF IndexRead, Staged, OpsAt
  <2>. DEFINE q == [Reading(r, IndexKey) EXCEPT !.at = "indexWrite", !.seen = ids]
  <2>1. Staged(q, j)
    <3>1. q \in InProgress /\ q.op = r.op /\ q.at = "indexWrite"
      BY <2>0, KeysDiffer DEF Reading, InProgress, Steps, TypeOK
    <3>. QED
      BY <1>0, <2>0, <3>1 DEF Staged, OpsAt
  <2>2. Staged(AfterIndex(r), j)
    BY <1>11, <1>0, AfterIndexStaged DEF IndexRead
  <2>3. Staged(Retry(r, "indexRead", AfterIndex(r)), j)
    BY <1>0, <2>0, <2>2, RetryStaged DEF Steps, OpsAt
  <2>. QED
    BY <1>11, <2>1, <2>3, GoTyped DEF IndexRead
<1>12. CASE IndexWrite(j)
  <2>0. r \in InProgress /\ r.op \in {"provision", "terminate", "gc", "check"}
    BY <1>12, <1>0, <1>0a DEF IndexWrite, Staged, OpsAt
  <2>2. Staged(AfterIndex(r), j)
    BY <1>12, <1>0, AfterIndexStaged DEF IndexWrite
  <2>3. Staged(Retry(r, "indexRead", AfterIndex(r)), j)
    BY <1>0, <2>0, <2>2, RetryStaged DEF Steps, OpsAt
  <2>. QED
    BY <1>12, <2>2, <2>3, GoTyped, WroteTyped, KeysDiffer DEF IndexWrite
<1>13. CASE UsageRead(j)
  <2>0. r \in InProgress /\ r.op \in {"provision", "terminate"}
    BY <1>13, <1>0, <1>0a DEF UsageRead, Staged, OpsAt
  <2>. DEFINE q == [Reading(r, UsageKey) EXCEPT !.at = "usageWrite"]
  <2>1. Staged(q, j)
    <3>1. q \in InProgress /\ q.op = r.op /\ q.at = "usageWrite"
      BY <2>0, KeysDiffer DEF Reading, InProgress, Steps
    <3>. QED
      BY <1>0, <2>0, <3>1 DEF Staged, OpsAt
  <2>. QED
    BY <1>13, <2>1, GoTyped, IdleShape DEF UsageRead, End
<1>14. CASE UsageWrite(j)
  <2>0. r \in InProgress /\ r.op \in {"provision", "terminate"}
    BY <1>14, <1>0, <1>0a DEF UsageWrite, Staged, OpsAt
  <2>1. Staged(Retry(r, "usageRead", Idle), j)
    BY <1>0, <2>0, IdleShape, RetryStaged DEF Steps, OpsAt
  <2>. QED
    BY <1>14, <2>1, GoTyped, WroteTyped, IdleShape, KeysDiffer DEF UsageWrite, AfterUsage
<1>15. CASE Health(j)
  <2>0. r \in InProgress /\ r.op = "check"
    BY <1>15, <1>0, <1>0a DEF Health, Staged, OpsAt
  <2>1. Staged(Proceed(r, "gate", 0), j)
    BY <1>0, <2>0, AttemptStaged DEF Steps, OpsAt
  <2>2. Staged(Begin("sync", r.pod, "read"), j)
    <3>0. "sync" \in UserOps \cup CollectorOps /\ "read" \in Steps \ {"idle"} /\ r.pod \in Pods
      BY <2>0 DEF InProgress, UserOps, Steps
    <3>1. Begin("sync", r.pod, "read") \in InProgress
      BY <3>0, AttemptShape DEF Begin
    <3>. QED
      BY <3>1 DEF Staged, Begin, Attempt, OpsAt, UserOps, CollectorOps
  <2>. QED
    BY <1>15, <2>1, <2>2, GoTyped, IdleShape
       DEF Health, HealthPending, HealthRunning, Collect, End
<1>16. CASE Gate(j)
  <2>0. r \in InProgress /\ r.op = "check" /\ r.pod \in Pods
    BY <1>16, <1>0, <1>0a DEF Gate, Staged, OpsAt
  <2>. DEFINE q == [Reading(r, MarkerKey(r.pod)) EXCEPT !.at = "setMarker"]
  <2>1. Staged(q, j)
    <3>1. q \in InProgress /\ q.op = r.op /\ q.at = "setMarker"
      BY <2>0, KeysDiffer DEF Reading, InProgress, Steps
    <3>. QED
      BY <1>0, <2>0, <3>1 DEF Staged, OpsAt
  <2>. QED
    BY <1>16, <2>1, GoTyped, IdleShape DEF Gate, End
<1>17. CASE SetMarker(j)
  <2>0. r \in InProgress /\ r.op = "check" /\ r.pod \in Pods
    BY <1>17, <1>0, <1>0a DEF SetMarker, Staged, OpsAt
  <2>1. Staged(Proceed(r, "delete", 0), j)
    BY <1>0, <2>0, AttemptStaged DEF Steps, OpsAt
  <2>. QED
    BY <1>17, <2>0, <2>1, GoTyped, WroteTyped, KeysDiffer DEF SetMarker
<1>18. CASE Reread(j)
  <2>0. r \in InProgress /\ r.op = "check" /\ r.pod \in Pods
    BY <1>18, <1>0, <1>0a DEF Reread, Staged, OpsAt
  <2>. DEFINE q == [Reading(r, PodKey(r.pod)) EXCEPT
                      !.at = "rewrite", !.phase = "Failed", !.marked = pod[r.pod].marked]
  <2>1. Staged(q, j)
    <3>1. pod[r.pod].marked \in BOOLEAN
      BY <2>0, EntityShape
    <3>2. q \in InProgress /\ q.op = r.op /\ q.at = "rewrite"
      BY <2>0, <3>1, KeysDiffer DEF Reading, InProgress, Steps, Phases
    <3>. QED
      BY <1>0, <2>0, <3>2 DEF Staged, OpsAt
  <2>. QED
    BY <1>18, <2>1, GoTyped DEF Reread
<1>19. CASE Rewrite(j)
  <2>0. r \in InProgress /\ r.op = "check" /\ r.pod \in Pods
    BY <1>19, <1>0, <1>0a DEF Rewrite, Staged, OpsAt
  <2>1. Staged(Proceed(r, "indexRead", 1), j) /\ Staged(Proceed(r, "unmarkRead", 0), j)
    BY <1>0, <2>0, AttemptStaged DEF Steps, OpsAt
  <2>2. Staged(Retry(r, "reread", Proceed(r, "unmarkRead", 0)), j)
    BY <1>0, <2>0, <2>1, RetryStaged DEF Steps, OpsAt
  <2>. QED
    BY <1>19, <2>0, <2>1, <2>2, GoTyped, WroteTyped, KeysDiffer DEF Rewrite
<1>20. CASE UnmarkRead(j)
  <2>0. r \in InProgress /\ r.op = "check" /\ r.pod \in Pods
    BY <1>20, <1>0, <1>0a DEF UnmarkRead, Staged, OpsAt
  <2>. DEFINE q == [Reading(r, MarkerKey(r.pod)) EXCEPT !.at = "unmarkWrite"]
  <2>1. Staged(q, j)
    <3>1. q \in InProgress /\ q.op = r.op /\ q.at = "unmarkWrite"
      BY <2>0, KeysDiffer DEF Reading, InProgress, Steps
    <3>. QED
      BY <1>0, <2>0, <3>1 DEF Staged, OpsAt
  <2>. QED
    BY <1>20, <2>1, GoTyped, IdleShape DEF UnmarkRead, End
<1>21. CASE UnmarkWrite(j)
  <2>0. r \in InProgress /\ r.pod \in Pods
    BY <1>21, <1>0, <1>0a DEF UnmarkWrite
  <2>. QED
    BY <1>21, <2>0, GoTyped, WroteTyped, IdleShape, KeysDiffer DEF UnmarkWrite, End
<1>. QED
  BY <1>1, <1>2, <1>3, <1>4, <1>5, <1>6, <1>7, <1>8, <1>9, <1>10, <1>11, <1>12, <1>13, <1>14,
     <1>15, <1>16, <1>17, <1>18, <1>19, <1>20, <1>21 DEF JobStep

-----------------------------------------------------------------------------
\* The steps of provision() before the entity is stored.
Before == {"quota", "create", "insert"}

\* A job at these steps works on what it read of the entity.
Holding(r) == \/ r.at \in {"call", "describe", "mark", "status", "write", "rewrite"}
              \/ r.at = "delete" /\ r.op # "check"

Entity(r) == [phase |-> r.phase, marked |-> r.marked]

\* What the job holds against the entity e that is stored.
Agrees(r, e) ==
  /\ r.at \in {"call", "describe", "mark", "status"} => Entity(r) = e
  /\ r.at = "call" /\ r.op = "start" => r.phase \in {"Succeeded", "Failed"}
  /\ r.at \in {"delete", "write", "rewrite"} => Entity(r) = e \/ Allowed(r.op, e, Entity(r))

Informed(r, pods) ==
  /\ r.op # "none" => (pods[r.pod] = Absent <=> r.at \in Before)
  /\ \A p \in r.seen : pods[p] # Absent
  /\ Holding(r) => /\ r.phase \in Phases /\ r.key = PodKey(r.pod)
                   /\ r.fresh => Agrees(r, pods[r.pod])

\* One call provisions a pod.
Single == \A i, j \in Jobs : /\ job[i].op = "provision" /\ job[j].op = "provision"
                             /\ job[i].pod = job[j].pod
                             => i = j

\* The inductive invariant: whatever is at hand is current, or known not to be.
PodInv == /\ TypeOK /\ JobsTyped /\ Single /\ IndexedExist
          /\ \A j \in Jobs : Informed(job[j], pod)

LEMMA IdleInformed == \A pods : Informed(Idle, pods)
BY DEF Informed, Idle, Holding

\* A call that goes on at a step at which it holds nothing.
LEMMA AttemptInformed ==
  ASSUME NEW r \in InProgress, NEW at \in Steps \ Before, NEW n, NEW pods,
         pods[r.pod] # Absent, ~Holding(Proceed(r, at, n))
  PROVE  Informed(Proceed(r, at, n), pods)
BY DEF Informed, Proceed, Attempt

LEMMA RetryInformed ==
  ASSUME NEW r \in InProgress, NEW at \in Steps \ Before, NEW giveUp, NEW pods,
         pods[r.pod] # Absent, \A n : ~Holding(Proceed(r, at, n)), Informed(giveUp, pods)
  PROVE  Informed(Retry(r, at, giveUp), pods)
BY AttemptInformed DEF Retry

LEMMA AfterIndexInformed ==
  ASSUME NEW r \in InProgress, NEW pods, pods[r.pod] # Absent,
         r.op \in {"provision", "terminate", "gc", "check"}
  PROVE  Informed(AfterIndex(r), pods)
<1>1. CASE r.op \in {"provision", "terminate"}
  BY <1>1, AttemptInformed DEF AfterIndex, Steps, Before, Holding, Proceed, Attempt
<1>2. CASE r.op = "check"
  BY <1>2, AttemptInformed DEF AfterIndex, Steps, Before, Holding, Proceed, Attempt
<1>3. CASE r.op = "gc"
  BY <1>3, IdleInformed DEF AfterIndex
<1>. QED
  BY <1>1, <1>2, <1>3

\* How the entities change in a step of a job.
LEMMA EntitySteps ==
  ASSUME PodInv, NEW j \in Jobs, JobStep(j)
  PROVE  \/ pod' = pod
         \/ /\ job[j].at = "insert" /\ job[j].op = "provision" /\ pod[job[j].pod] = Absent
            /\ pod' = [pod EXCEPT ![job[j].pod] = [phase |-> "Pending", marked |-> FALSE]]
            /\ Go(j, Proceed(job[j], "indexRead", 3))
         \/ /\ job[j].at \in {"mark", "write", "rewrite"} /\ job[j].fresh
            /\ pod' = [pod EXCEPT ![job[j].pod] =
                         [phase |-> job[j].phase,
                          marked |-> IF job[j].at = "mark" THEN TRUE ELSE job[j].marked]]
            /\ \E q : Wrote(j, PodKey(job[j].pod), q)
<1>. DEFINE r == job[j]
<1>0. Staged(r, j) /\ Informed(r, pod)
  BY DEF PodInv, JobsTyped
<1>1. CASE Insert(j)
  <2>1. r.op = "provision"
    BY <1>0, <1>1 DEF Insert, Staged, OpsAt
  <2>2. pod[r.pod] = Absent
    BY <1>0, <1>1, <2>1 DEF Insert, Informed, Before
  <2>. QED
    BY <1>1, <2>1, <2>2 DEF Insert
<1>2. CASE Mark(j) \/ Write(j) \/ Rewrite(j)
  BY <1>2 DEF Mark, Write, Rewrite, Current
<1>3. CASE ~(Insert(j) \/ Mark(j) \/ Write(j) \/ Rewrite(j))
  <2>1. pod' = pod
    BY <1>3 DEF JobStep, CheckQuota, Create, Read, CallProvider, Describe, Status, Delete,
                IndexRead, IndexWrite, UsageRead, UsageWrite, Health, Gate, SetMarker, Reread,
                UnmarkRead, UnmarkWrite
  <2>. QED
    BY <2>1
<1>. QED
  BY <1>1, <1>2, <1>3

\* No step of a job makes an entity vanish.
LEMMA EntitiesStay ==
  ASSUME PodInv, NEW j \in Jobs, JobStep(j), NEW p \in Pods
  PROVE  /\ pod[p] # Absent => pod'[p] # Absent
         /\ pod'[p] # Absent => pod[p] # Absent \/ (job[j].at = "insert" /\ p = job[j].pod)
<1>. DEFINE r == job[j]
<1>0. Staged(r, j) /\ Informed(r, pod) /\ pod \in [Pods -> [phase : Phases, marked : BOOLEAN] \cup {Absent}]
  BY DEF PodInv, JobsTyped, TypeOK
<1>1. CASE pod' = pod
  BY <1>1
<1>2. CASE /\ r.at = "insert" /\ pod[r.pod] = Absent
           /\ pod' = [pod EXCEPT ![r.pod] = [phase |-> "Pending", marked |-> FALSE]]
  BY <1>0, <1>2 DEF Absent
<1>3. CASE /\ r.at \in {"mark", "write", "rewrite"}
           /\ pod' = [pod EXCEPT ![r.pod] =
                        [phase |-> r.phase,
                         marked |-> IF r.at = "mark" THEN TRUE ELSE r.marked]]
  <2>1. r.phase \in Phases /\ r.op # "none"
    BY <1>0, <1>3, RunningShape DEF Informed, Holding
  <2>2. pod[r.pod] # Absent
    BY <1>0, <1>3, <2>1 DEF Informed, Before
  <2>3. [phase |-> r.phase, marked |-> IF r.at = "mark" THEN TRUE ELSE r.marked] # Absent
    BY <2>1 DEF Absent, Phases
  <2>. QED
    BY <1>0, <1>3, <2>2, <2>3
<1>. QED
  BY <1>1, <1>2, <1>3, EntitySteps

\* A step of a job may outdate what another one has read, no more.
LEMMA OthersKept ==
  ASSUME JobsTyped, NEW j \in Jobs, JobStep(j), NEW i \in Jobs, i # j
  PROVE  job'[i] = job[i] \/ job'[i] = [job[i] EXCEPT !.fresh = FALSE]
<1>0. job \in [Jobs -> InProgress \cup {Idle}]
  BY DEF JobsTyped
<1>1. CASE CheckQuota(j) \/ Create(j) \/ Insert(j) \/ Read(j) \/ CallProvider(j)
  BY <1>0, <1>1 DEF CheckQuota, Create, Insert, Read, CallProvider, To, End, Go
<1>2. CASE Describe(j) \/ Status(j) \/ Delete(j) \/ IndexRead(j) \/ UsageRead(j)
  BY <1>0, <1>2 DEF Describe, Status, Delete, IndexRead, UsageRead, To, End, Go
<1>3. CASE Health(j) \/ Gate(j) \/ Reread(j) \/ UnmarkRead(j)
  BY <1>0, <1>3 DEF Health, HealthPending, HealthRunning, Collect, Gate, Reread, UnmarkRead,
                    End, Go
<1>4. CASE Mark(j) \/ Write(j) \/ Rewrite(j)
  BY <1>0, <1>4 DEF Mark, Write, Rewrite, Wrote, End, Go
<1>5. CASE IndexWrite(j) \/ UsageWrite(j) \/ SetMarker(j) \/ UnmarkWrite(j)
  BY <1>0, <1>5 DEF IndexWrite, UsageWrite, SetMarker, UnmarkWrite, Wrote, End, Go
<1>. QED
  BY <1>1, <1>2, <1>3, <1>4, <1>5 DEF JobStep

\* What a step of a job leaves the others knowing.
LEMMA OthersInformed ==
  ASSUME PodInv, NEW j \in Jobs, JobStep(j), NEW i \in Jobs, i # j
  PROVE  Informed(job'[i], pod') /\ job'[i].op = job[i].op /\ job'[i].pod = job[i].pod
<1>. DEFINE r == job[j]
            s == job[i]
            t == job'[i]
<1>0. /\ Informed(r, pod) /\ Informed(s, pod) /\ Staged(r, j) /\ Staged(s, i)
      /\ \A p \in Pods : pod[p] # Absent => pod'[p] # Absent
  BY EntitiesStay DEF PodInv, JobsTyped
<1>1. /\ t = s \/ t = [s EXCEPT !.fresh = FALSE]
      /\ t \in InProgress \cup {Idle}
  BY OthersKept, JobStepsTyped DEF PodInv, JobsTyped
<1>2. CASE t = Idle
  <2>1. s.op = "none"
    BY <1>0, <1>1, <1>2 DEF Staged, Idle, InProgress, UserOps, CollectorOps
  <2>2. s = Idle
    BY <1>0, <2>1 DEF Staged, InProgress, UserOps, CollectorOps
  <2>. QED
    BY <1>2, <2>2, IdleInformed
<1>3. CASE t # Idle
  <2>1. /\ s \in InProgress /\ t \in InProgress
        /\ t.op = s.op /\ t.pod = s.pod /\ t.at = s.at /\ t.phase = s.phase
        /\ t.marked = s.marked /\ t.key = s.key /\ t.seen = s.seen
        /\ t.fresh => s.fresh
    BY <1>0, <1>1, <1>3 DEF Staged, Idle, InProgress
  <2>2. s.op # "none" /\ s.pod \in Pods /\ s.seen \subseteq Pods
    BY <2>1 DEF InProgress, UserOps, CollectorOps
  <2>3. pod'[s.pod] = Absent <=> s.at \in Before
    <3>1. CASE pod[s.pod] # Absent
      BY <1>0, <2>2, <3>1 DEF Informed
    <3>2. CASE pod[s.pod] = Absent
      <4>1. s.at \in Before
        BY <1>0, <2>2, <3>2 DEF Informed
      <4>2. s.op = "provision"
        BY <1>0, <4>1 DEF Staged, OpsAt, Before
      <4>3. ~(r.at = "insert" /\ s.pod = r.pod)
        <5>1. r.at = "insert" => r.op = "provision"
          BY <1>0 DEF Staged, OpsAt
        <5>. QED
          BY <4>2, <5>1 DEF PodInv, Single
      <4>. QED
        BY <2>2, <3>2, <4>1, <4>3, EntitiesStay
    <3>. QED
      BY <3>1, <3>2
  <2>4. \A p \in t.seen : pod'[p] # Absent
    BY <1>0, <2>1, <2>2 DEF Informed
  <2>5. ASSUME Holding(t)
        PROVE  t.phase \in Phases /\ t.key = PodKey(t.pod) /\ (t.fresh => Agrees(t, pod'[t.pod]))
    <3>1. /\ s.phase \in Phases /\ s.key = PodKey(s.pod)
          /\ s.fresh => Agrees(s, pod[s.pod])
      BY <1>0, <2>1, <2>5 DEF Informed, Holding
    <3>2. ASSUME t.fresh PROVE pod'[s.pod] = pod[s.pod]
      <4>1. CASE pod' = pod
        BY <4>1
      <4>2. CASE r.at = "insert" /\ pod' = [pod EXCEPT ![r.pod] =
                                                [phase |-> "Pending", marked |-> FALSE]]
        <5>1. r.op # "none" /\ pod[r.pod] = Absent
          BY <1>0, <4>2, RunningShape DEF Informed, Before
        <5>2. s.at \notin Before
          BY <2>1, <2>5 DEF Holding, Before
        <5>3. s.pod # r.pod
          BY <1>0, <2>2, <5>1, <5>2 DEF Informed
        <5>. QED
          BY <4>2, <5>3 DEF PodInv, TypeOK
      <4>3. ASSUME NEW q, NEW e, pod' = [pod EXCEPT ![r.pod] = e], Wrote(j, PodKey(r.pod), q)
            PROVE  pod'[s.pod] = pod[s.pod]
        <5>1. s.key # PodKey(r.pod)
          <6>1. s.key = PodKey(r.pod) => t = [s EXCEPT !.fresh = FALSE]
            BY <4>3 DEF Wrote
          <6>. QED
            BY <2>1, <3>2, <6>1 DEF InProgress
        <5>2. s.pod # r.pod
          BY <3>1, <5>1
        <5>. QED
          BY <4>3, <5>2, <2>2 DEF PodInv, TypeOK
      <4>. QED
        BY <4>1, <4>2, <4>3, EntitySteps
    <3>3. t.fresh => Agrees(t, pod[s.pod])
      BY <2>1, <3>1 DEF Agrees, Entity
    <3>. QED
      BY <2>1, <3>1, <3>2, <3>3
  <2>. QED
    BY <2>1, <2>3, <2>4, <2>5 DEF Informed
<1>. QED
  BY <1>2, <1>3

\* What a job knows after its own step.
LEMMA OwnInformed ==
  ASSUME PodInv, NEW j \in Jobs, JobStep(j)
  PROVE  Informed(job'[j], pod')
<1>. DEFINE r == job[j]
            e == pod[r.pod]
<1>0. Informed(r, pod) /\ Staged(r, j) /\ job \in [Jobs -> InProgress \cup {Idle}] /\ TypeOK
  BY DEF PodInv, JobsTyped
<1>0a. r.at # "idle" => r \in InProgress /\ r.op # "none" /\ r.pod \in Pods
  BY <1>0, RunningShape DEF InProgress
<1>0b. r.at \notin Before \cup {"idle"} => e # Absent /\ pod'[r.pod] # Absent
  BY <1>0, <1>0a, EntitiesStay DEF Informed
<1>0c. End(j) => job'[j] = Idle
  BY <1>0 DEF End, Go
<1>0d. \A q : Go(j, q) => job'[j] = q
  BY <1>0 DEF Go
<1>0e. \A q, key : Wrote(j, key, q) => job'[j] = q
  BY <1>0 DEF Wrote
<1>0f. job'[j] = Idle => Informed(job'[j], pod')
  BY IdleInformed
<1>1. CASE CheckQuota(j)
  <2>1. ASSUME To(j, "create") PROVE Informed(job'[j], pod')
    <3>1. job'[j] = [r EXCEPT !.at = "create"] /\ pod' = pod
      BY <1>0d, <1>1, <2>1 DEF To, CheckQuota
    <3>. QED
      BY <3>1, <1>0, <1>0a, <1>1 DEF CheckQuota, Informed, Before, Holding, InProgress
  <2>. QED
    BY <1>1, <1>0c, <1>0f, <2>1 DEF CheckQuota
<1>2. CASE Create(j)
  <2>1. ASSUME To(j, "insert") PROVE Informed(job'[j], pod')
    <3>1. job'[j] = [r EXCEPT !.at = "insert"] /\ pod' = pod
      BY <1>0d, <1>2, <2>1 DEF To, Create
    <3>. QED
      BY <3>1, <1>0, <1>0a, <1>2 DEF Create, Informed, Before, Holding, InProgress
  <2>. QED
    BY <1>2, <1>0c, <1>0f, <2>1 DEF Create, AfterCreate
<1>3. CASE Insert(j)
  <2>1. r \in InProgress /\ pod'[r.pod] # Absent
    <3>1. pod'[r.pod] = [phase |-> "Pending", marked |-> FALSE]
      BY <1>0, <1>0a, <1>3 DEF Insert, TypeOK
    <3>. QED
      BY <1>0a, <1>3, <3>1 DEF Insert, Absent
  <2>2. Informed(Proceed(r, "indexRead", 3), pod')
    BY <2>1, AttemptInformed DEF Steps, Before, Holding, Proceed, Attempt
  <2>. QED
    BY <1>3, <1>0d, <2>2 DEF Insert
<1>4. CASE Read(j)
  <2>. DEFINE p == r.pod
              next == AfterRead(j, p, pod[p])
              q == [r EXCEPT !.at = next, !.phase = pod[p].phase, !.marked = pod[p].marked,
                             !.due = IF r.op \in CollectorOps THEN age[p] ELSE 0]
  <2>0. r \in InProgress /\ r.op # "none" /\ p \in Pods /\ e # Absent /\ pod' = pod
    BY <1>4, <1>0a, <1>0b DEF Read, Before
  <2>1. r.op \in (UserOps \cup CollectorOps) \ {"provision"}
    BY <1>4, <1>0 DEF Read, Staged, OpsAt
  <2>2. /\ next \in {"call", "describe", "mark", "status", "gate", "health", "end"}
        /\ next = "call" /\ r.op = "start" => e.phase \in {"Succeeded", "Failed"}
    BY <2>1 DEF AfterRead, UserOps, CollectorOps
  <2>3. CASE next = "end"
    BY <1>4, <2>3, <1>0c, <1>0f DEF Read
  <2>4. CASE next = "gate"
    <3>1. Informed(Proceed(r, "gate", 0), pod')
      BY <2>0, AttemptInformed DEF Steps, Before, Holding, Proceed, Attempt
    <3>. QED
      BY <1>4, <2>4, <3>1, <1>0d DEF Read
  <2>5. CASE next \notin {"end", "gate"}
    <3>1. job'[j] = Reading(q, PodKey(p))
      BY <1>4, <2>5, <1>0d DEF Read
    <3>2. /\ job'[j].op = r.op /\ job'[j].pod = p /\ job'[j].at = next
          /\ job'[j].phase = e.phase /\ job'[j].marked = e.marked
          /\ job'[j].key = PodKey(p) /\ job'[j].seen = r.seen
      <4>. HIDE DEF next
      <4>. QED
        BY <2>0, <3>1 DEF Reading, InProgress
    <3>3. Entity(job'[j]) = e /\ e.phase \in Phases
      BY <2>0, <3>2, <1>0, EntityShape DEF Entity
    <3>4. Agrees(job'[j], e)
      <4>. HIDE DEF next
      <4>. QED
        BY <2>2, <2>5, <3>2, <3>3 DEF Agrees
    <3>. QED
      <4>. HIDE DEF next
      <4>. QED
        BY <1>0, <2>0, <2>2, <2>5, <3>2, <3>3, <3>4 DEF Informed, Before
  <2>. QED
    BY <2>3, <2>4, <2>5
<1>5. CASE CallProvider(j)
  <2>. DEFINE f == Transition(r.op, [phase |-> r.phase, marked |-> r.marked])
              q == [r EXCEPT !.at = "write", !.phase = f.phase, !.marked = f.marked]
  <2>0. /\ r \in InProgress /\ r.op \in {"stop", "start", "restart", "update"} /\ r.pod \in Pods
        /\ e # Absent /\ pod' = pod /\ r.at = "call"
    BY <1>5, <1>0, <1>0a, <1>0b DEF CallProvider, Staged, OpsAt, Before
  <2>1. /\ r.key = PodKey(r.pod)
        /\ r.fresh => Entity(r) = e /\ (r.op = "start" => r.phase \in {"Succeeded", "Failed"})
    BY <1>0, <2>0 DEF Informed, Holding, Agrees
  <2>2. CASE End(j)
    BY <2>2, <1>0c, <1>0f
  <2>3. CASE job'[j] = q /\ (r.op = "stop" => r.phase = "Running")
    <3>1. /\ f.phase \in Phases /\ f = [phase |-> f.phase, marked |-> f.marked]
          /\ f = Transition(r.op, Entity(r))
      BY <2>0 DEF Transition, InProgress, Phases, Entity
    <3>2. /\ q.op = r.op /\ q.pod = r.pod /\ q.at = "write" /\ q.phase = f.phase
          /\ q.marked = f.marked /\ q.key = r.key /\ q.fresh = r.fresh /\ q.seen = r.seen
      <4>. HIDE DEF f
      <4>. QED
        BY <2>0 DEF InProgress
    <3>3. Entity(q) = f
      <4>. HIDE DEF f, q
      <4>. QED
        BY <3>1, <3>2 DEF Entity
    <3>4. r.fresh => Allowed(r.op, e, f)
      <4>1. ASSUME r.fresh PROVE Allowed(r.op, e, f)
        <5>1. f = Transition(r.op, e) /\ e.phase = r.phase
          BY <2>1, <3>1, <4>1 DEF Entity
        <5>. HIDE DEF f
        <5>. QED
          BY <2>0, <2>1, <2>3, <4>1, <5>1 DEF Allowed
      <4>. QED
        BY <4>1
    <3>. QED
      <4>. HIDE DEF f, q
      <4>. QED
        BY <1>0, <2>0, <2>1, <2>3, <3>1, <3>2, <3>3, <3>4 DEF Informed, Before, Agrees
  <2>. QED
    BY <1>5, <1>0d, <2>2, <2>3 DEF CallProvider
<1>6. CASE Describe(j)
  <2>0. /\ r \in InProgress /\ r.op = "sync" /\ r.pod \in Pods /\ e # Absent /\ pod' = pod
        /\ r.at = "describe"
    BY <1>6, <1>0, <1>0a, <1>0b DEF Describe, Staged, OpsAt, Before
  <2>1. r.key = PodKey(r.pod) /\ (r.fresh => Entity(r) = e)
    BY <1>0, <2>0 DEF Informed, Holding, Agrees
  <2>2. ASSUME NEW ph \in PhasesOf(cloud[r.pod]),
               job'[j] = [r EXCEPT !.at = "write", !.phase = ph]
        PROVE  Informed(job'[j], pod')
    <3>1. ph \in Phases
      <4>1. cloud[r.pod] \in {"none", "pending", "up", "exited"}
        BY <1>0, <2>0 DEF TypeOK
      <4>. QED
        BY <2>2, <4>1 DEF PhasesOf, Phases
    <3>2. /\ job'[j].op = "sync" /\ job'[j].pod = r.pod /\ job'[j].at = "write"
          /\ job'[j].phase = ph /\ job'[j].marked = r.marked /\ job'[j].key = r.key
          /\ job'[j].fresh = r.fresh /\ job'[j].seen = r.seen
      BY <2>0, <2>2 DEF InProgress
    <3>3. r.fresh => Allowed("sync", e, Entity(job'[j]))
      <4>1. ASSUME r.fresh PROVE e.marked = r.marked
        BY <2>1, <4>1 DEF Entity
      <4>. QED
        BY <2>0, <3>1, <3>2, <4>1 DEF Allowed, Entity, Phases
    <3>. QED
      BY <1>0, <2>0, <2>1, <3>1, <3>2, <3>3 DEF Informed, Before, Agrees
  <2>. QED
    BY <1>6, <1>0c, <1>0d, <1>0f, <2>2 DEF Describe
<1>7. CASE Mark(j)
  <2>0. /\ r \in InProgress /\ r.op = "terminate" /\ r.pod \in Pods /\ e # Absent
        /\ pod'[r.pod] # Absent /\ r.at = "mark"
    BY <1>7, <1>0, <1>0a, <1>0b DEF Mark, Staged, OpsAt, Before
  <2>1. r.key = PodKey(r.pod) /\ \A p \in r.seen : p \in Pods /\ pod[p] # Absent
    BY <1>0, <2>0 DEF Informed, Holding, InProgress
  <2>2. CASE End(j)
    BY <2>2, <1>0c, <1>0f
  <2>. DEFINE q == [r EXCEPT !.at = "delete", !.phase = "Failed", !.marked = TRUE]
  <2>3. CASE job'[j] = q /\ pod' = [pod EXCEPT ![r.pod] = [phase |-> r.phase, marked |-> TRUE]]
    <3>1. /\ q.op = "terminate" /\ q.pod = r.pod /\ q.at = "delete" /\ q.phase = "Failed"
          /\ q.marked = TRUE /\ q.key = r.key /\ q.seen = r.seen
      BY <2>0 DEF InProgress
    <3>2. pod'[r.pod] = [phase |-> r.phase, marked |-> TRUE]
      BY <1>0, <2>0, <2>3 DEF TypeOK
    <3>3. Allowed("terminate", pod'[r.pod], Entity(q))
      BY <3>1, <3>2 DEF Allowed, Entity, Transition
    <3>4. \A p \in q.seen : pod'[p] # Absent
      BY <2>1, <3>1, EntitiesStay
    <3>. QED
      <4>. HIDE DEF q
      <4>. QED
        BY <2>0, <2>1, <2>3, <3>1, <3>3, <3>4 DEF Informed, Before, Agrees, Phases
  <2>. QED
    BY <1>7, <1>0e, <2>2, <2>3 DEF Mark
<1>8. CASE Status(j)
  <2>0. /\ r \in InProgress /\ r.op = "gc" /\ r.pod \in Pods /\ e # Absent /\ pod' = pod
        /\ r.at = "status"
    BY <1>8, <1>0, <1>0a, <1>0b DEF Status, Staged, OpsAt, Before
  <2>1. r.key = PodKey(r.pod) /\ (r.fresh => Entity(r) = e) /\ r.phase \in Phases
    BY <1>0, <2>0 DEF Informed, Holding, Agrees
  <2>. DEFINE failed == [r EXCEPT !.at = "write", !.phase = "Failed", !.marked = TRUE]
              due == [r EXCEPT !.at = "delete", !.phase = IF r.phase \in {"Succeeded", "Failed"}
                                                          THEN @ ELSE "Failed"]
  <2>2. Informed(failed, pod)
    <3>1. /\ failed.op = "gc" /\ failed.pod = r.pod /\ failed.at = "write"
          /\ failed.phase = "Failed" /\ failed.marked = TRUE /\ failed.key = r.key
          /\ failed.seen = r.seen
      BY <2>0 DEF InProgress
    <3>2. Allowed("gc", e, Entity(failed))
      BY <2>0, <3>1 DEF Allowed, Entity
    <3>. QED
      <4>. HIDE DEF failed
      <4>. QED
        BY <1>0, <2>0, <2>1, <3>1, <3>2 DEF Informed, Before, Agrees, Phases
  <2>3. ASSUME Collectable(r) PROVE Informed(due, pod)
    <3>1. /\ due.op = "gc" /\ due.pod = r.pod /\ due.at = "delete"
          /\ due.phase = IF r.phase \in {"Succeeded", "Failed"} THEN r.phase ELSE "Failed"
          /\ due.marked = r.marked /\ due.key = r.key /\ due.seen = r.seen
          /\ due.fresh = r.fresh
      BY <2>0 DEF InProgress
    <3>2. r.fresh => Entity(due) = e \/ Allowed("gc", e, Entity(due))
      <4>1. CASE r.phase \in {"Succeeded", "Failed"}
        BY <2>1, <3>1, <4>1 DEF Entity
      <4>2. CASE r.phase \notin {"Succeeded", "Failed"}
        <5>1. r.marked = TRUE
          BY <2>0, <2>3, <4>2 DEF Collectable, InProgress
        <5>. QED
          BY <2>0, <3>1, <4>2, <5>1 DEF Allowed, Entity
      <4>. QED
        BY <4>1, <4>2
    <3>. QED
      <4>. HIDE DEF due
      <4>. QED
        BY <1>0, <2>0, <2>1, <3>1, <3>2 DEF Informed, Before, Agrees, Phases
  <2>. QED
    BY <1>8, <1>0c, <1>0d, <1>0f, <2>0, <2>2, <2>3 DEF Status
<1>9. CASE Delete(j)
  <2>0. r \in InProgress /\ r.pod \in Pods /\ e # Absent /\ pod' = pod /\ r.at = "delete"
    BY <1>9, <1>0, <1>0a, <1>0b DEF Delete, Before
  <2>1. CASE r.op = "check"
    <3>1. Informed(Proceed(r, "reread", 3), pod')
      BY <2>0, AttemptInformed DEF Steps, Before, Holding, Proceed, Attempt
    <3>. QED
      BY <1>9, <2>1, <3>1, <1>0d DEF Delete
  <2>2. CASE r.op # "check"
    <3>. DEFINE q == [r EXCEPT !.at = "write"]
    <3>1. job'[j] = q
      BY <1>9, <2>2, <1>0d DEF Delete, To
    <3>2. /\ q.op = r.op /\ q.pod = r.pod /\ q.at = "write" /\ q.phase = r.phase
          /\ q.marked = r.marked /\ q.key = r.key /\ q.fresh = r.fresh /\ q.seen = r.seen
      BY <2>0 DEF InProgress
    <3>3. Entity(q) = Entity(r)
      BY <3>2 DEF Entity
    <3>. QED
      <4>. HIDE DEF q
      <4>. QED
        BY <1>0, <2>0, <2>2, <3>1, <3>2, <3>3 DEF Informed, Before, Agrees, Holding
  <2>. QED
    BY <2>1, <2>2
<1>10. CASE Write(j)
  <2>1. r \in InProgress /\ pod'[r.pod] # Absent
    BY <1>10, <1>0a, <1>0b DEF Write, Before
  <2>2. Informed(Proceed(r, "indexRead", 3), pod')
    BY <2>1, AttemptInformed DEF Steps, Before, Holding, Proceed, Attempt
  <2>. QED
    BY <1>10, <1>0c, <1>0e, <1>0f, <2>2 DEF Write
<1>11. CASE IndexRead(j)
  <2>0. /\ r \in InProgress /\ r.op \in {"provision", "terminate", "gc", "check"}
        /\ r.pod \in Pods /\ e # Absent /\ pod' = pod /\ IndexedExist
    BY <1>11, <1>0, <1>0a, <1>0b DEF IndexRead, Staged, OpsAt, Before, PodInv
  <2>. DEFINE q == [Reading(r, IndexKey) EXCEPT !.at = "indexWrite", !.seen = ids]
  <2>1. Informed(q, pod)
    <3>1. q.op = r.op /\ q.pod = r.pod /\ q.at = "indexWrite" /\ q.seen = ids
      BY <2>0 DEF Reading, InProgress
    <3>. QED
      <4>. HIDE DEF q
      <4>. QED
        BY <2>0, <3>1 DEF Informed, Before, Holding, IndexedExist
  <2>2. Informed(AfterIndex(r), pod)
    BY <2>0, AfterIndexInformed
  <2>3. Informed(Retry(r, "indexRead", AfterIndex(r)), pod)
    BY <2>0, <2>2, RetryInformed DEF Steps, Before, Holding, Proceed, Attempt
  <2>. QED
    BY <1>11, <1>0d, <2>0, <2>1, <2>3 DEF IndexRead
<1>12. CASE IndexWrite(j)
  <2>0. /\ r \in InProgress /\ r.op \in {"provision", "terminate", "gc", "check"}
        /\ r.pod \in Pods /\ e # Absent /\ pod' = pod
    BY <1>12, <1>0, <1>0a, <1>0b DEF IndexWrite, Staged, OpsAt, Before
  <2>2. Informed(AfterIndex(r), pod)
    BY <2>0, AfterIndexInformed
  <2>3. Informed(Retry(r, "indexRead", AfterIndex(r)), pod)
    BY <2>0, <2>2, RetryInformed DEF Steps, Before, Holding, Proceed, Attempt
  <2>. QED
    BY <1>12, <1>0d, <1>0e, <2>0, <2>2, <2>3 DEF IndexWrite
<1>13. CASE UsageRead(j)
  <2>0. r \in InProgress /\ r.pod \in Pods /\ e # Absent /\ pod' = pod
    BY <1>13, <1>0a, <1>0b DEF UsageRead, Before
  <2>. DEFINE q == [Reading(r, UsageKey) EXCEPT !.at = "usageWrite"]
  <2>1. Informed(q, pod)
    <3>1. q.op = r.op /\ q.pod = r.pod /\ q.at = "usageWrite" /\ q.seen = r.seen
      BY <2>0 DEF Reading, InProgress
    <3>. QED
      <4>. HIDE DEF q
      <4>. QED
        BY <1>0, <2>0, <3>1 DEF Informed, Before, Holding
  <2>. QED
    BY <1>13, <1>0c, <1>0d, <1>0f, <2>0, <2>1 DEF UsageRead
<1>14. CASE UsageWrite(j)
  <2>0. r \in InProgress /\ r.pod \in Pods /\ e # Absent /\ pod' = pod
    BY <1>14, <1>0a, <1>0b DEF UsageWrite, Before
  <2>1. Informed(Retry(r, "usageRead", Idle), pod)
    BY <2>0, IdleInformed, RetryInformed DEF Steps, Before, Holding, Proceed, Attempt
  <2>. QED
    BY <1>14, <1>0d, <1>0e, <1>0f, <2>0, <2>1 DEF UsageWrite, AfterUsage
<1>15. CASE Health(j)
  <2>0. r \in InProgress /\ r.pod \in Pods /\ e # Absent /\ pod' = pod
    BY <1>15, <1>0a, <1>0b DEF Health, Before
  <2>1. Informed(Proceed(r, "gate", 0), pod)
    BY <2>0, AttemptInformed DEF Steps, Before, Holding, Proceed, Attempt
  <2>2. Informed(Begin("sync", r.pod, "read"), pod)
    BY <2>0 DEF Informed, Begin, Attempt, Before, Holding
  <2>. QED
    BY <1>15, <1>0c, <1>0d, <1>0f, <2>0, <2>1, <2>2
       DEF Health, HealthPending, HealthRunning, Collect
<1>16. CASE Gate(j)
  <2>0. r \in InProgress /\ r.pod \in Pods /\ e # Absent /\ pod' = pod
    BY <1>16, <1>0a, <1>0b DEF Gate, Before
  <2>. DEFINE q == [Reading(r, MarkerKey(r.pod)) EXCEPT !.at = "setMarker"]
  <2>1. Informed(q, pod)
    <3>1. q.op = r.op /\ q.pod = r.pod /\ q.at = "setMarker" /\ q.seen = r.seen
      BY <2>0 DEF Reading, InProgress
    <3>. QED
      <4>. HIDE DEF q
      <4>. QED
        BY <1>0, <2>0, <3>1 DEF Informed, Before, Holding
  <2>. QED
    BY <1>16, <1>0c, <1>0d, <1>0f, <2>0, <2>1 DEF Gate
<1>17. CASE SetMarker(j)
  <2>0. r \in InProgress /\ r.op = "check" /\ r.pod \in Pods /\ e # Absent /\ pod' = pod
    BY <1>17, <1>0, <1>0a, <1>0b DEF SetMarker, Staged, OpsAt, Before
  <2>1. Informed(Proceed(r, "delete", 0), pod)
    BY <2>0, AttemptInformed DEF Steps, Before, Holding, Proceed, Attempt
  <2>. QED
    BY <1>17, <1>0d, <1>0e, <2>0, <2>1 DEF SetMarker
<1>18. CASE Reread(j)
  <2>0. r \in InProgress /\ r.op = "check" /\ r.pod \in Pods /\ e # Absent /\ pod' = pod
    BY <1>18, <1>0, <1>0a, <1>0b DEF Reread, Staged, OpsAt, Before
  <2>. DEFINE q == [Reading(r, PodKey(r.pod)) EXCEPT
                      !.at = "rewrite", !.phase = "Failed", !.marked = pod[r.pod].marked]
  <2>1. /\ q.op = "check" /\ q.pod = r.pod /\ q.at = "rewrite" /\ q.phase = "Failed"
        /\ q.marked = e.marked /\ q.key = PodKey(r.pod) /\ q.seen = r.seen
    BY <2>0 DEF Reading, InProgress
  <2>2. Allowed("check", e, Entity(q))
    <3>. HIDE DEF q
    <3>. QED
      BY <2>0, <2>1 DEF Allowed, Entity
  <2>3. Informed(q, pod)
    <3>. HIDE DEF q
    <3>. QED
      BY <1>0, <2>0, <2>1, <2>2 DEF Informed, Before, Agrees, Phases
  <2>. QED
    BY <1>18, <1>0d, <2>0, <2>3 DEF Reread
<1>19. CASE Rewrite(j)
  <2>0. r \in InProgress /\ r.op = "check" /\ r.pod \in Pods /\ pod'[r.pod] # Absent
    BY <1>19, <1>0, <1>0a, <1>0b DEF Rewrite, Staged, OpsAt, Before
  <2>1. Informed(Proceed(r, "indexRead", 1), pod') /\ Informed(Proceed(r, "unmarkRead", 0), pod')
    BY <2>0, AttemptInformed DEF Steps, Before, Holding, Proceed, Attempt
  <2>2. Informed(Retry(r, "reread", Proceed(r, "unmarkRead", 0)), pod')
    BY <2>0, <2>1, RetryInformed DEF Steps, Before, Holding, Proceed, Attempt
  <2>. QED
    BY <1>19, <1>0d, <1>0e, <2>1, <2>2 DEF Rewrite
<1>20. CASE UnmarkRead(j)
  <2>0. r \in InProgress /\ r.pod \in Pods /\ e # Absent /\ pod' = pod
    BY <1>20, <1>0a, <1>0b DEF UnmarkRead, Before
  <2>. DEFINE q == [Reading(r, MarkerKey(r.pod)) EXCEPT !.at = "unmarkWrite"]
  <2>1. Informed(q, pod)
    <3>1. q.op = r.op /\ q.pod = r.pod /\ q.at = "unmarkWrite" /\ q.seen = r.seen
      BY <2>0 DEF Reading, InProgress
    <3>. QED
      <4>. HIDE DEF q
      <4>. QED
        BY <1>0, <2>0, <3>1 DEF Informed, Before, Holding
  <2>. QED
    BY <1>20, <1>0c, <1>0d, <1>0f, <2>0, <2>1 DEF UnmarkRead
<1>21. CASE UnmarkWrite(j)
  BY <1>21, <1>0c, <1>0e, <1>0f DEF UnmarkWrite
<1>. QED
  BY <1>1, <1>2, <1>3, <1>4, <1>5, <1>6, <1>7, <1>8, <1>9, <1>10, <1>11, <1>12, <1>13, <1>14,
     <1>15, <1>16, <1>17, <1>18, <1>19, <1>20, <1>21 DEF JobStep

\* A step of a job leaves the state well typed.
LEMMA JobStepsTypeOK ==
  ASSUME PodInv, NEW j \in Jobs, JobStep(j)
  PROVE  TypeOK'
<1>. DEFINE r == job[j]
<1>0. Informed(r, pod) /\ Staged(r, j) /\ TypeOK
  BY DEF PodInv, JobsTyped
<1>0a. r.at # "idle" => r \in InProgress /\ r.op # "none" /\ r.pod \in Pods
  BY <1>0, RunningShape DEF InProgress
<1>1. pod' \in [Pods -> [phase : Phases, marked : BOOLEAN] \cup {Absent}]
  <2>1. CASE pod' = pod
    BY <1>0, <2>1 DEF TypeOK
  <2>2. CASE pod' = [pod EXCEPT ![r.pod] = [phase |-> "Pending", marked |-> FALSE]]
    BY <1>0, <2>2 DEF TypeOK, Phases
  <2>3. CASE /\ r.at \in {"mark", "write", "rewrite"}
             /\ pod' = [pod EXCEPT ![r.pod] =
                          [phase |-> r.phase,
                           marked |-> IF r.at = "mark" THEN TRUE ELSE r.marked]]
    <3>1. r.phase \in Phases /\ r.marked \in BOOLEAN
      BY <1>0, <1>0a, <2>3 DEF Informed, Holding, InProgress
    <3>2. (IF r.at = "mark" THEN TRUE ELSE r.marked) \in BOOLEAN
      BY <3>1
    <3>3. [phase |-> r.phase, marked |-> IF r.at = "mark" THEN TRUE ELSE r.marked]
            \in [phase : Phases, marked : BOOLEAN]
      BY <3>1, <3>2
    <3>. QED
      BY <1>0, <2>3, <3>3 DEF TypeOK
  <2>. QED
    BY <2>1, <2>2, <2>3, EntitySteps
<1>2. cloud' \in [Pods -> {"none", "pending", "up", "exited"}]
  <2>1. CASE Create(j)
    BY <1>0, <2>1 DEF Create, TypeOK
  <2>2. CASE CallProvider(j)
    <3>1. r.pod \in Pods
      BY <1>0a, <2>2 DEF CallProvider
    <3>2. Effect(r.op, cloud[r.pod]) \in {"none", "pending", "up", "exited"}
      BY <1>0, <3>1 DEF Effect, TypeOK
    <3>. QED
      BY <1>0, <2>2, <3>2 DEF CallProvider, Provider, TypeOK
  <2>3. CASE Delete(j)
    BY <1>0, <2>3 DEF Delete, Provider, TypeOK
  <2>4. CASE ~(Create(j) \/ CallProvider(j) \/ Delete(j))
    <3>1. cloud' = cloud
      BY <2>4 DEF JobStep, CheckQuota, Insert, Read, Describe, Mark, Status, Write, IndexRead,
                  IndexWrite, UsageRead, UsageWrite, Health, Gate, SetMarker, Reread, Rewrite,
                  UnmarkRead, UnmarkWrite
    <3>. QED
      BY <1>0, <3>1 DEF TypeOK
  <2>. QED
    BY <2>1, <2>2, <2>3, <2>4
<1>3. age' \in [Pods -> 0..2] /\ stable' \in [Collectors -> SUBSET Pods]
      /\ fails' \in [Pods -> 0..MaxFails]
  <2>1. CASE Mark(j) \/ Write(j) \/ Rewrite(j)
    <3>1. ASSUME NEW p, Touch(p)
          PROVE  age' \in [Pods -> 0..2] /\ stable' \in [Collectors -> SUBSET Pods]
      <4>1. (IF age[p] = 0 THEN 0 ELSE 1) \in 0..2
        OBVIOUS
      <4>2. age' \in [Pods -> 0..2]
        BY <1>0, <3>1, <4>1 DEF Touch, TypeOK
      <4>3. \A c \in Collectors : stable[c] \ {p} \in SUBSET Pods
        BY <1>0 DEF TypeOK
      <4>. QED
        BY <3>1, <4>2, <4>3 DEF Touch
    <3>. QED
      BY <1>0, <2>1, <3>1 DEF Mark, Write, Rewrite, TypeOK
  <2>2. CASE Health(j)
    <3>1. j \in Collectors /\ r.pod \in Pods
      BY <1>0, <1>0a, <2>2 DEF Health, Staged, OpsAt, CollectorOps
    <3>2. CASE \E gone : HealthPending(j, r, gone)
      BY <1>0, <2>2, <3>2 DEF Health, HealthPending, TypeOK
    <3>3. CASE \E gone : HealthRunning(j, r, gone)
      <4>1. fails[r.pod] \in 0..MaxFails /\ MaxFails \in Nat /\ stable[j] \subseteq Pods
        BY <1>0, <3>1 DEF TypeOK
      <4>2. fails[r.pod] # MaxFails => fails[r.pod] + 1 \in 0..MaxFails
        BY <4>1
      <4>3. fails' \in [Pods -> 0..MaxFails]
        BY <1>0, <3>3, <4>1, <4>2 DEF HealthRunning, TypeOK
      <4>4. stable' \in [Collectors -> SUBSET Pods]
        BY <1>0, <3>1, <3>3, <4>1 DEF HealthRunning, TypeOK
      <4>. QED
        BY <1>0, <2>2, <4>3, <4>4 DEF Health, TypeOK
    <3>. QED
      BY <2>2, <3>2, <3>3 DEF Health
  <2>3. CASE ~(Mark(j) \/ Write(j) \/ Rewrite(j) \/ Health(j))
    <3>1. UNCHANGED <<age, stable, fails>>
      BY <2>3 DEF JobStep, CheckQuota, Create, Insert, Read, CallProvider, Describe, Status,
                  Delete, IndexRead, IndexWrite, UsageRead, UsageWrite, Gate, SetMarker, Reread,
                  UnmarkRead, UnmarkWrite
    <3>. QED
      BY <1>0, <3>1 DEF TypeOK
  <2>. QED
    BY <2>1, <2>2, <2>3
<1>4. ids' \subseteq Pods /\ usage' \in Nat /\ made' \subseteq {IndexKey, UsageKey}
  <2>1. CASE IndexWrite(j)
    <3>1. r.pod \in Pods /\ r.seen \subseteq Pods
      BY <1>0a, <2>1 DEF IndexWrite, InProgress
    <3>. QED
      BY <1>0, <2>1, <3>1 DEF IndexWrite, TypeOK
  <2>2. CASE UsageWrite(j)
    BY <1>0, <2>2 DEF UsageWrite, Count, TypeOK
  <2>3. CASE ~(IndexWrite(j) \/ UsageWrite(j))
    <3>1. UNCHANGED <<ids, usage, made>>
      BY <2>3 DEF JobStep, CheckQuota, Create, Insert, Read, CallProvider, Describe, Mark,
                  Status, Delete, Write, IndexRead, UsageRead, Health, Gate, SetMarker, Reread,
                  Rewrite, UnmarkRead, UnmarkWrite
    <3>. QED
      BY <1>0, <3>1 DEF TypeOK
  <2>. QED
    BY <2>1, <2>2, <2>3
<1>5. marker' \in [Pods -> {"none", "live", "expired", "null"}]
  <2>1. CASE SetMarker(j) \/ UnmarkWrite(j)
    BY <1>0, <2>1 DEF SetMarker, UnmarkWrite, TypeOK
  <2>2. CASE ~(SetMarker(j) \/ UnmarkWrite(j))
    <3>1. marker' = marker
      BY ZenonT(40), <2>2 DEF JobStep, CheckQuota, Create, Insert, Read, CallProvider, Describe, Mark,
                  Status, Delete, Write, IndexRead, IndexWrite, UsageRead, UsageWrite, Health,
                  Gate, Reread, Rewrite, UnmarkRead
    <3>. QED
      BY <1>0, <3>1 DEF TypeOK
  <2>. QED
    BY <2>1, <2>2
<1>6. UNCHANGED <<calls, crashes>>
  BY DEF JobStep, CheckQuota, Create, Insert, Read, CallProvider, Describe, Mark, Status, Delete,
         Write, IndexRead, IndexWrite, UsageRead, UsageWrite, Health, Gate, SetMarker, Reread,
         Rewrite, UnmarkRead, UnmarkWrite
<1>7. job' \in [Jobs -> InProgress \cup {Idle}]
  BY JobStepsTyped DEF PodInv, JobsTyped
<1>. QED
  BY <1>0, <1>1, <1>2, <1>3, <1>4, <1>5, <1>6, <1>7 DEF TypeOK

\* A job keeps its operation and its pod until it stops; the health check may go on
\* as syncRuntime().
SameCall(r, q) == q = Idle \/ (q.pod = r.pod /\ (q.op = r.op \/ q.op = "sync"))

LEMMA OwnCall ==
  ASSUME PodInv, NEW j \in Jobs, JobStep(j)
  PROVE  SameCall(job[j], job'[j])
<1>. DEFINE r == job[j]
<1>0. Staged(r, j) /\ job \in [Jobs -> InProgress \cup {Idle}]
  BY DEF PodInv, JobsTyped
<1>0a. r.at # "idle" => r \in InProgress
  BY <1>0, RunningShape
<1>0b. SameCall(r, Idle) /\ \A at, n : SameCall(r, Proceed(r, at, n))
  BY DEF SameCall, Proceed, Attempt
<1>0c. \A at, q : SameCall(r, q) => SameCall(r, Retry(r, at, q))
  BY <1>0b DEF Retry
<1>0d. r.at \in {"indexRead", "indexWrite"} => SameCall(r, AfterIndex(r))
  <2>1. ASSUME r.at \in {"indexRead", "indexWrite"}
        PROVE  r.op \in {"provision", "terminate", "gc", "check"}
    BY <1>0, <2>1 DEF Staged, OpsAt
  <2>2. r.op \in {"provision", "terminate", "check"} =>
          AfterIndex(r) \in {Proceed(r, "usageRead", 3), Proceed(r, "unmarkRead", 0)}
    BY DEF AfterIndex
  <2>3. r.op = "gc" => AfterIndex(r) = Idle
    BY DEF AfterIndex
  <2>. QED
    BY <1>0b, <2>1, <2>2, <2>3
<1>0e. /\ \A q : Go(j, q) => job'[j] = q
       /\ \A q, key : Wrote(j, key, q) => job'[j] = q
  BY <1>0 DEF Go, Wrote
<1>0f. End(j) => SameCall(r, job'[j])
  BY <1>0b, <1>0e DEF End
<1>1. CASE CheckQuota(j) \/ Create(j) \/ Delete(j)
  <2>1. r \in InProgress
    BY <1>0a, <1>1 DEF CheckQuota, Create, Delete
  <2>2. ASSUME NEW at, To(j, at) PROVE SameCall(r, job'[j])
    <3>1. job'[j] = [r EXCEPT !.at = at]
      BY <1>0e, <2>2 DEF To
    <3>. QED
      BY <2>1, <3>1 DEF InProgress, SameCall
  <2>. QED
    BY <1>1, <1>0b, <1>0e, <1>0f, <2>2 DEF CheckQuota, Create, Delete
<1>2. CASE Insert(j) \/ Write(j) \/ SetMarker(j) \/ UnmarkWrite(j) \/ Rewrite(j)
  BY <1>2, <1>0b, <1>0c, <1>0e, <1>0f DEF Insert, Write, SetMarker, UnmarkWrite, Rewrite
<1>3. CASE Read(j)
  <2>1. r \in InProgress
    BY <1>0a, <1>3 DEF Read
  <2>2. ASSUME NEW at, NEW ph, NEW m, NEW d, NEW k,
               job'[j] = Reading([r EXCEPT !.at = at, !.phase = ph, !.marked = m, !.due = d], k)
        PROVE  SameCall(r, job'[j])
    BY <2>1, <2>2 DEF Reading, InProgress, SameCall
  <2>3. \/ End(j) \/ Go(j, Proceed(r, "gate", 0))
        \/ \E at, ph, m, d, k :
             Go(j, Reading([r EXCEPT !.at = at, !.phase = ph, !.marked = m, !.due = d], k))
    BY <1>3 DEF Read
  <2>. QED
    BY <1>0b, <1>0e, <1>0f, <2>2, <2>3
<1>4. CASE CallProvider(j) \/ Mark(j) \/ Status(j) \/ Describe(j)
  <2>1. r \in InProgress
    BY <1>0a, <1>4 DEF CallProvider, Mark, Status, Describe
  <2>2. ASSUME NEW at, NEW ph, NEW m, job'[j] = [r EXCEPT !.at = at, !.phase = ph, !.marked = m]
        PROVE  SameCall(r, job'[j])
    BY <2>1, <2>2 DEF InProgress, SameCall
  <2>3. ASSUME NEW at, NEW ph, job'[j] = [r EXCEPT !.at = at, !.phase = ph]
        PROVE  SameCall(r, job'[j])
    BY <2>1, <2>3 DEF InProgress, SameCall
  <2>4. CASE CallProvider(j)
    <3>1. End(j) \/ \E at, ph, m : Go(j, [r EXCEPT !.at = at, !.phase = ph, !.marked = m])
      BY <2>4 DEF CallProvider
    <3>. QED
      BY <1>0e, <1>0f, <2>2, <3>1
  <2>5. CASE Mark(j)
    <3>1. End(j) \/ \E key, at, ph, m :
            Wrote(j, key, [r EXCEPT !.at = at, !.phase = ph, !.marked = m])
      BY <2>5 DEF Mark
    <3>. QED
      BY <1>0e, <1>0f, <2>2, <3>1
  <2>6. CASE Status(j)
    <3>1. \/ End(j)
          \/ \E at, ph, m : Go(j, [r EXCEPT !.at = at, !.phase = ph, !.marked = m])
          \/ \E at, ph : Go(j, [r EXCEPT !.at = at, !.phase = ph])
      BY <2>6 DEF Status
    <3>. QED
      BY <1>0e, <1>0f, <2>2, <2>3, <3>1
  <2>7. CASE Describe(j)
    <3>1. End(j) \/ \E at, ph : Go(j, [r EXCEPT !.at = at, !.phase = ph])
      BY <2>7 DEF Describe
    <3>. QED
      BY <1>0e, <1>0f, <2>3, <3>1
  <2>. QED
    BY <1>4, <2>4, <2>5, <2>6, <2>7
<1>5. CASE IndexRead(j)
  <2>1. r \in InProgress
    BY <1>0a, <1>5 DEF IndexRead
  <2>2. SameCall(r, [Reading(r, IndexKey) EXCEPT !.at = "indexWrite", !.seen = ids])
    BY <2>1 DEF Reading, InProgress, SameCall
  <2>3. SameCall(r, Retry(r, "indexRead", AfterIndex(r)))
    BY <1>5, <1>0c, <1>0d DEF IndexRead
  <2>. QED
    BY <1>5, <1>0e, <2>2, <2>3 DEF IndexRead
<1>6. CASE IndexWrite(j)
  <2>1. SameCall(r, AfterIndex(r)) /\ SameCall(r, Retry(r, "indexRead", AfterIndex(r)))
    BY <1>6, <1>0c, <1>0d DEF IndexWrite
  <2>. QED
    BY <1>6, <1>0e, <2>1 DEF IndexWrite
<1>7. CASE UsageRead(j) \/ Gate(j) \/ UnmarkRead(j)
  <2>1. r \in InProgress
    BY <1>0a, <1>7 DEF UsageRead, Gate, UnmarkRead
  <2>2. ASSUME NEW at, NEW k, Go(j, [Reading(r, k) EXCEPT !.at = at])
        PROVE  SameCall(r, job'[j])
    <3>1. job'[j] = [Reading(r, k) EXCEPT !.at = at]
      BY <1>0e, <2>2
    <3>. QED
      BY <2>1, <3>1 DEF Reading, InProgress, SameCall
  <2>3. CASE UsageRead(j)
    BY <2>3, <1>0f, <2>2 DEF UsageRead
  <2>4. CASE Gate(j)
    BY <2>4, <1>0f, <2>2 DEF Gate
  <2>5. CASE UnmarkRead(j)
    BY <2>5, <1>0f, <2>2 DEF UnmarkRead
  <2>. QED
    BY <1>7, <2>3, <2>4, <2>5
<1>8. CASE UsageWrite(j)
  BY <1>8, <1>0b, <1>0c, <1>0e DEF UsageWrite, AfterUsage
<1>9. CASE Health(j)
  <2>1. SameCall(r, Begin("sync", r.pod, "read"))
    BY DEF Begin, Attempt, SameCall
  <2>. QED
    BY <1>9, <1>0b, <1>0e, <1>0f, <2>1 DEF Health, HealthPending, HealthRunning, Collect
<1>10. CASE Reread(j)
  <2>1. r \in InProgress
    BY <1>0a, <1>10 DEF Reread
  <2>. DEFINE q == [Reading(r, PodKey(r.pod)) EXCEPT
                      !.at = "rewrite", !.phase = "Failed", !.marked = pod[r.pod].marked]
  <2>2. SameCall(r, q)
    BY <2>1 DEF Reading, InProgress, SameCall
  <2>. QED
    BY <1>10, <1>0e, <2>2 DEF Reread
<1>. QED
  BY <1>1, <1>2, <1>3, <1>4, <1>5, <1>6, <1>7, <1>8, <1>9, <1>10 DEF JobStep

\* A step of a job preserves the invariant.
LEMMA JobStepsInv ==
  ASSUME PodInv, NEW j \in Jobs, JobStep(j)
  PROVE  PodInv'
<1>. DEFINE r == job[j]
<1>0. Informed(r, pod) /\ Staged(r, j) /\ TypeOK
  BY DEF PodInv, JobsTyped
<1>1. TypeOK' /\ JobsTyped'
  BY JobStepsTypeOK, JobStepsTyped DEF PodInv
<1>2. \A i \in Jobs : Informed(job'[i], pod')
  BY OthersInformed, OwnInformed
<1>3. Single'
  <2>1. \A i \in Jobs : job'[i].op = "provision" =>
                          job[i].op = "provision" /\ job'[i].pod = job[i].pod
    BY OwnCall, OthersInformed DEF SameCall, Idle
  <2>. QED
    BY <2>1 DEF PodInv, Single
<1>4. IndexedExist'
  <2>1. \A p \in ids : p \in Pods /\ pod[p] # Absent
    BY <1>0 DEF PodInv, IndexedExist, TypeOK
  <2>2. \A p \in ids' : p \in Pods /\ pod[p] # Absent
    <3>1. CASE IndexWrite(j)
      <4>1. r.pod \in Pods /\ r.seen \subseteq Pods /\ r.op # "none"
        BY <1>0, <3>1, RunningShape DEF IndexWrite, InProgress
      <4>2. pod[r.pod] # Absent /\ \A p \in r.seen : pod[p] # Absent
        BY <1>0, <3>1, <4>1 DEF Informed, IndexWrite, Before
      <4>. QED
        BY <2>1, <3>1, <4>1, <4>2 DEF IndexWrite
    <3>2. CASE ~IndexWrite(j)
      <4>1. ids' = ids
        BY <3>2 DEF JobStep, CheckQuota, Create, Insert, Read, CallProvider, Describe, Mark,
                    Status, Delete, Write, IndexRead, UsageRead, UsageWrite, Health, Gate,
                    SetMarker, Reread, Rewrite, UnmarkRead, UnmarkWrite
      <4>. QED
        BY <2>1, <4>1
    <3>. QED
      BY <3>1, <3>2
  <2>. QED
    BY <2>2, EntitiesStay DEF IndexedExist
<1>. QED
  BY <1>1, <1>2, <1>3, <1>4 DEF PodInv

\* A call that begins, and one that is cut off, preserve it too.
LEMMA CallsInv ==
  ASSUME PodInv, NEW j \in Jobs,
         \/ Crash(j)
         \/ \E p \in Pods : Provision(j, p)
         \/ \E p \in Pods, op \in UserOps \cup CollectorOps : Call(j, op, p)
  PROVE  PodInv' /\ pod' = pod
<1>0. TypeOK /\ JobsTyped
  BY DEF PodInv
<1>1. ASSUME NEW q, Go(j, q), Staged(q, j), Informed(q, pod), pod' = pod, ids' = ids, TypeOK',
             \A i \in Jobs : q.op = "provision" /\ job[i].op = "provision" => job[i].pod # q.pod
      PROVE  PodInv'
  <2>1. JobsTyped' /\ job'[j] = q /\ \A i \in Jobs \ {j} : job'[i] = job[i]
    BY <1>0, <1>1, GoTyped
  <2>2. \A i \in Jobs : Informed(job'[i], pod')
    BY <1>1, <2>1 DEF PodInv
  <2>3. Single'
    BY <1>1, <2>1 DEF PodInv, Single
  <2>. QED
    BY <1>1, <2>1, <2>2, <2>3 DEF PodInv, IndexedExist
<1>2. ASSUME Crash(j) PROVE PodInv' /\ pod' = pod
  <2>1. JobsTyped'
    BY <1>0, <1>2, GoTyped, IdleShape DEF Crash, End
  <2>2. crashes' \in 0..MaxCrashes
    BY <1>0, <1>2 DEF Crash, TypeOK
  <2>3. stable' \in [Collectors -> SUBSET Pods]
    BY <1>0, <1>2 DEF Crash, TypeOK
  <2>4. TypeOK'
    BY <1>0, <1>2, <2>1, <2>2, <2>3 DEF Crash, TypeOK, JobsTyped
  <2>. QED
    BY <1>1, <1>2, <2>4, IdleShape, IdleInformed DEF Crash, End
<1>3. ASSUME NEW p \in Pods, Provision(j, p) PROVE PodInv' /\ pod' = pod
  <2>. DEFINE q == Begin("provision", p, "quota")
  <2>1. q \in InProgress /\ q.op = "provision" /\ q.at = "quota" /\ q.pod = p /\ q.seen = {}
    <3>1. "provision" \in UserOps \cup CollectorOps /\ "quota" \in Steps \ {"idle"}
      BY DEF UserOps, Steps
    <3>. QED
      BY <3>1, BeginShape
  <2>2. Staged(q, j)
    <3>. HIDE DEF q
    <3>. QED
      BY <2>1 DEF Staged, OpsAt, CollectorOps
  <2>3. Informed(q, pod)
    <3>. HIDE DEF q
    <3>. QED
      BY <1>3, <2>1 DEF Informed, Provision, Before, Holding
  <2>4. JobsTyped'
    BY <1>0, <1>3, <2>2, GoTyped DEF Provision
  <2>5. calls' \in 0..MaxCalls
    BY <1>0, <1>3 DEF Provision, TypeOK
  <2>6. TypeOK'
    BY <1>0, <1>3, <2>4, <2>5 DEF Provision, TypeOK, JobsTyped
  <2>. QED
    <3>. HIDE DEF q
    <3>1. Go(j, q)
      BY <1>3 DEF Provision, q
    <3>. QED
      BY <1>1, <1>3, <2>1, <2>2, <2>3, <2>6, <3>1 DEF Provision
<1>4. ASSUME NEW p \in Pods, NEW op \in UserOps \cup CollectorOps, Call(j, op, p)
      PROVE  PodInv' /\ pod' = pod
  <2>. DEFINE q == Begin(op, p, "read")
  <2>0. op # "provision" /\ (op \in CollectorOps => j \in Collectors)
    BY <1>4 DEF Call, UserOps, CollectorOps
  <2>1. q \in InProgress /\ q.op = op /\ q.at = "read" /\ q.pod = p /\ q.seen = {}
    <3>1. "read" \in Steps \ {"idle"}
      BY DEF Steps
    <3>. QED
      BY <3>1, BeginShape
  <2>2. Staged(q, j)
    <3>. HIDE DEF q
    <3>. QED
      BY <2>0, <2>1 DEF Staged, OpsAt
  <2>3. Informed(q, pod)
    <3>. HIDE DEF q
    <3>. QED
      BY <1>4, <2>1 DEF Informed, Call, Before, Holding
  <2>4. JobsTyped'
    BY <1>0, <1>4, <2>2, GoTyped DEF Call
  <2>5. calls' \in 0..MaxCalls
    BY <1>0, <1>4 DEF Call, TypeOK
  <2>6. TypeOK'
    BY <1>0, <1>4, <2>4, <2>5 DEF Call, TypeOK, JobsTyped
  <2>. QED
    <3>. HIDE DEF q
    <3>1. Go(j, q)
      BY <1>4 DEF Call, q
    <3>. QED
      BY <1>1, <1>4, <2>0, <2>1, <2>2, <2>3, <2>6, <3>1 DEF Call
<1>. QED
  BY <1>2, <1>3, <1>4

\* The provider and the clock touch no call, no entity and no index.
LEMMA WorldInv ==
  ASSUME PodInv, \E p \in Pods : Boot(p) \/ Exit(p) \/ Elapse(p) \/ Expire(p)
  PROVE  PodInv' /\ pod' = pod /\ job' = job
<1>1. UNCHANGED <<pod, job, ids, usage, made, fails, stable, calls, crashes>>
  BY DEF Boot, Exit, Elapse, Expire
<1>2. /\ cloud' \in [Pods -> {"none", "pending", "up", "exited"}]
      /\ age' \in [Pods -> 0..2]
      /\ marker' \in [Pods -> {"none", "live", "expired", "null"}]
  <2>. PICK p \in Pods : Boot(p) \/ Exit(p) \/ Elapse(p) \/ Expire(p)
    OBVIOUS
  <2>. TypeOK
    BY DEF PodInv
  <2>1. CASE Boot(p) \/ Exit(p)
    BY <2>1 DEF Boot, Exit, TypeOK
  <2>2. CASE Elapse(p)
    <3>1. age[p] + 1 \in 0..2
      BY <2>2 DEF Elapse, TypeOK
    <3>. QED
      BY <2>2, <3>1 DEF Elapse, TypeOK
  <2>3. CASE Expire(p)
    BY <2>3 DEF Expire, TypeOK
  <2>. QED
    BY <2>1, <2>2, <2>3
<1>3. TypeOK'
  BY <1>1, <1>2 DEF PodInv, TypeOK
<1>. QED
  BY <1>1, <1>3 DEF PodInv, JobsTyped, Single, IndexedExist

LEMMA InitInv == Init => PodInv
<1>. SUFFICES ASSUME Init PROVE PodInv
  OBVIOUS
<1>1. TypeOK
  BY DEF Init, TypeOK, Absent
<1>2. JobsTyped
  BY IdleShape DEF Init, JobsTyped, Staged
<1>3. Single
  BY IdleShape DEF Init, Single
<1>4. \A j \in Jobs : Informed(job[j], pod)
  BY IdleInformed DEF Init
<1>. QED
  BY <1>1, <1>2, <1>3, <1>4 DEF PodInv, Init, IndexedExist

LEMMA NextInv == PodInv /\ [Next]_vars => PodInv'
<1>. SUFFICES ASSUME PodInv, [Next]_vars PROVE PodInv'
  OBVIOUS
<1>1. ASSUME NEW j \in Jobs, JobStep(j) PROVE PodInv'
  BY <1>1, JobStepsInv
<1>2. ASSUME NEW j \in Jobs,
             \/ Crash(j)
             \/ \E p \in Pods : Provision(j, p)
             \/ \E p \in Pods, op \in UserOps \cup CollectorOps : Call(j, op, p)
      PROVE  PodInv'
  BY <1>2, CallsInv
<1>3. ASSUME \E p \in Pods : Boot(p) \/ Exit(p) \/ Elapse(p) \/ Expire(p) PROVE PodInv'
  BY <1>3, WorldInv
<1>4. CASE UNCHANGED vars
  BY <1>4 DEF vars, PodInv, TypeOK, JobsTyped, Single, IndexedExist
<1>. QED
  BY <1>1, <1>2, <1>3, <1>4 DEF Next

THEOREM Knowledge == Spec => []PodInv
BY InitInv, NextInv, PTL DEF Spec

\* What the index names exists, however many calls overlap and wherever they end:
\* provision() stores the entity before addToIndex(), and nothing removes one.
THEOREM IndexSound == Spec => []IndexedExist
BY Knowledge, PTL DEF PodInv

-----------------------------------------------------------------------------
LEMMA TableStep == PodInv /\ [Next]_vars => ByTheTable
<1>. SUFFICES ASSUME PodInv, [Next]_vars, NEW p \in Pods, pod'[p] # pod[p]
              PROVE  \E j \in Jobs : /\ job[j].op # "none" /\ job[j].pod = p
                                     /\ Allowed(job[j].op, pod[p], pod'[p])
  BY DEF ByTheTable
<1>1. PICK j \in Jobs : JobStep(j)
  BY CallsInv, WorldInv DEF Next, vars
<1>. DEFINE r == job[j]
<1>2. Informed(r, pod) /\ Staged(r, j) /\ TypeOK
  BY DEF PodInv, JobsTyped
<1>3. CASE /\ r.at = "insert" /\ r.op = "provision" /\ pod[r.pod] = Absent
           /\ pod' = [pod EXCEPT ![r.pod] = [phase |-> "Pending", marked |-> FALSE]]
  <2>1. r.pod = p /\ pod'[p] = [phase |-> "Pending", marked |-> FALSE]
    BY <1>2, <1>3 DEF TypeOK
  <2>. QED
    BY <1>3, <2>1 DEF Allowed
<1>4. CASE /\ r.at \in {"mark", "write", "rewrite"} /\ r.fresh
           /\ pod' = [pod EXCEPT ![r.pod] =
                        [phase |-> r.phase,
                         marked |-> IF r.at = "mark" THEN TRUE ELSE r.marked]]
  <2>1. r.pod = p /\ pod'[p] = [phase |-> r.phase,
                                marked |-> IF r.at = "mark" THEN TRUE ELSE r.marked]
    BY <1>2, <1>4 DEF TypeOK
  <2>2. r.op # "none" /\ Agrees(r, pod[p])
    BY <1>2, <1>4, <2>1, RunningShape DEF Informed, Holding
  <2>3. CASE r.at = "mark"
    <3>1. r.op = "terminate"
      BY <1>2, <2>3 DEF Staged, OpsAt
    <3>2. pod[p] = [phase |-> r.phase, marked |-> r.marked]
      BY <2>2, <2>3 DEF Agrees, Entity
    <3>3. pod[p].phase = r.phase
      BY <3>2
    <3>4. pod'[p] = [phase |-> r.phase, marked |-> TRUE]
      BY <2>1, <2>3
    <3>. QED
      BY <2>1, <3>1, <3>3, <3>4 DEF Allowed
  <2>4. CASE r.at \in {"write", "rewrite"}
    <3>1. pod'[p] = Entity(r)
      BY <2>1, <2>4 DEF Entity
    <3>2. Allowed(r.op, pod[p], pod'[p])
      BY <2>2, <2>4, <3>1 DEF Agrees
    <3>. QED
      BY <2>1, <2>2, <3>2
  <2>. QED
    BY <1>4, <2>3, <2>4
<1>. QED
  BY <1>1, <1>3, <1>4, EntitySteps

\* However many calls overlap, a pod's entity only takes the transitions of
\* transitions.ts (and the collectors' writes) from the state it is in: the version a
\* write carries is that of the entity the call decided on.
THEOREM TableFollowed == Spec => FollowsTable
BY Knowledge, TableStep, PTL DEF Spec, FollowsTable

-----------------------------------------------------------------------------
\* The pods that exist, and those of them whose provision() is over.
Stored == {p \in Pods : pod[p] # Absent}
Settled == {p \in Stored : \A j \in Jobs : job[j].op = "provision" => job[j].pod # p}

\* The inductive invariant of the counter: a pod is counted when its call is over.
CountInv == IsFiniteSet(Stored) /\ usage <= Cardinality(Settled)

\* Adding one to a finite set, and leaving some out.
LEMMA Grown ==
  ASSUME NEW S, NEW T, IsFiniteSet(T), S \subseteq T
  PROVE  /\ IsFiniteSet(S) /\ Cardinality(S) <= Cardinality(T)
         /\ \A x \in T : x \notin S => Cardinality(S) + 1 <= Cardinality(T)
<1>1. IsFiniteSet(S) /\ Cardinality(S) <= Cardinality(T)
  BY FS_Subset
<1>2. ASSUME NEW x \in T, x \notin S PROVE Cardinality(S) + 1 <= Cardinality(T)
  <2>1. IsFiniteSet(S \cup {x}) /\ Cardinality(S \cup {x}) = Cardinality(S) + 1
    BY <1>1, <1>2, FS_AddElement
  <2>2. S \cup {x} \subseteq T
    BY <1>2
  <2>. QED
    BY <2>1, <2>2, FS_Subset
<1>. QED
  BY <1>1, <1>2

LEMMA CountNext == PodInv /\ PodInv' /\ CountInv /\ [Next]_vars => CountInv'
<1>. SUFFICES ASSUME PodInv, PodInv', CountInv, [Next]_vars PROVE CountInv'
  OBVIOUS
<1>0. TypeOK /\ TypeOK' /\ usage \in Nat /\ usage' \in Nat
  BY DEF PodInv, TypeOK
<1>1. IsFiniteSet(Stored') /\ Stored \subseteq Stored'
  <2>1. CASE pod' = pod
    BY <2>1 DEF Stored, CountInv
  <2>2. ASSUME NEW j \in Jobs, JobStep(j)
        PROVE  IsFiniteSet(Stored') /\ Stored \subseteq Stored'
    <3>1. Stored \subseteq Stored' /\ Stored' \subseteq Stored \cup {job[j].pod}
      BY <2>2, EntitiesStay DEF Stored
    <3>2. IsFiniteSet(Stored \cup {job[j].pod})
      BY FS_AddElement DEF CountInv
    <3>. QED
      BY <3>1, <3>2, FS_Subset
  <2>. QED
    BY <2>1, <2>2, CallsInv, WorldInv DEF Next, vars
<1>2. Settled \subseteq Settled'
  <2>1. CASE UNCHANGED job
    BY <1>1, <2>1 DEF Settled
  <2>2. ASSUME NEW j \in Jobs, JobStep(j) PROVE Settled \subseteq Settled'
    <3>1. \A i \in Jobs : job'[i].op = "provision" =>
                            job[i].op = "provision" /\ job'[i].pod = job[i].pod
      BY <2>2, OwnCall, OthersInformed DEF SameCall, Idle
    <3>. QED
      BY <1>1, <3>1 DEF Settled
  <2>3. ASSUME NEW j \in Jobs, Crash(j) PROVE Settled \subseteq Settled'
    <3>1. \A i \in Jobs : job'[i] = Idle \/ job'[i] = job[i]
      BY <1>0, <2>3 DEF Crash, End, Go, TypeOK
    <3>. QED
      BY <1>1, <3>1 DEF Settled, Idle
  <2>4. ASSUME NEW j \in Jobs, NEW p \in Pods, Provision(j, p) PROVE Settled \subseteq Settled'
    <3>1. \A i \in Jobs : job'[i] = job[i] \/ job'[i].pod = p
      BY <1>0, <2>4 DEF Provision, Go, Begin, Attempt, TypeOK
    <3>2. p \notin Stored
      BY <2>4 DEF Provision, Stored
    <3>. QED
      BY <1>1, <3>1, <3>2 DEF Settled
  <2>5. ASSUME NEW j \in Jobs, NEW p \in Pods, NEW op \in UserOps \cup CollectorOps,
               Call(j, op, p)
        PROVE  Settled \subseteq Settled'
    <3>1. op # "provision"
      BY <2>5 DEF Call, CollectorOps
    <3>2. \A i \in Jobs : job'[i] = job[i] \/ job'[i].op # "provision"
      BY <1>0, <2>5, <3>1 DEF Call, Go, Begin, Attempt, TypeOK
    <3>. QED
      BY <1>1, <3>2 DEF Settled
  <2>. QED
    BY <2>1, <2>2, <2>3, <2>4, <2>5, WorldInv DEF Next, vars
<1>3. Settled' \subseteq Stored' /\ IsFiniteSet(Settled')
  <2>1. Settled' \subseteq Stored'
    BY DEF Settled
  <2>. QED
    BY <1>1, <2>1, FS_Subset
<1>4. IsFiniteSet(Settled) /\ Cardinality(Settled) \in Nat /\ Cardinality(Settled') \in Nat
      /\ Cardinality(Settled) <= Cardinality(Settled')
  BY <1>2, <1>3, Grown, FS_CardinalityType
<1>5. CASE usage' <= usage
  BY <1>0, <1>1, <1>4, <1>5 DEF CountInv
<1>6. CASE ~(usage' <= usage)
  <2>1. PICK j \in Jobs : UsageWrite(j)
    <3>1. ~(\E j \in Jobs : UsageWrite(j)) => usage' = usage
      <4>1. ASSUME NEW j \in Jobs, JobStep(j), ~UsageWrite(j) PROVE usage' = usage
        BY <4>1 DEF JobStep, CheckQuota, Create, Insert, Read, CallProvider, Describe, Mark,
                    Status, Delete, Write, IndexRead, IndexWrite, UsageRead, Health, Gate,
                    SetMarker, Reread, Rewrite, UnmarkRead, UnmarkWrite
      <4>2. ASSUME NEW j \in Jobs, NEW p, NEW op, Crash(j) \/ Provision(j, p) \/ Call(j, op, p)
            PROVE  usage' = usage
        BY <4>2 DEF Crash, Provision, Call
      <4>3. ASSUME NEW p \in Pods, Boot(p) \/ Exit(p) \/ Elapse(p) \/ Expire(p)
            PROVE  usage' = usage
        BY <4>3 DEF Boot, Exit, Elapse, Expire
      <4>4. CASE UNCHANGED vars
        BY <4>4 DEF vars
      <4>. QED
        BY <4>1, <4>2, <4>3, <4>4 DEF Next
    <3>. QED
      BY <1>0, <1>6, <3>1
  <2>. DEFINE r == job[j]
  <2>2. Informed(r, pod) /\ Staged(r, j) /\ JobStep(j)
    BY <2>1 DEF PodInv, JobsTyped, JobStep
  <2>3. /\ r.op = "provision" /\ usage' = usage + 1 /\ Wrote(j, UsageKey, Idle)
        /\ r.at = "usageWrite" /\ pod' = pod
    BY <1>0, <1>6, <2>1 DEF UsageWrite, Count, AfterUsage
  <2>4. r.pod \in Pods /\ pod[r.pod] # Absent
    BY <2>2, <2>3, RunningShape DEF Informed, Before, InProgress
  <2>5. r.pod \notin Settled
    BY <2>3 DEF Settled
  <2>6. r.pod \in Settled'
    <3>1. \A i \in Jobs : job'[i].op = "provision" => job'[i].pod # r.pod
      <4>1. job'[j].op # "provision"
        BY <1>0, <2>3 DEF Wrote, Idle
      <4>2. ASSUME NEW i \in Jobs, i # j, job'[i].op = "provision" PROVE job'[i].pod # r.pod
        <5>1. job[i].op = "provision" /\ job'[i].pod = job[i].pod
          BY <2>2, <4>2, OthersInformed
        <5>. QED
          BY <2>3, <4>2, <5>1 DEF PodInv, Single
      <4>. QED
        BY <4>1, <4>2
    <3>. QED
      BY <2>3, <2>4, <3>1 DEF Settled, Stored
  <2>7. Cardinality(Settled) + 1 <= Cardinality(Settled')
    BY <1>2, <1>3, <2>5, <2>6, Grown
  <2>. QED
    BY <1>0, <1>1, <1>4, <2>3, <2>7 DEF CountInv
<1>. QED
  BY <1>5, <1>6

\* The counter of the creator never exceeds the pods that exist and never falls below
\* zero: recordCreate() and recordDelete() count once, however often they retry, wherever
\* provision() is cut off.
THEOREM UsageSound == Spec => []UsageBounded
<1>1. Init => CountInv
  <2>. SUFFICES ASSUME Init PROVE CountInv
    OBVIOUS
  <2>1. Stored = {} /\ Settled = {}
    BY DEF Init, Stored, Settled
  <2>. QED
    BY <2>1, FS_EmptySet DEF CountInv, Init
<1>2. PodInv /\ CountInv => UsageBounded
  <2>. SUFFICES ASSUME PodInv, CountInv PROVE UsageBounded
    OBVIOUS
  <2>1. Cardinality(Settled) <= Cardinality(Stored) /\ Cardinality(Settled) \in Nat
        /\ Cardinality(Stored) \in Nat
    BY Grown, FS_CardinalityType DEF CountInv, Settled
  <2>2. TypeOK /\ usage \in Nat
    BY DEF PodInv, TypeOK
  <2>3. usage <= Cardinality(Stored)
    BY <2>1, <2>2 DEF CountInv
  <2>. QED
    BY <2>2, <2>3 DEF UsageBounded, Stored
<1>. QED
  BY Knowledge, CountNext, <1>1, <1>2, PTL DEF Spec

-----------------------------------------------------------------------------
\* A call at these steps takes the pod out of the index, or will, and counts on its
\* resource being gone.
Leaving(r) == /\ r.pod \in WithInstance
              /\ \/ r.at = "write" /\ r.op \in {"terminate", "gc"}
                 \/ r.at \in {"reread", "rewrite"}
                 \/ r.at \in {"indexRead", "indexWrite"} /\ r.op # "provision"

\* The inductive invariant of the removal: the resource goes first, and an index that
\* was read is written back only if it is still the same.
Sure(r, resources, index) ==
  /\ Leaving(r) => resources[r.pod] = "none"
  /\ r.at = "indexWrite" => r.key = IndexKey /\ (r.fresh => r.seen = index)
LeaveInv == \A j \in Jobs : Sure(job[j], cloud, ids)

\* The resource of a pod that exists never comes back.
LEMMA CloudStays ==
  ASSUME PodInv, [Next]_vars, NEW p \in Pods, pod[p] # Absent, cloud[p] = "none"
  PROVE  cloud'[p] = "none"
<1>0. TypeOK /\ JobsTyped
  BY DEF PodInv
<1>1. ASSUME NEW j \in Jobs, Create(j) PROVE cloud'[p] = "none"
  <2>1. job[j].op # "none"
    BY <1>0, <1>1, RunningShape DEF Create, JobsTyped
  <2>2. pod[job[j].pod] = Absent
    BY <1>1, <2>1 DEF PodInv, Informed, Create, Before
  <2>. QED
    BY <1>0, <1>1, <2>2 DEF Create, TypeOK
<1>2. ASSUME NEW j \in Jobs, CallProvider(j) PROVE cloud'[p] = "none"
  <2>. DEFINE r == job[j]
  <2>1. CASE r.pod = p
    <3>1. Effect(r.op, cloud[r.pod]) = "none"
      BY <2>1 DEF Effect
    <3>2. cloud' = cloud \/ cloud' = [cloud EXCEPT ![p] = "none"]
      BY <1>2, <2>1, <3>1 DEF CallProvider, Provider
    <3>. QED
      BY <1>0, <3>2 DEF TypeOK
  <2>2. CASE r.pod # p
    BY <1>0, <1>2, <2>2 DEF CallProvider, Provider, TypeOK
  <2>. QED
    BY <2>1, <2>2
<1>3. ASSUME NEW j \in Jobs, Delete(j) PROVE cloud'[p] = "none"
  BY <1>0, <1>3 DEF Delete, Provider, TypeOK
<1>4. ASSUME NEW j \in Jobs, JobStep(j), ~(Create(j) \/ CallProvider(j) \/ Delete(j))
      PROVE  cloud' = cloud
  BY <1>4 DEF JobStep, CheckQuota, Insert, Read, Describe, Mark, Status, Write, IndexRead,
              IndexWrite, UsageRead, UsageWrite, Health, Gate, SetMarker, Reread, Rewrite,
              UnmarkRead, UnmarkWrite
<1>5. ASSUME NEW j \in Jobs, NEW q, NEW op, Crash(j) \/ Provision(j, q) \/ Call(j, op, q)
      PROVE  cloud' = cloud
  BY <1>5 DEF Crash, Provision, Call
<1>6. ASSUME NEW q \in Pods, Boot(q) \/ Exit(q) \/ Elapse(q) \/ Expire(q)
      PROVE  cloud'[p] = "none"
  BY <1>0, <1>6 DEF Boot, Exit, Elapse, Expire, TypeOK
<1>7. CASE UNCHANGED vars
  BY <1>7 DEF vars
<1>. QED
  BY <1>1, <1>2, <1>3, <1>4, <1>5, <1>6, <1>7 DEF Next

\* Only a write of the index changes it, and a job that read it before is outdated.
LEMMA IndexSteps ==
  ASSUME PodInv, NEW j \in Jobs, JobStep(j)
  PROVE  ids' = ids \/ (IndexWrite(j) /\ job[j].fresh /\ \E q : Wrote(j, IndexKey, q))
<1>1. CASE IndexWrite(j)
  BY <1>1 DEF IndexWrite, Current
<1>2. CASE ~IndexWrite(j)
  BY <1>2 DEF JobStep, CheckQuota, Create, Insert, Read, CallProvider, Describe, Mark, Status,
              Delete, Write, IndexRead, UsageRead, UsageWrite, Health, Gate, SetMarker, Reread,
              Rewrite, UnmarkRead, UnmarkWrite
<1>. QED
  BY <1>1, <1>2

\* What a job's step leaves the others counting on.
LEMMA OthersLeave ==
  ASSUME PodInv, LeaveInv, NEW j \in Jobs, JobStep(j), NEW i \in Jobs, i # j
  PROVE  Sure(job'[i], cloud', ids')
<1>. DEFINE s == job[i]
            t == job'[i]
<1>0. Staged(s, i) /\ Informed(s, pod) /\ JobsTyped /\ [Next]_vars
  BY DEF PodInv, JobsTyped, Next
<1>1. t = s \/ t = [s EXCEPT !.fresh = FALSE]
  BY <1>0, OthersKept
<1>2. CASE s = Idle
  <2>1. t.op = "none" /\ t.at = "idle"
    BY <1>1, <1>2 DEF Idle
  <2>. QED
    BY <2>1 DEF Leaving, Sure
<1>3. CASE s # Idle
  <2>1. /\ s \in InProgress /\ t.op = s.op /\ t.pod = s.pod /\ t.at = s.at /\ t.key = s.key
        /\ t.seen = s.seen /\ (t.fresh => s.fresh)
    BY <1>0, <1>1, <1>3 DEF Staged, InProgress
  <2>2. Leaving(t) => cloud'[t.pod] = "none"
    <3>1. ASSUME Leaving(t) PROVE cloud'[t.pod] = "none"
      <4>1. Leaving(s) /\ s.op # "none" /\ s.pod \in Pods
        BY <2>1, <3>1 DEF Leaving, InProgress, UserOps, CollectorOps
      <4>2. pod[s.pod] # Absent
        BY <1>0, <4>1 DEF Informed, Leaving, Before
      <4>. QED
        BY <1>0, <2>1, <4>1, <4>2, CloudStays DEF LeaveInv, Sure
    <3>. QED
      BY <3>1
  <2>3. ASSUME t.at = "indexWrite"
        PROVE  t.key = IndexKey /\ (t.fresh => t.seen = ids')
    <3>1. s.key = IndexKey /\ (s.fresh => s.seen = ids)
      BY <2>1, <2>3 DEF LeaveInv, Sure
    <3>2. ASSUME NEW q, Wrote(j, IndexKey, q) PROVE ~t.fresh
      <4>1. t = [s EXCEPT !.fresh = FALSE]
        BY <3>1, <3>2 DEF Wrote
      <4>. QED
        BY <2>1, <4>1 DEF InProgress
    <3>. QED
      BY <2>1, <3>1, <3>2, IndexSteps
  <2>. QED
    BY <2>2, <2>3 DEF Sure
<1>. QED
  BY <1>2, <1>3

\* What a job counts on after its own step, if the provider never fails.
LEMMA OwnLeave ==
  ASSUME ~ProviderFails, PodInv, LeaveInv, NEW j \in Jobs, JobStep(j)
  PROVE  Sure(job'[j], cloud', ids')
<1>. DEFINE r == job[j]
            q == job'[j]
<1>0. /\ Staged(r, j) /\ Informed(r, pod) /\ TypeOK /\ [Next]_vars
      /\ job \in [Jobs -> InProgress \cup {Idle}] /\ Sure(r, cloud, ids)
  BY DEF PodInv, JobsTyped, Next, LeaveInv
<1>0a. r.at # "idle" => r \in InProgress /\ r.op # "none" /\ r.pod \in Pods
  BY <1>0, RunningShape DEF InProgress
<1>0b. /\ \A s : Go(j, s) => q = s
       /\ \A s, key : Wrote(j, key, s) => q = s
  BY <1>0 DEF Go, Wrote
\* A step after which the job counts on nothing.
<1>0c. ASSUME NEW s, s.at \notin {"write", "reread", "rewrite", "indexRead", "indexWrite"}
       PROVE  Sure(s, cloud', ids')
  BY <1>0c DEF Leaving, Sure
<1>0d. Sure(Idle, cloud', ids') /\ (End(j) => Sure(q, cloud', ids'))
  BY <1>0b, <1>0c DEF Idle, End
<1>0e. ASSUME NEW at, at \notin {"write", "reread", "rewrite", "indexRead", "indexWrite"}, NEW n
       PROVE  Sure(Proceed(r, at, n), cloud', ids')
  BY <1>0c, <1>0e DEF Proceed, Attempt
\* The call goes on with a pod whose resource is gone.
<1>0f. ASSUME r.at \notin {"idle"} \cup Before, cloud[r.pod] = "none" PROVE cloud'[r.pod] = "none"
  <2>1. pod[r.pod] # Absent /\ r.pod \in Pods
    BY <1>0, <1>0a, <1>0f DEF Informed
  <2>. QED
    BY <1>0, <1>0f, <2>1, CloudStays
<1>0g. ASSUME Leaving(r), NEW at \in {"reread", "rewrite", "indexRead"}, NEW n
       PROVE  Sure(Proceed(r, at, n), cloud', ids')
  <2>1. cloud'[r.pod] = "none"
    BY <1>0, <1>0f, <1>0g DEF Leaving, Before, Sure
  <2>. QED
    BY <2>1, <1>0g DEF Sure, Proceed, Attempt
<1>1. CASE CheckQuota(j) \/ Create(j)
  <2>1. r \in InProgress
    BY <1>0a, <1>1 DEF CheckQuota, Create
  <2>2. ASSUME NEW at \in {"create", "insert"}, To(j, at) PROVE Sure(q, cloud', ids')
    <3>1. q = [r EXCEPT !.at = at]
      BY <1>0b, <2>2 DEF To
    <3>2. q.at = at
      BY <2>1, <3>1 DEF InProgress
    <3>. QED
      BY <1>0c, <2>2, <3>2
  <2>. QED
    BY <1>1, <1>0d, <2>2 DEF CheckQuota, Create, AfterCreate
<1>2. CASE Insert(j)
  <2>1. r.op = "provision"
    BY <1>0, <1>2 DEF Insert, Staged, OpsAt
  <2>2. Sure(Proceed(r, "indexRead", 3), cloud', ids')
    BY <2>1 DEF Sure, Leaving, Proceed, Attempt
  <2>. QED
    BY <1>0b, <1>2, <2>2 DEF Insert
<1>3. CASE Read(j)
  <2>. DEFINE p == r.pod
              next == AfterRead(j, p, pod[p])
              s == Reading([r EXCEPT !.at = next, !.phase = pod[p].phase,
                              !.marked = pod[p].marked,
                              !.due = IF r.op \in CollectorOps THEN age[p] ELSE 0], PodKey(p))
  <2>1. r \in InProgress
    BY <1>0a, <1>3 DEF Read
  <2>2. r.op \in (UserOps \cup CollectorOps) \ {"provision"}
    BY <1>3, <1>0 DEF Read, Staged, OpsAt
  <2>3. next \in {"call", "describe", "mark", "status", "gate", "health", "end"}
    BY <2>2 DEF AfterRead, UserOps, CollectorOps
  <2>4. s.at = next
    <3>. HIDE DEF next
    <3>. QED
      BY <2>1 DEF Reading, InProgress
  <2>5. Sure(s, cloud', ids')
    <3>. HIDE DEF next, s
    <3>. QED
      BY <2>3, <2>4, <1>0c
  <2>. QED
    BY <1>3, <1>0b, <1>0d, <1>0e, <2>5 DEF Read
<1>4. CASE CallProvider(j) \/ Describe(j)
  <2>1. r \in InProgress /\ r.op \notin {"terminate", "gc"}
    BY <1>0, <1>0a, <1>4 DEF CallProvider, Describe, Staged, OpsAt
  <2>2. ASSUME NEW ph, NEW m, q = [r EXCEPT !.at = "write", !.phase = ph, !.marked = m]
        PROVE  Sure(q, cloud', ids')
    BY <2>1, <2>2 DEF InProgress, Sure, Leaving
  <2>3. ASSUME NEW ph, q = [r EXCEPT !.at = "write", !.phase = ph]
        PROVE  Sure(q, cloud', ids')
    BY <2>1, <2>3 DEF InProgress, Sure, Leaving
  <2>4. CASE CallProvider(j)
    <3>1. End(j) \/ \E ph, m : Go(j, [r EXCEPT !.at = "write", !.phase = ph, !.marked = m])
      BY <2>4 DEF CallProvider
    <3>. QED
      BY <1>0b, <1>0d, <2>2, <3>1
  <2>5. CASE Describe(j)
    <3>1. End(j) \/ \E ph : Go(j, [r EXCEPT !.at = "write", !.phase = ph])
      BY <2>5 DEF Describe
    <3>. QED
      BY <1>0b, <1>0d, <2>3, <3>1
  <2>. QED
    BY <1>4, <2>4, <2>5
<1>5. CASE Mark(j)
  <2>1. r \in InProgress
    BY <1>0a, <1>5 DEF Mark
  <2>2. [r EXCEPT !.at = "delete", !.phase = "Failed", !.marked = TRUE].at = "delete"
    BY <2>1 DEF InProgress
  <2>3. Sure([r EXCEPT !.at = "delete", !.phase = "Failed", !.marked = TRUE], cloud', ids')
    BY <2>2, <1>0c
  <2>. QED
    BY <1>5, <1>0b, <1>0d, <2>3 DEF Mark
<1>6. CASE Status(j)
  <2>1. r \in InProgress /\ r.at = "status"
    BY <1>0a, <1>6 DEF Status
  <2>. DEFINE failed == [r EXCEPT !.at = "write", !.phase = "Failed", !.marked = TRUE]
              due == [r EXCEPT !.at = "delete", !.phase = IF r.phase \in {"Succeeded", "Failed"}
                                                          THEN @ ELSE "Failed"]
  <2>2. ASSUME cloud[r.pod] = "none" PROVE Sure(failed, cloud', ids')
    <3>1. cloud'[r.pod] = "none"
      BY <1>0f, <2>1, <2>2 DEF Before
    <3>2. failed.at = "write" /\ failed.pod = r.pod
      BY <2>1 DEF InProgress
    <3>. HIDE DEF failed
    <3>. QED
      BY <3>1, <3>2 DEF Sure
  <2>3. Sure(due, cloud', ids')
    <3>1. due.at = "delete"
      BY <2>1 DEF InProgress
    <3>. HIDE DEF due
    <3>. QED
      BY <3>1, <1>0c
  <2>4. (cloud[r.pod] = "none" /\ Go(j, failed)) \/ Go(j, due) \/ End(j)
    BY <1>6 DEF Status
  <2>. HIDE DEF failed, due
  <2>. QED
    BY <1>0b, <1>0d, <2>2, <2>3, <2>4
<1>7. CASE Delete(j)
  <2>1. r \in InProgress /\ r.at = "delete" /\ r.pod \in Pods
    BY <1>0a, <1>7 DEF Delete
  <2>2. r.pod \in WithInstance => cloud'[r.pod] = "none"
    BY <1>0, <1>7, <2>1 DEF Delete, Deletes, Provider, TypeOK
  <2>3. CASE r.op = "check"
    <3>1. Sure(Proceed(r, "reread", 3), cloud', ids')
      BY <2>2 DEF Sure, Leaving, Proceed, Attempt
    <3>. QED
      BY <1>7, <2>3, <3>1, <1>0b DEF Delete
  <2>4. CASE r.op # "check"
    <3>. DEFINE s == [r EXCEPT !.at = "write"]
    <3>1. q = s
      BY <1>7, <2>4, <1>0b DEF Delete, To
    <3>2. s.at = "write" /\ s.pod = r.pod
      BY <2>1 DEF InProgress
    <3>. HIDE DEF s
    <3>. QED
      BY <2>2, <3>1, <3>2 DEF Sure, Leaving
  <2>. QED
    BY <2>3, <2>4
<1>8. CASE Write(j)
  <2>1. ASSUME r.op \in {"terminate", "gc"} PROVE Sure(Proceed(r, "indexRead", 3), cloud', ids')
    <3>1. CASE r.pod \in WithInstance
      <4>1. Leaving(r)
        BY <1>8, <2>1, <3>1 DEF Leaving, Write
      <4>. QED
        BY <4>1, <1>0g
    <3>2. CASE r.pod \notin WithInstance
      BY <3>2 DEF Sure, Leaving, Proceed, Attempt
    <3>. QED
      BY <3>1, <3>2
  <2>. QED
    BY <1>8, <1>0b, <1>0d, <2>1 DEF Write
<1>9. CASE IndexRead(j) \/ IndexWrite(j)
  <2>1. /\ r \in InProgress /\ r.op \in {"provision", "terminate", "gc", "check"}
        /\ r.at \in {"indexRead", "indexWrite"}
    BY <1>0, <1>0a, <1>9 DEF IndexRead, IndexWrite, Staged, OpsAt
  <2>2. Sure(AfterIndex(r), cloud', ids')
    <3>1. CASE r.op \in {"provision", "terminate"}
      BY <1>0e, <3>1 DEF AfterIndex
    <3>2. CASE r.op = "check"
      BY <1>0e, <3>2 DEF AfterIndex
    <3>3. CASE r.op = "gc"
      BY <1>0d, <3>3 DEF AfterIndex
    <3>. QED
      BY <2>1, <3>1, <3>2, <3>3
  <2>3. \A n : Sure(Proceed(r, "indexRead", n), cloud', ids')
    <3>1. CASE Leaving(r)
      BY <3>1, <1>0g
    <3>2. CASE ~Leaving(r)
      BY <2>1, <3>2 DEF Sure, Leaving, Proceed, Attempt
    <3>. QED
      BY <3>1, <3>2
  <2>4. Sure(Retry(r, "indexRead", AfterIndex(r)), cloud', ids')
    BY <2>2, <2>3 DEF Retry
  <2>. DEFINE s == [Reading(r, IndexKey) EXCEPT !.at = "indexWrite", !.seen = ids]
  <2>5. CASE Go(j, s) /\ ids' = ids
    <3>1. s.at = "indexWrite" /\ s.pod = r.pod /\ s.op = r.op /\ s.key = IndexKey /\ s.seen = ids
      BY <2>1 DEF Reading, InProgress
    <3>2. r.at \notin {"idle"} \cup Before
      BY <2>1 DEF Before
    <3>3. Leaving(s) => cloud'[s.pod] = "none"
      <4>. HIDE DEF s
      <4>. QED
        BY <1>0, <1>0f, <2>1, <3>1, <3>2 DEF Sure, Leaving
    <3>4. q = s
      BY <1>0b, <2>5
    <3>. HIDE DEF s
    <3>. QED
      BY <2>5, <3>1, <3>3, <3>4 DEF Sure
  <2>. QED
    BY <1>9, <1>0b, <2>2, <2>4, <2>5 DEF IndexRead, IndexWrite
<1>10. CASE UsageRead(j) \/ Gate(j) \/ UnmarkRead(j)
  <2>1. r \in InProgress
    BY <1>0a, <1>10 DEF UsageRead, Gate, UnmarkRead
  <2>2. ASSUME NEW at \in {"usageWrite", "setMarker", "unmarkWrite"}, NEW k,
               Go(j, [Reading(r, k) EXCEPT !.at = at])
        PROVE  Sure(q, cloud', ids')
    <3>1. q = [Reading(r, k) EXCEPT !.at = at]
      BY <1>0b, <2>2
    <3>2. q.at = at
      BY <2>1, <3>1 DEF Reading, InProgress
    <3>. QED
      BY <2>2, <3>2, <1>0c
  <2>3. CASE UsageRead(j)
    BY <2>3, <1>0d, <2>2 DEF UsageRead
  <2>4. CASE Gate(j)
    BY <2>4, <1>0d, <2>2 DEF Gate
  <2>5. CASE UnmarkRead(j)
    BY <2>5, <1>0d, <2>2 DEF UnmarkRead
  <2>. QED
    BY <1>10, <2>3, <2>4, <2>5
<1>11. CASE UsageWrite(j)
  <2>1. Sure(Retry(r, "usageRead", Idle), cloud', ids')
    BY <1>0d, <1>0e DEF Retry
  <2>. QED
    BY <1>11, <1>0b, <1>0d, <2>1 DEF UsageWrite, AfterUsage
<1>12. CASE Health(j)
  <2>1. Sure(Begin("sync", r.pod, "read"), cloud', ids')
    BY DEF Begin, Attempt, Sure, Leaving
  <2>. QED
    BY <1>12, <1>0b, <1>0d, <1>0e, <2>1 DEF Health, HealthPending, HealthRunning, Collect
<1>13. CASE SetMarker(j) \/ UnmarkWrite(j)
  BY <1>13, <1>0b, <1>0d, <1>0e DEF SetMarker, UnmarkWrite
<1>14. CASE Reread(j)
  <2>1. r \in InProgress /\ r.at = "reread"
    BY <1>0a, <1>14 DEF Reread
  <2>. DEFINE s == [Reading(r, PodKey(r.pod)) EXCEPT
                      !.at = "rewrite", !.phase = "Failed", !.marked = pod[r.pod].marked]
  <2>2. s.at = "rewrite" /\ s.pod = r.pod
    BY <2>1 DEF Reading, InProgress
  <2>3. Leaving(s) => cloud'[s.pod] = "none"
    <3>. HIDE DEF s
    <3>. QED
      BY <1>0, <1>0f, <2>1, <2>2 DEF Sure, Leaving, Before
  <2>4. q = s
    BY <1>14, <1>0b DEF Reread
  <2>. HIDE DEF s
  <2>. QED
    BY <2>2, <2>3, <2>4 DEF Sure
<1>15. CASE Rewrite(j)
  <2>1. \A n : \A at \in {"reread", "indexRead"} : Sure(Proceed(r, at, n), cloud', ids')
    <3>1. CASE r.pod \in WithInstance
      <4>1. Leaving(r)
        BY <1>15, <3>1 DEF Leaving, Rewrite
      <4>. QED
        BY <4>1, <1>0g
    <3>2. CASE r.pod \notin WithInstance
      BY <3>2 DEF Sure, Leaving, Proceed, Attempt
    <3>. QED
      BY <3>1, <3>2
  <2>2. Sure(Proceed(r, "unmarkRead", 0), cloud', ids')
    BY <1>0e
  <2>3. Sure(Retry(r, "reread", Proceed(r, "unmarkRead", 0)), cloud', ids')
    BY <2>1, <2>2 DEF Retry
  <2>. QED
    BY <1>15, <1>0b, <2>1, <2>3 DEF Rewrite
<1>. QED
  BY <1>1, <1>2, <1>3, <1>4, <1>5, <1>6, <1>7, <1>8, <1>9, <1>10, <1>11, <1>12, <1>13, <1>14,
     <1>15 DEF JobStep

LEMMA LeaveNext == ~ProviderFails /\ PodInv /\ LeaveInv /\ [Next]_vars => LeaveInv'
<1>. SUFFICES ASSUME ~ProviderFails, PodInv, LeaveInv, [Next]_vars PROVE LeaveInv'
  OBVIOUS
<1>0. TypeOK /\ JobsTyped
  BY DEF PodInv
<1>1. ASSUME NEW j \in Jobs, JobStep(j) PROVE LeaveInv'
  BY <1>1, OwnLeave, OthersLeave DEF LeaveInv
<1>2. ASSUME \A i \in Jobs : job'[i] = job[i] \/ job'[i].at \in {"idle", "read", "quota"},
             ids' = ids
      PROVE  LeaveInv'
  <2>. SUFFICES ASSUME NEW i \in Jobs PROVE Sure(job'[i], cloud', ids')
    BY DEF LeaveInv
  <2>1. CASE job'[i].at \in {"idle", "read", "quota"}
    BY <2>1 DEF Sure, Leaving
  <2>2. CASE job'[i] = job[i]
    <3>1. ASSUME Leaving(job[i]) PROVE cloud'[job[i].pod] = "none"
      <4>1. job[i].op # "none" /\ job[i].pod \in Pods
        BY <1>0, <3>1, RunningShape DEF JobsTyped, Leaving, InProgress
      <4>2. pod[job[i].pod] # Absent /\ cloud[job[i].pod] = "none"
        BY <3>1, <4>1 DEF PodInv, Informed, Leaving, Before, LeaveInv, Sure
      <4>. QED
        BY <4>1, <4>2, CloudStays
    <3>. QED
      BY <1>2, <2>2, <3>1 DEF LeaveInv, Sure
  <2>. QED
    BY <1>2, <2>1, <2>2
<1>3. ASSUME NEW j \in Jobs, Crash(j) PROVE LeaveInv'
  <2>1. \A i \in Jobs : job'[i] = job[i] \/ job'[i].at = "idle"
    BY <1>0, <1>3 DEF Crash, End, Go, Idle, JobsTyped
  <2>. QED
    BY <1>2, <1>3, <2>1 DEF Crash
<1>4. ASSUME NEW j \in Jobs, NEW p, NEW op, Provision(j, p) \/ Call(j, op, p) PROVE LeaveInv'
  <2>1. \A i \in Jobs : job'[i] = job[i] \/ job'[i].at \in {"read", "quota"}
    BY <1>0, <1>4 DEF Provision, Call, Go, Begin, Attempt, JobsTyped
  <2>. QED
    BY <1>2, <1>4, <2>1 DEF Provision, Call
<1>5. CASE UNCHANGED <<job, ids>>
  BY <1>2, <1>5
<1>6. ASSUME NEW p, Boot(p) \/ Exit(p) \/ Elapse(p) \/ Expire(p) PROVE UNCHANGED <<job, ids>>
  BY <1>6 DEF Boot, Exit, Elapse, Expire
<1>7. UNCHANGED vars => UNCHANGED <<job, ids>>
  BY DEF vars
<1>. QED
  BY <1>1, <1>3, <1>4, <1>5, <1>6, <1>7 DEF Next

LEMMA GoneStep == PodInv /\ LeaveInv /\ [Next]_vars => GoneFirst
<1>. SUFFICES ASSUME PodInv, LeaveInv, [Next]_vars,
                     NEW p \in WithInstance, p \in ids, p \notin ids'
              PROVE  cloud[p] = "none"
  BY DEF GoneFirst
<1>1. PICK j \in Jobs : JobStep(j)
  <2>1. ASSUME NEW q, Boot(q) \/ Exit(q) \/ Elapse(q) \/ Expire(q) PROVE FALSE
    BY <2>1 DEF Boot, Exit, Elapse, Expire
  <2>2. ASSUME NEW j, NEW q, NEW op, Crash(j) \/ Provision(j, q) \/ Call(j, op, q) PROVE FALSE
    BY <2>2 DEF Crash, Provision, Call
  <2>. QED
    BY <2>1, <2>2 DEF Next, vars
<1>2. IndexWrite(j) /\ job[j].fresh
  BY <1>1, IndexSteps
<1>3. /\ ids' = IF job[j].op = "provision" THEN job[j].seen \cup {job[j].pod}
                ELSE job[j].seen \ {job[j].pod}
      /\ job[j].at = "indexWrite" /\ job[j].seen = ids
  BY <1>2 DEF IndexWrite, Current, LeaveInv, Sure
<1>4. job[j].op # "provision" /\ job[j].pod = p
  BY <1>3
<1>. QED
  BY <1>3, <1>4 DEF LeaveInv, Sure, Leaving

\* If calls to the provider succeed, a pod leaves the index, out of the collectors'
\* reach, only once its resource is gone (service.ts, terminate: "GC will retry"), and
\* the collectors keep to the table like everybody else.
THEOREM RemovalSound == ASSUME ~ProviderFails PROVE Spec => PodSteps
<1>1. Init => LeaveInv
  <2>. SUFFICES ASSUME Init PROVE LeaveInv
    OBVIOUS
  <2>1. \A j \in Jobs : job[j] = Idle
    BY DEF Init
  <2>. QED
    BY <2>1 DEF LeaveInv, Sure, Leaving, Idle
<1>2. PodInv /\ LeaveInv /\ [Next]_vars => LeaveInv'
  BY LeaveNext
<1>. QED
  BY Knowledge, TableStep, GoneStep, <1>1, <1>2, PTL DEF Spec, PodSteps

=============================================================================
