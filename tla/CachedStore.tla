---------------------------- MODULE CachedStore ----------------------------
(***************************************************************************)
(* CachedAtomicStore (src/core/store/adapters/cached.ts) for one key: the  *)
(* coordinator (a Durable Object, see DurableStore) decides every write,   *)
(* the KV namespace behind CloudflareKVAtomicStore answers most reads.     *)
(* Several Workers share both; each remembers the last KV version it wrote *)
(* and a Bloom filter of the keys it has seen, and runs several requests.  *)
(*                                                                         *)
(* A KV write is a read followed by a put with other Workers' steps in     *)
(* between; the write that fills the cache after a miss is not awaited.    *)
(* A KV version is only ever compared with the one KV holds at that time,  *)
(* so a remembered one is "none", "current" or "old".                      *)
(***************************************************************************)
EXTENDS Integers, FiniteSets, FiniteSetsExt

CONSTANTS Workers,      \* Worker isolates
          Requests,     \* requests in flight
          Host,         \* Host[r]: the Worker that serves r
          MaxVersions   \* bound on the coordinator's writes

ASSUME HostAssumption == Host \in [Requests -> Workers]
ASSUME MaxVersionsAssumption == MaxVersions \in Nat

Writes == 1..MaxVersions
NoVersion == 0
KvVersion == {"none", "current", "old"}
Lanes == {"fill", "main"}   \* get()'s write that is not awaited; the request itself

\* A null value is {}; a reading of a missing key has no version.
Reading == [v : SUBSET Writes, ver : 0..MaxVersions]
Missing == [v |-> {}, ver |-> NoVersion]

\* CacheEntry: data, coordinatorVersion, and whether cachedAt is less than
\* readTtlMs ago; `there' is FALSE when KV has no such key.
KvEntry == [there : BOOLEAN, v : SUBSET Writes, cv : 0..MaxVersions, fresh : BOOLEAN]
NoEntry == [there |-> FALSE, v |-> {}, cv |-> NoVersion, fresh |-> FALSE]

\* A store.set(key, entry, last) on its way.
Job == [stage : {"none", "get", "check", "put"},
        why : {"fill", "set", "retry", "invalidate"},
        v : SUBSET Writes, cv : 0..MaxVersions, last : KvVersion]
NoJob == [stage |-> "none", why |-> "fill", v |-> {}, cv |-> NoVersion, last |-> "none"]

VARIABLES coord,   \* the coordinator's value and version
          kv,      \* the KV entry
          known,   \* per Worker: #storeVersion
          bloom,   \* per Worker: #bloom might contain the key
          pc,      \* per request: "idle", "miss", "got", "writing"
          view,    \* per request: what get() returned to the caller
          job,     \* per request and lane: the KV write in progress
          acked    \* per Worker: last version whose set() returned (history)

vars == <<coord, kv, known, bloom, pc, view, job, acked>>

TypeOK == /\ coord \in Reading
          /\ kv \in KvEntry
          /\ known \in [Workers -> KvVersion]
          /\ bloom \in [Workers -> BOOLEAN]
          /\ pc \in [Requests -> {"idle", "miss", "got", "writing"}]
          /\ view \in [Requests -> Reading]
          /\ job \in [Requests -> [Lanes -> Job]]
          /\ acked \in [Workers -> 0..MaxVersions]

Init == /\ coord = Missing
        /\ kv = NoEntry
        /\ known = [w \in Workers |-> "none"]
        /\ bloom = [w \in Workers |-> FALSE]
        /\ pc = [r \in Requests |-> "idle"]
        /\ view = [r \in Requests |-> Missing]
        /\ job = [r \in Requests |-> [l \in Lanes |-> NoJob]]
        /\ acked = [w \in Workers |-> 0]

-----------------------------------------------------------------------------
\* Mutant: get() does not look at cachedAt.
CacheAnswersForever(w) == bloom[w] /\ kv.there /\ (kv.v = {} \/ kv.cv # NoVersion)

\* get() answers from KV: a value, or null for a cached null.
CacheAnswers(w) ==
  bloom[w] /\ kv.there /\ kv.fresh /\ (kv.v = {} \/ kv.cv # NoVersion)

\* Mutant: the cached value is returned under the coordinator's version of now.
CachedReadingRelabelled ==
  IF kv.v = {} THEN Missing ELSE [v |-> kv.v, ver |-> coord.ver]

CachedReading == IF kv.v = {} THEN Missing ELSE [v |-> kv.v, ver |-> kv.cv]

GetHit(r) ==
  /\ pc[r] = "idle"
  /\ CacheAnswers(Host[r])
  /\ view' = [view EXCEPT ![r] = CachedReading]
  /\ pc' = [pc EXCEPT ![r] = "got"]
  /\ UNCHANGED <<coord, kv, known, bloom, job, acked>>

GetMiss(r) ==
  /\ pc[r] = "idle" /\ ~CacheAnswers(Host[r])
  /\ job[r]["fill"].stage = "none"
  /\ pc' = [pc EXCEPT ![r] = "miss"]
  /\ UNCHANGED <<coord, kv, known, bloom, view, job, acked>>

\* The coordinator answers; what it has is written to KV in the background.
GetCoordinator(r) ==
  /\ pc[r] = "miss"
  /\ pc' = [pc EXCEPT ![r] = "got"]
  /\ IF coord.v = {}
       THEN /\ view' = [view EXCEPT ![r] = Missing]
            /\ UNCHANGED <<bloom, job>>
       ELSE /\ view' = [view EXCEPT ![r] = coord]
            /\ bloom' = [bloom EXCEPT ![Host[r]] = TRUE]
            /\ job' = [job EXCEPT ![r]["fill"] =
                 [stage |-> "check", why |-> "fill", v |-> coord.v, cv |-> coord.ver,
                  last |-> known[Host[r]]]]
  /\ UNCHANGED <<coord, kv, known, acked>>

-----------------------------------------------------------------------------
\* Mutant: set() trusts the cache and skips the coordinator's version check.
AcceptsAny(expected) == TRUE

\* coordinator.set() compares versions.
Accepts(expected) == coord.ver = expected

\* set() with the version get() returned: the caller adds its own change, or
\* deletes by writing null.  The coordinator's answer starts the KV write.
Set(r, value) ==
  /\ pc[r] = "got" /\ Accepts(view[r].ver)
  /\ coord.ver < MaxVersions
  /\ coord' = [v |-> value, ver |-> coord.ver + 1]
  /\ bloom' = [bloom EXCEPT ![Host[r]] = TRUE]
  /\ job' = [job EXCEPT ![r]["main"] =
       [stage |-> "check", why |-> "set", v |-> value, cv |-> coord.ver + 1,
        last |-> known[Host[r]]]]
  /\ pc' = [pc EXCEPT ![r] = "writing"]
  /\ UNCHANGED <<kv, known, view, acked>>

Update(r) == Set(r, view[r].v \cup {coord.ver + 1})
Delete(r) == view[r] # Missing /\ Set(r, {})

\* set() returns null, or the caller does not write.
Done(r) ==
  /\ pc[r] = "got"
  /\ pc' = [pc EXCEPT ![r] = "idle"]
  /\ view' = [view EXCEPT ![r] = Missing]
  /\ UNCHANGED <<coord, kv, known, bloom, job, acked>>

\* transact() runs on the coordinator alone.
Transact(r) ==
  /\ pc[r] = "idle" /\ coord.ver < MaxVersions
  /\ \E value \in {{}, coord.v \cup {coord.ver + 1}} :
       coord' = [v |-> value, ver |-> coord.ver + 1]
  /\ UNCHANGED <<kv, known, bloom, pc, view, job, acked>>

\* invalidateCache(): nothing to do when KV has no entry.
Invalidate(r) ==
  /\ pc[r] = "idle" /\ kv.there
  /\ job' = [job EXCEPT ![r]["main"] =
       [stage |-> "check", why |-> "invalidate", v |-> {}, cv |-> NoVersion,
        last |-> "current"]]
  /\ pc' = [pc EXCEPT ![r] = "writing"]
  /\ UNCHANGED <<coord, kv, known, bloom, view, acked>>

-----------------------------------------------------------------------------
\* CloudflareKVAtomicStore.set(): read and compare, then put.
KvAccepts(last) == IF last = "none" THEN ~kv.there ELSE last = "current"

\* The request returns to its caller when the KV write it awaits is over.
Return(r, l) ==
  IF l = "fill" THEN UNCHANGED <<pc, view, acked>>
  ELSE /\ pc' = [pc EXCEPT ![r] = "idle"]
       /\ view' = [view EXCEPT ![r] = Missing]
       /\ acked' = IF job[r][l].why = "invalidate" THEN acked
                   ELSE [acked EXCEPT ![Host[r]] = Max({@, job[r][l].cv})]

KvCheck(r, l) ==
  /\ job[r][l].stage = "check" /\ KvAccepts(job[r][l].last)
  /\ job' = [job EXCEPT ![r][l].stage = "put"]
  /\ UNCHANGED <<coord, kv, known, bloom, pc, view, acked>>

\* A conflict: set() reads the entry's version and tries once more; the others
\* give up.
KvConflict(r, l) ==
  /\ job[r][l].stage = "check" /\ ~KvAccepts(job[r][l].last)
  /\ IF job[r][l].why = "set"
       THEN /\ job' = [job EXCEPT ![r][l].stage = "get"]
            /\ UNCHANGED <<pc, view, acked>>
       ELSE /\ job' = [job EXCEPT ![r][l] = NoJob]
            /\ Return(r, l)
  /\ UNCHANGED <<coord, kv, known, bloom>>

KvRetry(r, l) ==
  /\ job[r][l].stage = "get"
  /\ job' = [job EXCEPT ![r][l] = [@ EXCEPT !.stage = "check", !.why = "retry",
                                     !.last = IF kv.there THEN "current" ELSE "none"]]
  /\ UNCHANGED <<coord, kv, known, bloom, pc, view, acked>>

\* Another version, or none, takes the place of the current one.
Outdated(last) == IF last = "current" THEN "old" ELSE last

KvPut(r, l) ==
  /\ job[r][l].stage = "put"
  /\ kv' = [there |-> TRUE, v |-> job[r][l].v, cv |-> job[r][l].cv,
            fresh |-> job[r][l].why # "invalidate"]
  /\ known' = [w \in Workers |-> IF w = Host[r] THEN "current" ELSE Outdated(known[w])]
  /\ job' = [q \in Requests |-> [m \in Lanes |->
       IF q = r /\ m = l THEN NoJob
       ELSE [job[q][m] EXCEPT !.last = Outdated(@)]]]
  /\ Return(r, l)
  /\ UNCHANGED <<coord, bloom>>

-----------------------------------------------------------------------------
\* readTtlMs passes.
Age == /\ kv.fresh
       /\ kv' = [kv EXCEPT !.fresh = FALSE]
       /\ UNCHANGED <<coord, known, bloom, pc, view, job, acked>>

\* KV drops an entry after storeTtlSeconds, readTtlMs having long passed.
KvExpire == /\ kv.there /\ ~kv.fresh
            /\ kv' = NoEntry
            /\ known' = [w \in Workers |-> Outdated(known[w])]
            /\ job' = [r \in Requests |-> [l \in Lanes |->
                 [job[r][l] EXCEPT !.last = Outdated(@)]]]
            /\ UNCHANGED <<coord, bloom, pc, view, acked>>

\* A Worker is evicted with everything it had in memory; its requests are gone.
Evict(w) ==
  /\ known' = [known EXCEPT ![w] = "none"]
  /\ bloom' = [bloom EXCEPT ![w] = FALSE]
  /\ pc' = [r \in Requests |-> IF Host[r] = w THEN "idle" ELSE pc[r]]
  /\ view' = [r \in Requests |-> IF Host[r] = w THEN Missing ELSE view[r]]
  /\ job' = [r \in Requests |-> IF Host[r] = w THEN [l \in Lanes |-> NoJob] ELSE job[r]]
  /\ UNCHANGED <<coord, kv, acked>>

KvStep(r, l) == KvCheck(r, l) \/ KvConflict(r, l) \/ KvRetry(r, l) \/ KvPut(r, l)

Next ==
  \/ \E r \in Requests :
       \/ GetHit(r) \/ GetMiss(r) \/ GetCoordinator(r)
       \/ Update(r) \/ Delete(r) \/ Done(r)
       \/ Transact(r) \/ Invalidate(r)
       \/ \E l \in Lanes : KvStep(r, l)
  \/ Age \/ KvExpire
  \/ \E w \in Workers : Evict(w)

Spec == Init /\ [][Next]_vars

\* KV writes that were started finish unless their Worker goes; time passes.
Fairness == /\ WF_vars(Age)
            /\ \A r \in Requests, l \in Lanes : WF_vars(KvStep(r, l))
FairSpec == Spec /\ Fairness

-----------------------------------------------------------------------------
\* A value that anyone may still use under the coordinator's current version,
\* from KV, from a write on its way to KV or from an earlier get(), is the
\* coordinator's current value (cached.ts, CacheEntry.coordinatorVersion).
Authentic(v, ver) == ver <= coord.ver /\ (ver = coord.ver => v = coord.v)
CacheAuthentic ==
  /\ Authentic({}, NoVersion)
  /\ Authentic(kv.v, kv.cv)
  /\ \A r \in Requests : Authentic(view[r].v, view[r].ver)
  /\ \A r \in Requests, l \in Lanes : Authentic(job[r][l].v, job[r][l].cv)

\* However stale the cache, no accepted write loses another one: the cached
\* store is still an IAtomicStore.
Abstract == INSTANCE AtomicStore WITH
              Keys <- {"key"},
              TxnKeys <- {},
              contents <- [k \in {"key"} |-> coord.v],
              expirable <- [k \in {"key"} |-> FALSE]
NoLostUpdate == Abstract!Spec

\* Once the writes stop, every Worker that answers from KV ends up answering
\* with the coordinator's version: stale entries are not refreshed for ever.
Converges ==
  <>[](\A w \in Workers : CacheAnswers(w) => kv.cv = coord.ver)

\* CF_WORKERS_RISK_STRATEGY.md: read-after-write is covered by the cached store
\* and the coordinator.  A Worker whose set() has returned does not read an
\* older version.
ReadYourWrites ==
  \A w \in Workers : CacheAnswers(w) => kv.cv >= acked[w]

\* For TLC: no Worker is without a request; states that differ only in the history
\* variable are the same.
EveryWorkerBusy == CHOOSE f \in [Requests -> Workers] : \A w \in Workers : \E r \in Requests : f[r] = w
WithoutHistory == <<coord, kv, known, bloom, pc, view, job>>
=============================================================================
