------------------------- MODULE CachedStoreProofs -------------------------
(***************************************************************************)
(* The cached store never mislabels a value and never loses a write, for   *)
(* any number of Workers, requests and writes.                             *)
(***************************************************************************)
EXTENDS CachedStore, TLAPS

\* Every state of the cached store is well typed.
THEOREM CachedTyping == Spec => []TypeOK
<1>. USE HostAssumption, MaxVersionsAssumption DEF Writes, NoVersion, Missing, Reading
<1>1. Init => TypeOK
  <2>1. Missing \in Reading /\ NoEntry \in KvEntry /\ NoJob \in Job
    BY DEF NoEntry, KvEntry, NoJob, Job, KvVersion
  <2>. QED
    BY <2>1 DEF Init, TypeOK, KvVersion
<1>2. TypeOK /\ [Next]_vars => TypeOK'
  <2>. SUFFICES ASSUME TypeOK, [Next]_vars PROVE TypeOK'
    OBVIOUS
  <2>0. NoJob \in Job /\ NoEntry \in KvEntry
    BY DEF NoEntry, KvEntry, NoJob, Job, KvVersion
  <2>1. ASSUME NEW r \in Requests, GetHit(r) PROVE TypeOK'
    <3>1. CachedReading \in Reading
      BY DEF CachedReading, TypeOK, KvEntry
    <3>. QED
      BY <2>1, <3>1 DEF GetHit, TypeOK
  <2>2. ASSUME NEW r \in Requests, GetMiss(r) PROVE TypeOK'
    BY <2>2 DEF GetMiss, TypeOK
  <2>3. ASSUME NEW r \in Requests, GetCoordinator(r) PROVE TypeOK'
    <3>. DEFINE new == [stage |-> "check", why |-> "fill", v |-> coord.v, cv |-> coord.ver,
                        last |-> known[Host[r]]]
    <3>1. new \in Job
      BY DEF TypeOK, Job
    <3>2. coord \in Reading /\ Missing \in Reading
      BY DEF TypeOK
    <3>3. view' \in [Requests -> Reading]
      <4>. HIDE DEF Reading, Missing
      <4>. QED
        BY <2>3, <3>2 DEF GetCoordinator, TypeOK
    <3>4. job' \in [Requests -> [Lanes -> Job]]
      <4>1. job' = job \/ job' = [job EXCEPT ![r]["fill"] = new]
        BY <2>3 DEF GetCoordinator
      <4>. HIDE DEF new
      <4>. QED
        BY <4>1, <3>1 DEF TypeOK, Lanes
    <3>. QED
      BY <2>3, <3>3, <3>4 DEF GetCoordinator, TypeOK
  <2>4. ASSUME NEW r \in Requests, NEW value \in SUBSET Writes, coord.ver < MaxVersions,
               Set(r, value)
        PROVE  TypeOK'
    <3>. DEFINE new == [stage |-> "check", why |-> "set", v |-> value, cv |-> coord.ver + 1,
                        last |-> known[Host[r]]]
    <3>1. coord.ver + 1 \in 0..MaxVersions /\ known[Host[r]] \in KvVersion
      BY <2>4 DEF TypeOK
    <3>2. new \in Job /\ [v |-> value, ver |-> coord.ver + 1] \in Reading
      BY <3>1 DEF Job
    <3>3. job' \in [Requests -> [Lanes -> Job]]
      <4>1. job' = [job EXCEPT ![r]["main"] = new]
        BY <2>4 DEF Set
      <4>. HIDE DEF new
      <4>. QED
        BY <4>1, <3>2 DEF TypeOK, Lanes
    <3>. QED
      BY <2>4, <3>2, <3>3 DEF Set, TypeOK
  <2>5. ASSUME NEW r \in Requests, Update(r) PROVE TypeOK'
    <3>1. view[r].v \cup {coord.ver + 1} \in SUBSET Writes /\ coord.ver < MaxVersions
      BY <2>5 DEF Update, Set, TypeOK
    <3>. QED
      BY <2>5, <3>1, <2>4 DEF Update
  <2>6. ASSUME NEW r \in Requests, Delete(r) PROVE TypeOK'
    <3>1. {} \in SUBSET Writes /\ coord.ver < MaxVersions
      BY <2>6 DEF Delete, Set
    <3>. QED
      BY <2>6, <3>1, <2>4 DEF Delete
  <2>7. ASSUME NEW r \in Requests, Done(r) PROVE TypeOK'
    BY <2>7 DEF Done, TypeOK
  <2>8. ASSUME NEW r \in Requests, Transact(r) PROVE TypeOK'
    <3>1. coord' \in Reading
      BY <2>8 DEF Transact, TypeOK
    <3>. QED
      BY <2>8, <3>1 DEF Transact, TypeOK
  <2>9. ASSUME NEW r \in Requests, Invalidate(r) PROVE TypeOK'
    <3>. DEFINE new == [stage |-> "check", why |-> "invalidate", v |-> {}, cv |-> NoVersion,
                        last |-> "current"]
    <3>1. new \in Job
      BY DEF Job, KvVersion
    <3>2. job' = [job EXCEPT ![r]["main"] = new]
      BY <2>9 DEF Invalidate
    <3>. HIDE DEF new
    <3>3. job' \in [Requests -> [Lanes -> Job]]
      BY <3>1, <3>2 DEF TypeOK, Lanes
    <3>. QED
      BY <2>9, <3>3 DEF Invalidate, TypeOK
  <2>10. ASSUME NEW r \in Requests, NEW l \in Lanes, Return(r, l)
         PROVE  /\ pc' \in [Requests -> {"idle", "miss", "got", "writing"}]
                /\ view' \in [Requests -> Reading]
                /\ acked' \in [Workers -> 0..MaxVersions]
    <3>1. \A a, b \in 0..MaxVersions : Max({a, b}) \in 0..MaxVersions
      <4>. SUFFICES ASSUME NEW a \in 0..MaxVersions, NEW b \in 0..MaxVersions
                    PROVE  Max({a, b}) \in {a, b}
        OBVIOUS
      <4>1. \E x \in {a, b} : \A y \in {a, b} : x >= y
        OBVIOUS
      <4>. QED
        BY <4>1 DEF Max
    <3>2. job[r][l].cv \in 0..MaxVersions /\ Host[r] \in Workers
      BY DEF TypeOK, Job
    <3>. DEFINE top == Max({acked[Host[r]], job[r][l].cv})
    <3>3. acked' = acked \/ acked' = [acked EXCEPT ![Host[r]] = top]
      BY <2>10, Zenon DEF Return
    <3>4. top \in 0..MaxVersions
      BY <3>1, <3>2 DEF TypeOK
    <3>5. acked' \in [Workers -> 0..MaxVersions]
      <4>. HIDE DEF top
      <4>. QED
        BY <3>2, <3>3, <3>4 DEF TypeOK
    <3>6. /\ pc' = pc \/ pc' = [pc EXCEPT ![r] = "idle"]
          /\ view' = view \/ view' = [view EXCEPT ![r] = Missing]
      BY <2>10, Zenon DEF Return
    <3>7. Missing \in Reading
      OBVIOUS
    <3>. HIDE DEF Missing, Reading
    <3>. QED
      BY <3>5, <3>6, <3>7 DEF TypeOK
  <2>11. ASSUME NEW r \in Requests, NEW l \in Lanes, KvStep(r, l) PROVE TypeOK'
    <3>0. job[r][l] \in Job /\ job \in [Requests -> [Lanes -> Job]]
      BY DEF TypeOK
    <3>1. CASE KvCheck(r, l)
      <4>1. [job[r][l] EXCEPT !.stage = "put"] \in Job
        BY <3>0 DEF Job
      <4>2. job' = [job EXCEPT ![r][l] = [job[r][l] EXCEPT !.stage = "put"]]
        BY <3>1, <3>0 DEF KvCheck
      <4>3. job' \in [Requests -> [Lanes -> Job]]
        BY <4>1, <4>2, <3>0
      <4>. QED
        BY <3>1, <4>3 DEF KvCheck, TypeOK
    <3>2. CASE KvConflict(r, l)
      <4>. DEFINE again == [job[r][l] EXCEPT !.stage = "get"]
      <4>1. again \in Job
        BY <3>0 DEF Job
      <4>2. \E new \in {again, NoJob} : job' = [job EXCEPT ![r][l] = new]
        BY <3>2, <3>0 DEF KvConflict
      <4>. HIDE DEF again
      <4>3. job' \in [Requests -> [Lanes -> Job]]
        BY <4>1, <4>2, <3>0, <2>0
      <4>. QED
        BY <3>2, <4>3, <2>10 DEF KvConflict, TypeOK
    <3>3. CASE KvRetry(r, l)
      <4>. DEFINE new == [job[r][l] EXCEPT !.stage = "check", !.why = "retry",
                            !.last = IF kv.there THEN "current" ELSE "none"]
      <4>1. new \in Job
        BY <3>0 DEF Job, KvVersion
      <4>2. job' = [job EXCEPT ![r][l] = new]
        BY <3>3, <3>0 DEF KvRetry
      <4>. HIDE DEF new
      <4>3. job' \in [Requests -> [Lanes -> Job]]
        BY <4>1, <4>2, <3>0
      <4>. QED
        BY <3>3, <4>3 DEF KvRetry, TypeOK
    <3>4. CASE KvPut(r, l)
      <4>1. kv' \in KvEntry
        BY <3>4, <3>0 DEF KvPut, KvEntry, Job
      <4>2. known' \in [Workers -> KvVersion]
        BY <3>4 DEF KvPut, TypeOK, KvVersion, Outdated
      <4>3. \A j \in Job : [j EXCEPT !.last = Outdated(@)] \in Job
        BY DEF Job, Outdated, KvVersion
      <4>4. job' \in [Requests -> [Lanes -> Job]]
        BY <3>4, <4>3, <3>0, <2>0 DEF KvPut
      <4>. QED
        BY <3>4, <4>1, <4>2, <4>4, <2>10 DEF KvPut, TypeOK
    <3>. QED
      BY <2>11, <3>1, <3>2, <3>3, <3>4 DEF KvStep
  <2>12. CASE Age
    BY <2>12 DEF Age, TypeOK, KvEntry
  <2>13. CASE KvExpire
    <3>1. known' \in [Workers -> KvVersion]
      BY <2>13 DEF KvExpire, TypeOK, KvVersion, Outdated
    <3>2. \A j \in Job : [j EXCEPT !.last = Outdated(@)] \in Job
      BY DEF Job, Outdated, KvVersion
    <3>3. job' \in [Requests -> [Lanes -> Job]]
      BY <2>13, <3>2 DEF KvExpire, TypeOK
    <3>. QED
      BY <2>13, <2>0, <3>1, <3>3 DEF KvExpire, TypeOK
  <2>14. ASSUME NEW w \in Workers, Evict(w) PROVE TypeOK'
    <3>1. job' \in [Requests -> [Lanes -> Job]]
      BY <2>14, <2>0 DEF Evict, TypeOK
    <3>. QED
      BY <2>14, <3>1 DEF Evict, TypeOK, KvVersion
  <2>15. CASE UNCHANGED vars
    BY <2>15 DEF vars, TypeOK
  <2>. QED
    BY <2>1, <2>2, <2>3, <2>5, <2>6, <2>7, <2>8, <2>9, <2>11, <2>12, <2>13, <2>14, <2>15
       DEF Next
<1>. QED
  BY <1>1, <1>2, PTL DEF Spec

-----------------------------------------------------------------------------
\* What a step may leave in KV, with a caller or in a write on its way: what
\* was authentic before the step, or what the coordinator holds after it.
Left(v, ver) == Authentic(v, ver) \/ (v = coord'.v /\ ver = coord'.ver)

\* The cache, the writes on their way to it and the callers agree with the
\* coordinator about what its current version means.
THEOREM CacheAuthenticity == Spec => []CacheAuthentic
<1>. USE DEF NoVersion
<1>1. Init => CacheAuthentic
  <2>. SUFFICES ASSUME Init PROVE CacheAuthentic
    OBVIOUS
  <2>1. coord.v = {} /\ coord.ver = 0 /\ kv.v = {} /\ kv.cv = 0
    BY DEF Init, Missing, NoEntry
  <2>2. /\ \A r \in Requests : view[r].v = {} /\ view[r].ver = 0
        /\ \A r \in Requests, l \in Lanes : job[r][l].v = {} /\ job[r][l].cv = 0
    BY DEF Init, Missing, NoJob
  <2>. QED
    BY <2>1, <2>2 DEF CacheAuthentic, Authentic
<1>2. TypeOK /\ TypeOK' /\ CacheAuthentic /\ [Next]_vars => CacheAuthentic'
  <2>. SUFFICES ASSUME TypeOK, TypeOK', CacheAuthentic, [Next]_vars PROVE CacheAuthentic'
    OBVIOUS
  <2>. DEFINE KvLeft == Left(kv'.v, kv'.cv)
              ViewLeft == \A r \in Requests : Left(view'[r].v, view'[r].ver)
              JobLeft == \A r \in Requests, l \in Lanes : Left(job'[r][l].v, job'[r][l].cv)
              Kept == coord' = coord \/ coord'.ver = coord.ver + 1
              Goal == Kept /\ KvLeft /\ ViewLeft /\ JobLeft
  <2>1. ASSUME Goal PROVE CacheAuthentic'
    <3>0. /\ coord.ver \in 0..MaxVersions /\ coord'.ver \in 0..MaxVersions
          /\ kv'.cv \in 0..MaxVersions
          /\ \A r \in Requests : view'[r].ver \in 0..MaxVersions
          /\ \A r \in Requests, l \in Lanes : job'[r][l].cv \in 0..MaxVersions
      BY DEF TypeOK, Reading, KvEntry, Job
    <3>1. Authentic({}, NoVersion)'
      BY <2>1, <3>0, MaxVersionsAssumption DEF CacheAuthentic, Authentic
    <3>2. Authentic(kv.v, kv.cv)'
      BY <2>1, <3>0, MaxVersionsAssumption DEF Authentic, Left
    <3>3. \A r \in Requests : Authentic(view[r].v, view[r].ver)'
      BY <2>1, <3>0, MaxVersionsAssumption DEF Authentic, Left
    <3>4. \A r \in Requests, l \in Lanes : Authentic(job[r][l].v, job[r][l].cv)'
      BY <2>1, <3>0, MaxVersionsAssumption DEF Authentic, Left
    <3>. QED
      BY <3>1, <3>2, <3>3, <3>4 DEF CacheAuthentic
  <2>. HIDE DEF Goal, Kept, KvLeft, ViewLeft, JobLeft
  <2>2. /\ UNCHANGED coord => Kept
        /\ UNCHANGED kv => KvLeft
        /\ UNCHANGED view => ViewLeft
        /\ UNCHANGED job => JobLeft
    BY DEF CacheAuthentic, Left, Kept, KvLeft, ViewLeft, JobLeft
  <2>3. ASSUME NEW r \in Requests, NEW new, view' = [view EXCEPT ![r] = new],
               Left(new.v, new.ver)
        PROVE  ViewLeft
    BY <2>3 DEF CacheAuthentic, Left, TypeOK, ViewLeft
  <2>4. ASSUME NEW r \in Requests, NEW l \in Lanes, NEW new,
               job' = [job EXCEPT ![r][l] = new], Left(new.v, new.cv)
        PROVE  JobLeft
    BY <2>4 DEF CacheAuthentic, Left, TypeOK, JobLeft
  <2>5. /\ Left(Missing.v, Missing.ver) /\ Left(NoJob.v, NoJob.cv)
        /\ Left(coord.v, coord.ver) /\ Left(kv.v, kv.cv) /\ Left({}, NoVersion)
        /\ \A r \in Requests, l \in Lanes : job[r][l] \in Job /\ Left(job[r][l].v, job[r][l].cv)
    BY DEF CacheAuthentic, Left, Authentic, Missing, NoJob, TypeOK, Reading
  <2>6. ASSUME NEW r \in Requests, NEW l \in Lanes, Return(r, l) PROVE ViewLeft
    BY <2>6, <2>2, <2>3, <2>5 DEF Return
  <2>7. ASSUME NEW r \in Requests, GetHit(r) PROVE Goal
    <3>1. ViewLeft
      BY <2>7, <2>3, <2>5 DEF GetHit, CachedReading
    <3>. QED
      BY <2>7, <3>1, <2>2 DEF GetHit, Goal
  <2>8. ASSUME NEW r \in Requests, GetMiss(r) PROVE Goal
    BY <2>8, <2>2 DEF GetMiss, Goal
  <2>9. ASSUME NEW r \in Requests, GetCoordinator(r) PROVE Goal
    <3>1. ViewLeft
      BY <2>9, <2>3, <2>5 DEF GetCoordinator
    <3>. DEFINE new == [stage |-> "check", why |-> "fill", v |-> coord.v, cv |-> coord.ver,
                        last |-> known[Host[r]]]
    <3>2. new.v = coord.v /\ new.cv = coord.ver /\ "fill" \in Lanes
      BY DEF Lanes
    <3>3. UNCHANGED job \/ job' = [job EXCEPT ![r]["fill"] = new]
      BY <2>9 DEF GetCoordinator
    <3>. HIDE DEF new
    <3>4. JobLeft
      BY <3>2, <3>3, <2>2, <2>4, <2>5
    <3>. QED
      BY <2>9, <3>1, <3>4, <2>2 DEF GetCoordinator, Goal
  <2>10. ASSUME NEW r \in Requests, NEW value, Set(r, value) PROVE Goal
    <3>. DEFINE new == [stage |-> "check", why |-> "set", v |-> value, cv |-> coord.ver + 1,
                        last |-> known[Host[r]]]
    <3>1. coord'.v = value /\ coord'.ver = coord.ver + 1
      BY <2>10 DEF Set
    <3>2. Left(new.v, new.cv) /\ "main" \in Lanes
      BY <3>1 DEF Left, Lanes
    <3>3. job' = [job EXCEPT ![r]["main"] = new]
      BY <2>10 DEF Set
    <3>. HIDE DEF new
    <3>4. JobLeft /\ Kept
      BY <3>1, <3>2, <3>3, <2>4 DEF Kept
    <3>. QED
      BY <2>10, <3>4, <2>2 DEF Set, Goal
  <2>11. ASSUME NEW r \in Requests, Done(r) PROVE Goal
    BY <2>11, <2>2, <2>3, <2>5 DEF Done, Goal
  <2>12. ASSUME NEW r \in Requests, Transact(r) PROVE Goal
    BY <2>12, <2>2 DEF Transact, Goal, Kept
  <2>13. ASSUME NEW r \in Requests, Invalidate(r) PROVE Goal
    <3>. DEFINE new == [stage |-> "check", why |-> "invalidate", v |-> {}, cv |-> NoVersion,
                        last |-> "current"]
    <3>1. new.v = {} /\ new.cv = NoVersion /\ "main" \in Lanes
      BY DEF Lanes
    <3>2. job' = [job EXCEPT ![r]["main"] = new]
      BY <2>13 DEF Invalidate
    <3>. HIDE DEF new
    <3>3. JobLeft
      BY <3>1, <3>2, <2>4, <2>5
    <3>. QED
      BY <2>13, <3>3, <2>2 DEF Invalidate, Goal
  \* A job that moves on keeps the entry it is about to put.
  <2>14. ASSUME NEW r \in Requests, NEW l \in Lanes, NEW new,
                job' = [job EXCEPT ![r][l] = new],
                new.v = job[r][l].v, new.cv = job[r][l].cv
         PROVE  JobLeft
    BY <2>14, <2>4, <2>5
  <2>15. ASSUME NEW r \in Requests, NEW l \in Lanes, KvCheck(r, l) PROVE Goal
    <3>. DEFINE new == [job[r][l] EXCEPT !.stage = "put"]
    <3>1. new.v = job[r][l].v /\ new.cv = job[r][l].cv
      BY <2>5 DEF Job
    <3>2. job' = [job EXCEPT ![r][l] = new]
      BY <2>15 DEF KvCheck, TypeOK
    <3>. HIDE DEF new
    <3>3. JobLeft
      BY <3>1, <3>2, <2>14
    <3>. QED
      BY <2>15, <3>3, <2>2 DEF KvCheck, Goal
  <2>16. ASSUME NEW r \in Requests, NEW l \in Lanes, KvConflict(r, l) PROVE Goal
    <3>1. CASE job[r][l].why = "set"
      <4>. DEFINE new == [job[r][l] EXCEPT !.stage = "get"]
      <4>1. new.v = job[r][l].v /\ new.cv = job[r][l].cv
        BY <2>5 DEF Job
      <4>2. job' = [job EXCEPT ![r][l] = new]
        BY <2>16, <3>1 DEF KvConflict, TypeOK
      <4>. HIDE DEF new
      <4>3. JobLeft
        BY <4>1, <4>2, <2>14
      <4>. QED
        BY <2>16, <3>1, <4>3, <2>2 DEF KvConflict, Goal
    <3>2. CASE job[r][l].why # "set"
      BY <2>16, <3>2, <2>2, <2>4, <2>5, <2>6 DEF KvConflict, Goal
    <3>. QED
      BY <3>1, <3>2
  <2>17. ASSUME NEW r \in Requests, NEW l \in Lanes, KvRetry(r, l) PROVE Goal
    <3>. DEFINE new == [job[r][l] EXCEPT !.stage = "check", !.why = "retry",
                          !.last = IF kv.there THEN "current" ELSE "none"]
    <3>1. new.v = job[r][l].v /\ new.cv = job[r][l].cv
      BY <2>5 DEF Job
    <3>2. job' = [job EXCEPT ![r][l] = new]
      BY <2>17 DEF KvRetry, TypeOK
    <3>. HIDE DEF new
    <3>3. JobLeft
      BY <3>1, <3>2, <2>14
    <3>. QED
      BY <2>17, <3>3, <2>2 DEF KvRetry, Goal
  <2>18. ASSUME \A q \in Requests, m \in Lanes :
                  \/ job'[q][m] = NoJob
                  \/ job'[q][m].v = job[q][m].v /\ job'[q][m].cv = job[q][m].cv
         PROVE  JobLeft
    <3>. SUFFICES ASSUME NEW q \in Requests, NEW m \in Lanes
                  PROVE  Left(job'[q][m].v, job'[q][m].cv)
      BY DEF JobLeft
    <3>1. CASE job'[q][m] = NoJob
      BY <3>1, <2>5
    <3>2. CASE job'[q][m].v = job[q][m].v /\ job'[q][m].cv = job[q][m].cv
      BY <3>2, <2>5
    <3>. QED
      BY <2>18, <3>1, <3>2
  <2>19. ASSUME NEW r \in Requests, NEW l \in Lanes, KvPut(r, l) PROVE Goal
    <3>1. KvLeft
      BY <2>19, <2>5 DEF KvPut, KvLeft
    <3>2. JobLeft
      BY <2>19, <2>5, <2>18 DEF KvPut, TypeOK, Job
    <3>. QED
      BY <2>19, <3>1, <3>2, <2>2, <2>6 DEF KvPut, Goal
  <2>20. ASSUME Age PROVE Goal
    <3>1. KvLeft
      BY <2>20, <2>5 DEF Age, TypeOK, KvEntry, KvLeft
    <3>. QED
      BY <2>20, <3>1, <2>2 DEF Age, Goal
  <2>21. ASSUME KvExpire PROVE Goal
    <3>1. KvLeft
      BY <2>21, <2>5 DEF KvExpire, NoEntry, KvLeft
    <3>2. job' = [r \in Requests |-> [l \in Lanes |-> [job[r][l] EXCEPT !.last = Outdated(@)]]]
      BY <2>21 DEF KvExpire
    <3>3. JobLeft
      BY <3>2, <2>5, <2>18 DEF Job
    <3>. QED
      BY <2>21, <3>1, <3>3, <2>2 DEF KvExpire, Goal
  <2>22. ASSUME NEW w \in Workers, Evict(w) PROVE Goal
    <3>1. ViewLeft
      BY <2>22, <2>5 DEF Evict, CacheAuthentic, Left, ViewLeft
    <3>2. JobLeft
      BY <2>22, <2>18 DEF Evict
    <3>. QED
      BY <2>22, <3>1, <3>2, <2>2 DEF Evict, Goal
  <2>23. ASSUME UNCHANGED vars PROVE Goal
    BY <2>23, <2>2 DEF vars, Goal
  <2>24. Goal
    BY <2>7, <2>8, <2>9, <2>10, <2>11, <2>12, <2>13, <2>15, <2>16, <2>17, <2>19, <2>20,
       <2>21, <2>22, <2>23 DEF Next, KvStep, Update, Delete
  <2>. QED
    BY <2>1, <2>24
<1>. QED
  BY <1>1, <1>2, CachedTyping, PTL DEF Spec

\* However stale the cache is, an accepted write is computed from the value it
\* replaces: get() and set() through the cache implement AtomicStore.
THEOREM CachedSerializability == Spec => NoLostUpdate
<1>. USE DEF Abstract!vars
<1>1. Init => Abstract!Init
  BY DEF Init, Abstract!Init, Missing
<1>2. TypeOK /\ CacheAuthentic /\ [Next]_vars => [Abstract!Next]_Abstract!vars
  <2>. SUFFICES ASSUME TypeOK, CacheAuthentic, [Next]_vars PROVE [Abstract!Next]_Abstract!vars
    OBVIOUS
  <2>. DEFINE K == {"key"}
  <2>1. ASSUME NEW value, coord.ver < MaxVersions,
               coord' = [v |-> value, ver |-> coord.ver + 1],
               value = {} \/ value = coord.v \cup {coord.ver + 1}
        PROVE  Abstract!Next
    <3>1. coord.ver + 1 \in Writes
      BY <2>1, MaxVersionsAssumption DEF TypeOK, Reading, Writes
    <3>2. \/ [k \in K |-> coord'.v] = [[k \in K |-> coord.v] EXCEPT !["key"] = {}]
          \/ [k \in K |-> coord'.v] =
               [[k \in K |-> coord.v] EXCEPT !["key"] = @ \cup {coord.ver + 1}]
      BY <2>1
    <3>3. [k \in K |-> FALSE] = [[k \in K |-> FALSE] EXCEPT !["key"] = FALSE]
      OBVIOUS
    <3>4. Abstract!Set(coord.ver + 1, "key", FALSE)
      BY <3>2, <3>3 DEF Abstract!Set
    <3>. QED
      BY <3>1, <3>4 DEF Abstract!Next
  <2>2. ASSUME NEW r \in Requests, Update(r) PROVE Abstract!Next
    <3>1. view[r].v = coord.v
      BY <2>2 DEF Update, Set, Accepts, CacheAuthentic, Authentic
    <3>. QED
      BY <2>2, <3>1, <2>1 DEF Update, Set
  <2>3. ASSUME NEW r \in Requests, Delete(r) PROVE Abstract!Next
    BY <2>3, <2>1 DEF Delete, Set
  <2>4. ASSUME NEW r \in Requests, Transact(r) PROVE Abstract!Next
    BY <2>4, <2>1 DEF Transact
  <2>5. CASE UNCHANGED coord
    BY <2>5
  <2>. QED
    BY ZenonT(40), <2>2, <2>3, <2>4, <2>5
       DEF Next, GetHit, GetMiss, GetCoordinator, Done, Invalidate, KvStep, KvCheck,
           KvConflict, KvRetry, KvPut, Age, KvExpire, Evict, vars
<1>. QED
  BY <1>1, <1>2, CachedTyping, CacheAuthenticity, PTL DEF Spec, NoLostUpdate, Abstract!Spec
=============================================================================
