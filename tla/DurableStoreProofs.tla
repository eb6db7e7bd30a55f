------------------------- MODULE DurableStoreProofs -------------------------
(***************************************************************************)
(* What DurableStore guarantees for every set of keys and clients and      *)
(* every bound: its types, the invariant StoreInv, that nothing but        *)
(* expired entries disappears, and that it implements AtomicStore.         *)
(***************************************************************************)
EXTENDS DurableStore, WellFoundedInduction, TLAPS

\* A non-empty set of naturals has a least element, and Min() is it.
LEMMA MinOfNats ==
  ASSUME NEW S \in SUBSET Nat, S # {}
  PROVE  Min(S) \in S /\ \A n \in S : Min(S) <= n
<1>. DEFINE Less == {p \in Nat \X Nat : p[1] < p[2]}
<1>1. IsWellFoundedOn(Less, Nat)
  BY NatLessThanWellFounded DEF OpToRel
<1>2. \E x \in S : \A y \in S : ~(<<y, x>> \in Less)
  <2>. HIDE DEF Less
  <2>. QED
    BY <1>1, WFMin
<1>3. \A x, y \in S : ~(<<y, x>> \in Less) => x <= y
  OBVIOUS
<1>4. \E x \in S : \A y \in S : x <= y
  <2>. HIDE DEF Less
  <2>. QED
    BY <1>2, <1>3
<1>. QED
  BY <1>4 DEF Min

\* Counting down stays within a clock's range.
LEMMA CountDownType ==
  ASSUME NEW hi \in Nat, NEW n \in -1..hi
  PROVE  CountDown(n) \in -1..hi /\ (n >= 0 => CountDown(n) \in 0..hi)
  BY DEF CountDown

\* The alarm handler always sets another alarm.
LEMMA NextAlarmType ==
  ASSUME NEW R \in SUBSET Marker
  PROVE  NextAlarm(R) \in (0..IdleAlarm) \cup (0..MaxTtl)
<1>1. CASE R = {}
  BY <1>1, BoundsAssumption DEF NextAlarm
<1>2. CASE R # {}
  <2>1. {m.exp : m \in R} \in SUBSET (0..MaxTtl) /\ {m.exp : m \in R} # {}
    BY <1>2 DEF Marker
  <2>. QED
    BY <1>2, <2>1, BoundsAssumption, MinOfNats DEF NextAlarm
<1>. QED
  BY <1>1, <1>2

\* Every state of the store is well typed.
THEOREM Typing == Spec => []TypeOK
<1>. USE KeysAssumption, BoundsAssumption DEF Never, NoVersion, Values, Writes
<1>1. Init => TypeOK
  <2>1. Absent \in Entry /\ NotRead \in Reading
    BY DEF Entry, Absent, Reading, NotRead
  <2>. SUFFICES ASSUME Init PROVE TypeOK
    OBVIOUS
  <2>2. alarm \in (0..IdleAlarm) \cup (0..MaxTtl) \cup {Never} /\ nextVersion \in 1..(MaxVersions + 1)
    BY DEF Init
  <2>3. /\ storage \in [Keys -> Entry]
        /\ mode \in [Clients -> {"idle", "get", "txn"}]
        /\ view \in [Clients -> [Keys -> Reading]]
    BY <2>1 DEF Init
  <2>. QED
    BY <2>2, <2>3 DEF Init, TypeOK
<1>2. TypeOK /\ [Next]_vars => TypeOK'
  <2>. SUFFICES ASSUME TypeOK, [Next]_vars PROVE TypeOK'
    OBVIOUS
  <2>. DEFINE Armed == alarm' = BootstrappedAlarm /\ bootstrapped' = TRUE
  <2>1. ASSUME Armed PROVE /\ alarm' \in (0..IdleAlarm) \cup (0..MaxTtl) \cup {Never}
                           /\ bootstrapped' \in BOOLEAN
    BY <2>1 DEF TypeOK, BootstrappedAlarm
  <2>2. ASSUME NEW c \in Clients, Forget(c)
        PROVE  /\ mode' \in [Clients -> {"idle", "get", "txn"}]
               /\ view' \in [Clients -> [Keys -> Reading]]
    BY <2>2 DEF Forget, TypeOK, Reading, NotRead
  <2>3. ASSUME NEW k \in Keys, DropExpired(k)
        PROVE  storage' \in [Keys -> Entry] /\ markers' \subseteq Marker
    BY <2>3 DEF DropExpired, TypeOK, Entry, Absent
  <2>4. ASSUME NEW k \in Keys, NEW v \in Values, NEW ttl \in (1..MaxTtl) \cup {Never},
               Store(k, v, ttl)
        PROVE  /\ storage' \in [Keys -> Entry] /\ markers' \subseteq Marker
               /\ alarm' \in (0..IdleAlarm) \cup (0..MaxTtl) \cup {Never}
               /\ nextVersion' \in 1..(MaxVersions + 1)
    <3>1. nextVersion \in Writes /\ nextVersion' \in 1..(MaxVersions + 1)
      BY <2>4 DEF Store, TypeOK
    <3>2. storage' \in [Keys -> Entry]
      BY <2>4, <3>1 DEF Store, TypeOK, Entry
    <3>3. markers' \subseteq Marker
      <4>1. ttl # Never => [key |-> k, ver |-> nextVersion, exp |-> ttl] \in Marker
        BY <3>1 DEF Marker
      <4>. QED
        BY <2>4, <4>1 DEF Store, TypeOK
    <3>4. alarm' \in (0..IdleAlarm) \cup (0..MaxTtl) \cup {Never}
      BY <2>4 DEF Store, TypeOK, BootstrappedAlarm
    <3>. QED
      BY <3>1, <3>2, <3>3, <3>4
  <2>5. ASSUME NEW c \in Clients, NEW k \in Keys, Get(c, k) PROVE TypeOK'
    <3>1. ReadOf(k) \in Reading
      BY DEF ReadOf, TypeOK, Entry, Missing, Reading
    <3>. QED
      BY <2>5, <2>1, <2>3, <3>1 DEF Get, TypeOK
  <2>6. ASSUME NEW c \in Clients, NEW k \in Keys, GetError(c, k) PROVE TypeOK'
    BY <2>6, <2>1 DEF GetError, TypeOK, Missing, Reading
  <2>7. ASSUME NEW c \in Clients, Abandon(c) PROVE TypeOK'
    BY <2>7, <2>2 DEF Abandon, TypeOK
  <2>8. ASSUME NEW c \in Clients, NEW k \in Keys, NEW ttl \in (1..MaxTtl) \cup {Never},
               SetOk(c, k, ttl)
        PROVE  TypeOK'
    <3>1. nextVersion \in Writes
      BY <2>8 DEF SetOk, Store, TypeOK
    <3>2. view[c][k].v \cup {nextVersion} \in Values
      BY <3>1 DEF TypeOK, Reading
    <3>. QED
      BY <2>8, <3>2, <2>2, <2>4 DEF SetOk, TypeOK
  <2>9. ASSUME NEW c \in Clients, NEW k \in Keys, DeleteOk(c, k) PROVE TypeOK'
    <3>1. {} \in Values
      OBVIOUS
    <3>. QED
      BY <2>9, <3>1, <2>2, <2>4 DEF DeleteOk, TypeOK
  <2>10. ASSUME NEW c \in Clients, NEW k \in Keys, SetConflict(c, k) PROVE TypeOK'
    BY <2>10, <2>1, <2>2 DEF SetConflict, TypeOK
  <2>11. ASSUME NEW c \in Clients, WriteError(c) PROVE TypeOK'
    BY <2>11, <2>1, <2>2 DEF WriteError, TypeOK
  <2>12. ASSUME NEW c \in Clients, NEW k \in Keys, TxnGet(c, k) PROVE TypeOK'
    <3>1. [v |-> storage[k].v, ver |-> storage[k].ver] \in Reading /\ Missing \in Reading
      BY DEF TypeOK, Entry, Missing, Reading
    <3>. QED
      BY <2>12, <2>1, <2>3, <3>1 DEF TxnGet, TypeOK
  <2>13. ASSUME NEW c \in Clients, NEW W \in SUBSET TxnKeys, NEW D \in SUBSET TxnKeys,
                TxnCommit(c, W, D)
         PROVE  TypeOK'
    <3>. DEFINE value == (UNION {view[c][j].v : j \in ReadSet(c)}) \cup {nextVersion}
    <3>1. nextVersion \in Writes /\ nextVersion' \in 1..(MaxVersions + 1)
      BY <2>13 DEF TxnCommit, TypeOK
    <3>2. \A j \in ReadSet(c) : view[c][j].v \subseteq Writes
      BY DEF TypeOK, Reading, ReadSet
    <3>3. value \in Values
      <4>1. value \subseteq Writes
        <5>. HIDE DEF Writes
        <5>. QED
          BY <3>1, <3>2
      <4>. QED
        BY <4>1
    <3>4. \A val \in Values : [v |-> val, ver |-> nextVersion, exp |-> Never] \in Entry
      BY <3>1 DEF Entry
    <3>. HIDE DEF value
    <3>5. storage' = [k \in Keys |->
            IF k \in W THEN [v |-> value, ver |-> nextVersion, exp |-> Never]
            ELSE IF k \in D THEN [v |-> {}, ver |-> nextVersion, exp |-> Never]
            ELSE storage[k]]
      BY <2>13 DEF TxnCommit, value
    <3>6. storage' \in [Keys -> Entry]
      BY <3>3, <3>4, <3>5 DEF TypeOK
    <3>. QED
      BY <2>13, <2>1, <2>2, <3>1, <3>6 DEF TxnCommit, TypeOK
  <2>14. ASSUME NEW c \in Clients, TxnConflict(c) PROVE TypeOK'
    BY <2>14, <2>1, <2>2 DEF TxnConflict, TypeOK
  <2>15. CASE Alarm
    <3>1. storage' \in [Keys -> Entry]
      BY <2>15 DEF Alarm, TypeOK, Entry, Absent
    <3>. QED
      BY <2>15, <3>1, NextAlarmType DEF Alarm, TypeOK
  <2>16. CASE AlarmError
    BY <2>16 DEF AlarmError, TypeOK
  <2>17. CASE Evict
    BY <2>17 DEF Evict, TypeOK
  <2>18. CASE Tick
    <3>1. storage' \in [Keys -> Entry]
      BY ZenonT(40), <2>18, CountDownType DEF Tick, TypeOK, Entry
    <3>2. markers' \subseteq Marker
      BY <2>18, CountDownType DEF Tick, TypeOK, Marker
    <3>3. alarm' \in (0..IdleAlarm) \cup (0..MaxTtl) \cup {Never}
      BY <2>18 DEF Tick, TypeOK, CountDown
    <3>. QED
      BY <2>18, <3>1, <3>2, <3>3 DEF Tick, TypeOK
  <2>19. CASE UNCHANGED vars
    BY <2>19 DEF vars, TypeOK
  <2>. QED
    BY <2>5, <2>6, <2>7, <2>8, <2>9, <2>10, <2>11, <2>12, <2>13, <2>14, <2>15,
       <2>16, <2>17, <2>18, <2>19 DEF Next, ClientStep
<1>. QED
  BY <1>1, <1>2, PTL DEF Spec

-----------------------------------------------------------------------------
\* What any step may do to an entry and to what a client knows of it: the entry
\* ages, goes, or is written under the next version; the client keeps, forgets
\* or renews what it knows.
EntryStep(k) ==
  \/ /\ storage'[k].v = storage[k].v /\ storage'[k].ver = storage[k].ver
     /\ storage'[k].exp \in {storage[k].exp, CountDown(storage[k].exp)}
  \/ storage'[k].v = {} /\ storage'[k].ver = NoVersion /\ storage'[k].exp = Never
  \/ storage'[k].ver = nextVersion /\ nextVersion' = nextVersion + 1

ViewStep(c, k) ==
  \/ view'[c][k].v = view[c][k].v /\ view'[c][k].ver = view[c][k].ver
  \/ view'[c][k].v = {} /\ view'[c][k].ver \in {-1, NoVersion}
  \/ /\ view'[c][k].v = storage[k].v /\ view'[c][k].ver = storage[k].ver
     /\ storage'[k] = storage[k]

\* Every action is made of such steps.
LEMMA StepShape ==
  ASSUME TypeOK, [Next]_vars
  PROVE  /\ \A k \in Keys : EntryStep(k)
         /\ \A c \in Clients, k \in Keys : ViewStep(c, k)
         /\ nextVersion' \in {nextVersion, nextVersion + 1}
<1>. DEFINE Shape == /\ \A k \in Keys : EntryStep(k)
                     /\ \A c \in Clients, k \in Keys : ViewStep(c, k)
                     /\ nextVersion' \in {nextVersion, nextVersion + 1}
<1>. USE KeysAssumption DEF TypeOK, Entry, Reading, Absent, NotRead, Missing
<1>1. ASSUME NEW c \in Clients, Forget(c) PROVE \A d \in Clients, k \in Keys : ViewStep(d, k)
  BY <1>1 DEF Forget, ViewStep
<1>2. ASSUME NEW k \in Keys, DropExpired(k)
      PROVE  \A j \in Keys : EntryStep(j) /\ (j # k => storage'[j] = storage[j])
                             /\ (~Expired(k) => storage'[j] = storage[j])
  BY <1>2 DEF DropExpired, EntryStep
<1>3. ASSUME UNCHANGED storage PROVE \A k \in Keys : EntryStep(k)
  BY <1>3 DEF EntryStep
<1>4. ASSUME UNCHANGED view PROVE \A c \in Clients, k \in Keys : ViewStep(c, k)
  BY <1>4 DEF ViewStep
<1>5. ASSUME NEW c \in Clients, NEW k \in Keys, Get(c, k) PROVE Shape
  <2>1. \A d \in Clients, j \in Keys : ViewStep(d, j)
    BY <1>5, <1>2 DEF Get, ViewStep, ReadOf
  <2>. QED
    BY <1>5, <1>2, <2>1 DEF Get
<1>6. ASSUME NEW c \in Clients, NEW k \in Keys, GetError(c, k) PROVE Shape
  BY <1>6, <1>3 DEF GetError, ViewStep
<1>7. ASSUME NEW c \in Clients, Abandon(c) PROVE Shape
  BY <1>7, <1>1, <1>3 DEF Abandon
<1>8. ASSUME NEW c \in Clients, NEW k \in Keys, NEW ttl, SetOk(c, k, ttl) PROVE Shape
  BY <1>8, <1>1 DEF SetOk, Store, EntryStep
<1>9. ASSUME NEW c \in Clients, NEW k \in Keys, DeleteOk(c, k) PROVE Shape
  BY <1>9, <1>1 DEF DeleteOk, Store, EntryStep
<1>10. ASSUME NEW c \in Clients, NEW k \in Keys, SetConflict(c, k) PROVE Shape
  BY <1>10, <1>1, <1>3 DEF SetConflict
<1>11. ASSUME NEW c \in Clients, WriteError(c) PROVE Shape
  BY <1>11, <1>1, <1>3 DEF WriteError
<1>12. ASSUME NEW c \in Clients, NEW k \in Keys, TxnGet(c, k) PROVE Shape
  <2>1. \A d \in Clients, j \in Keys : ViewStep(d, j)
    BY <1>12, <1>2 DEF TxnGet, ViewStep
  <2>. QED
    BY <1>12, <1>2, <2>1 DEF TxnGet
<1>13. ASSUME NEW c \in Clients, NEW W, NEW D, TxnCommit(c, W, D) PROVE Shape
  <2>1. \A k \in Keys : EntryStep(k)
    BY <1>13 DEF TxnCommit, EntryStep
  <2>. QED
    BY <1>13, <1>1, <2>1 DEF TxnCommit
<1>14. ASSUME NEW c \in Clients, TxnConflict(c) PROVE Shape
  BY <1>14, <1>1, <1>3 DEF TxnConflict
<1>15. CASE Alarm
  BY <1>15, <1>4 DEF Alarm, EntryStep
<1>16. CASE AlarmError
  BY <1>16, <1>3, <1>4 DEF AlarmError
<1>17. CASE Evict
  BY <1>17, <1>3, <1>4 DEF Evict
<1>18. CASE Tick
  BY <1>18, <1>4 DEF Tick, EntryStep
<1>19. CASE UNCHANGED vars
  BY <1>19, <1>3, <1>4 DEF vars
<1>. QED
  BY <1>5, <1>6, <1>7, <1>8, <1>9, <1>10, <1>11, <1>12, <1>13, <1>14, <1>15,
     <1>16, <1>17, <1>18, <1>19 DEF Next, ClientStep

\* Versions are fresh and name one value: the optimistic concurrency control of
\* set() and transact() rests on this.
THEOREM Versioning == Spec => [](VersionsIssued /\ ViewsAuthentic)
<1>. DEFINE Ver == VersionsIssued /\ ViewsAuthentic
<1>. USE DEF Absent, NotRead, Missing, NoVersion, Never
<1>1. Init => Ver
  BY DEF Init, VersionsIssued, ViewsAuthentic
<1>2. TypeOK /\ TypeOK' /\ Ver /\ [Next]_vars => Ver'
  <2>. SUFFICES ASSUME TypeOK, TypeOK', Ver, [Next]_vars PROVE Ver'
    OBVIOUS
  <2>0. /\ \A k \in Keys : EntryStep(k)
        /\ \A c \in Clients, k \in Keys : ViewStep(c, k)
        /\ nextVersion' \in {nextVersion, nextVersion + 1}
    BY StepShape
  <2>1. ASSUME NEW k \in Keys
        PROVE  /\ storage[k] \in Entry /\ storage'[k] \in Entry
               /\ nextVersion \in Nat \ {0} /\ EntryStep(k)
               /\ storage[k].ver < nextVersion
               /\ storage[k].ver = NoVersion => storage[k].v = {} /\ storage[k].exp = Never
    BY <2>0 DEF TypeOK, VersionsIssued, ViewsAuthentic
  <2>2. ASSUME NEW k \in Keys
        PROVE  /\ storage'[k].ver < nextVersion'
               /\ storage'[k].ver = NoVersion => storage'[k].v = {} /\ storage'[k].exp = Never
    BY <2>0, <2>1 DEF EntryStep, Entry, CountDown
  <2>3. ASSUME NEW c \in Clients, NEW k \in Keys
        PROVE  /\ view[c][k] \in Reading /\ view'[c][k] \in Reading /\ ViewStep(c, k)
               /\ view[c][k].ver < nextVersion
               /\ view[c][k].ver \in {-1, NoVersion} => view[c][k].v = {}
               /\ view[c][k].ver = storage[k].ver => view[c][k].v = storage[k].v
    BY <2>0 DEF TypeOK, VersionsIssued, ViewsAuthentic
  <2>4. ASSUME NEW c \in Clients, NEW k \in Keys
        PROVE  view'[c][k].ver < nextVersion'
    BY <2>0, <2>1, <2>3 DEF ViewStep, Reading, Entry
  <2>5. ASSUME NEW c \in Clients, NEW k \in Keys
        PROVE  view'[c][k].ver \in {-1, NoVersion} => view'[c][k].v = {}
    BY <2>1, <2>3 DEF ViewStep, Reading, Entry
  <2>6. ASSUME NEW c \in Clients, NEW k \in Keys
        PROVE  view'[c][k].ver = storage'[k].ver => view'[c][k].v = storage'[k].v
    <3>1. CASE view'[c][k].v = view[c][k].v /\ view'[c][k].ver = view[c][k].ver
      <4>1. view[c][k].ver # nextVersion
        BY <2>1, <2>3 DEF Reading
      <4>. QED
        BY <3>1, <4>1, <2>1, <2>3 DEF EntryStep
    <3>2. CASE view'[c][k].v = {} /\ view'[c][k].ver \in {-1, NoVersion}
      <4>1. storage'[k].ver # -1
        BY <2>1 DEF Entry
      <4>. QED
        BY <3>2, <4>1, <2>2
    <3>3. CASE /\ view'[c][k].v = storage[k].v /\ view'[c][k].ver = storage[k].ver
               /\ storage'[k] = storage[k]
      BY <3>3
    <3>. QED
      BY <3>1, <3>2, <3>3, <2>3 DEF ViewStep
  <2>. QED
    BY <2>2, <2>4, <2>5, <2>6 DEF VersionsIssued, ViewsAuthentic
<1>. QED
  BY <1>1, <1>2, Typing, PTL DEF Spec

-----------------------------------------------------------------------------
\* The callers keep the keys they give a TTL apart from those of transactions.
Apart == TtlKeys \cap TxnKeys = {}

\* The markers follow the entries through every step.
LEMMA MarkersStep ==
  ASSUME Apart, TypeOK, TypeOK', MarkersCurrent, TtlReapable, [Next]_vars
  PROVE  MarkersCurrent' /\ TtlReapable'
<1>. DEFINE Good == MarkersCurrent' /\ TtlReapable'
<1>. USE KeysAssumption, BoundsAssumption DEF Never, NoVersion
<1>0. /\ \A k \in Keys : storage[k] \in Entry
      /\ \A m \in markers : m \in Marker /\ m.key \in Keys /\ m.exp # Never
  BY DEF TypeOK, Marker
<1>1. ASSUME UNCHANGED storage, UNCHANGED markers, alarm' # Never PROVE Good
  BY <1>1 DEF MarkersCurrent, TtlReapable
<1>2. ASSUME NEW k \in Keys, DropExpired(k), alarm' # Never PROVE Good
  <2>1. CASE Expired(k)
    <3>1. storage' = [storage EXCEPT ![k] = Absent] /\ markers' = markers \ MarkersOf(k)
      BY <1>2, <2>1 DEF DropExpired
    <3>2. \A m \in markers' : m.key # k
      BY <3>1, <1>0 DEF MarkersOf, MarkersCurrent
    <3>3. \A m \in markers : m.key # k => m \in markers'
      BY <3>1 DEF MarkersOf
    <3>4. MarkersCurrent'
      BY <3>1, <3>2, <1>0 DEF MarkersCurrent, TypeOK
    <3>5. TtlReapable'
      BY <3>1, <3>3, <1>2 DEF TtlReapable, TypeOK, Absent
    <3>. QED
      BY <3>4, <3>5
  <2>2. CASE ~Expired(k)
    BY <2>2, <1>1, <1>2 DEF DropExpired
  <2>. QED
    BY <2>1, <2>2
<1>4. ASSUME alarm' = BootstrappedAlarm, UNCHANGED storage, UNCHANGED markers PROVE Good
  BY <1>4, <1>0, <1>1 DEF BootstrappedAlarm, MarkersCurrent, TtlReapable
<1>5. ASSUME NEW k \in Keys, DropExpired(k), alarm' = BootstrappedAlarm PROVE Good
  <2>1. CASE Expired(k)
    <3>0. alarm # Never /\ IdleAlarm # Never
      <4>1. storage[k].exp # Never
        BY <2>1 DEF Expired
      <4>2. IdleAlarm # Never
        OBVIOUS
      <4>. QED
        BY <4>1, <4>2 DEF TtlReapable
    <3>1. alarm' # Never
      BY <3>0, <1>5 DEF BootstrappedAlarm
    <3>. QED
      BY <3>1, <1>5, <1>2
  <2>2. CASE ~Expired(k)
    BY <2>2, <1>5, <1>4 DEF DropExpired
  <2>. QED
    BY <2>1, <2>2
<1>6. ASSUME NEW k \in Keys, NEW v, NEW ttl \in (1..MaxTtl) \cup {Never},
             k \in TtlKeys \/ ttl = Never, Store(k, v, ttl)
      PROVE  Good
  <2>. DEFINE new == [v |-> v, ver |-> nextVersion, exp |-> ttl]
              mark == [key |-> k, ver |-> nextVersion, exp |-> ttl]
  <2>1. storage' = [storage EXCEPT ![k] = new]
    BY <1>6 DEF Store
  <2>2. \A m \in markers : m.key = k <=> m \in StaleMarkers(k)
    BY <1>0 DEF StaleMarkers, MarkersOf, MarkersCurrent
  <2>3. markers' = {m \in markers : m.key # k} \cup (IF ttl = Never THEN {} ELSE {mark})
    BY <1>6, <2>2 DEF Store
  <2>4. /\ ttl # Never => alarm' # Never
        /\ alarm # Never => alarm' # Never
    BY <1>6 DEF Store, BootstrappedAlarm, TypeOK
  <2>5. MarkersCurrent'
    BY <2>1, <2>3, <1>0, <1>6 DEF MarkersCurrent, TypeOK
  <2>6. TtlReapable'
    BY <2>1, <2>3, <2>4, <1>0 DEF TtlReapable, TypeOK
  <2>. QED
    BY <2>5, <2>6
<1>7. ASSUME NEW c \in Clients, NEW k \in Keys, Get(c, k) \/ TxnGet(c, k) PROVE Good
  BY <1>5, <1>7 DEF Get, TxnGet
<1>8. ASSUME NEW c \in Clients, NEW k \in Keys, GetError(c, k) \/ SetConflict(c, k) PROVE Good
  BY <1>4, <1>8 DEF GetError, SetConflict
<1>9. ASSUME NEW c \in Clients, WriteError(c) \/ TxnConflict(c) PROVE Good
  BY <1>4, <1>9 DEF WriteError, TxnConflict
<1>10. ASSUME NEW c \in Clients, Abandon(c) PROVE Good
  BY <1>10 DEF Abandon, MarkersCurrent, TtlReapable
<1>11. ASSUME NEW c \in Clients, NEW k \in Keys,
              NEW ttl \in (IF k \in TtlKeys THEN 1..MaxTtl ELSE {Never}), SetOk(c, k, ttl)
       PROVE  Good
  BY <1>6, <1>11 DEF SetOk
<1>12. ASSUME NEW c \in Clients, NEW k \in Keys, DeleteOk(c, k) PROVE Good
  BY <1>6, <1>12 DEF DeleteOk
<1>13. ASSUME NEW c \in Clients, NEW W \in SUBSET TxnKeys, NEW D \in SUBSET TxnKeys,
              TxnCommit(c, W, D)
       PROVE  Good
  <2>1. \A k \in Keys \ (W \cup D) : storage'[k] = storage[k]
    BY <1>13 DEF TxnCommit
  <2>2. \A k \in W \cup D : storage'[k].exp = Never
    BY <1>13 DEF TxnCommit
  <2>3. \A m \in markers : m.key \notin W \cup D
    BY DEF MarkersCurrent, Apart
  <2>4. markers' = markers /\ (alarm # Never => alarm' # Never)
    BY <1>13 DEF TxnCommit, BootstrappedAlarm
  <2>5. MarkersCurrent'
    BY <2>1, <2>3, <2>4, <1>0 DEF MarkersCurrent
  <2>6. TtlReapable'
    BY <2>1, <2>2, <2>4 DEF TtlReapable
  <2>. QED
    BY <2>5, <2>6
<1>14. CASE Alarm
  <2>1. alarm' # Never
    BY <1>14, NextAlarmType DEF Alarm, TypeOK
  <2>2. \A k \in Keys : storage'[k] = IF Reap(k) THEN Absent ELSE storage[k]
    BY <1>14 DEF Alarm
  <2>3. markers' = markers \ DueMarkers
    BY <1>14 DEF Alarm
  <2>4. \A m \in markers' : ~Reap(m.key)
    BY <2>3 DEF Reap, DueMarkers, MarkersCurrent
  <2>5. MarkersCurrent'
    BY <2>2, <2>3, <2>4, <1>0 DEF MarkersCurrent
  <2>6. \A k \in Keys, m \in markers : m.key = k /\ ~Reap(k) => m \in markers'
    BY <2>3 DEF Reap, DueMarkers
  <2>7. TtlReapable'
    BY <2>1, <2>2, <2>6 DEF TtlReapable, Absent
  <2>. QED
    BY <2>5, <2>7
<1>15. CASE AlarmError
  BY <1>1, <1>15 DEF AlarmError
<1>16. CASE Evict \/ UNCHANGED vars
  BY <1>16 DEF Evict, vars, MarkersCurrent, TtlReapable
<1>17. CASE Tick
  <2>1. \A k \in Keys : /\ storage'[k].ver = storage[k].ver
                        /\ storage'[k].exp = CountDown(storage[k].exp)
    BY <1>17, <1>0 DEF Tick, Entry
  <2>2. markers' = {[m EXCEPT !.exp = CountDown(@)] : m \in markers}
    BY <1>17 DEF Tick
  <2>3. MarkersCurrent'
    BY <2>1, <2>2, <1>0 DEF MarkersCurrent, Marker
  <2>4. ASSUME NEW k \in Keys, storage'[k].exp # Never
        PROVE  [key |-> k, ver |-> storage'[k].ver, exp |-> storage'[k].exp] \in markers'
    <3>. DEFINE m == [key |-> k, ver |-> storage[k].ver, exp |-> storage[k].exp]
    <3>1. m \in markers
      BY <2>1, <2>4, <1>0 DEF CountDown, TtlReapable, Entry
    <3>2. [m EXCEPT !.exp = CountDown(@)]
            = [key |-> k, ver |-> storage'[k].ver, exp |-> storage'[k].exp]
      BY <2>1, <2>4
    <3>. QED
      BY <3>1, <3>2, <2>2
  <2>5. alarm # Never => alarm' # Never
    BY <1>17 DEF Tick, CountDown, TypeOK
  <2>6. \A k \in Keys : storage'[k].exp # Never => storage[k].exp # Never
    BY <2>1, <1>0 DEF CountDown, Entry
  <2>. QED
    BY <2>3, <2>4, <2>5, <2>6 DEF TtlReapable
<1>. QED
  BY <1>7, <1>8, <1>9, <1>10, <1>11, <1>12, <1>13, <1>14, <1>15, <1>16, <1>17
     DEF Next, ClientStep

\* The storage, the versions, the clients' views and the TTL markers agree in
\* every state, and every entry with a TTL has its marker and an alarm.
THEOREM StoreInvariance ==
  ASSUME Apart
  PROVE  Spec => []StoreInv
<1>1. Init => MarkersCurrent /\ TtlReapable
  BY DEF Init, MarkersCurrent, TtlReapable, Absent
<1>2. TypeOK /\ TypeOK' /\ MarkersCurrent /\ TtlReapable /\ [Next]_vars
        => MarkersCurrent' /\ TtlReapable'
  BY MarkersStep
<1>. QED
  BY <1>1, <1>2, Typing, Versioning, PTL DEF Spec, StoreInv

\* No entry disappears before its TTL has run out, whatever the interleaving of
\* requests, evictions and alarms (alarm() and the reads of durable-object.ts).
THEOREM NothingElseVanishes ==
  ASSUME Apart
  PROVE  Spec => OnlyExpiredVanish
<1>. DEFINE Vanish == \A k \in Keys : storage[k] # Absent /\ storage'[k] = Absent
                                      => storage[k].exp = 0
<1>1. TypeOK /\ MarkersCurrent /\ [Next]_vars => [Vanish]_vars
  <2>. SUFFICES ASSUME TypeOK, MarkersCurrent, [Next]_vars,
                       NEW k \in Keys, storage[k] # Absent, storage'[k] = Absent
                PROVE  storage[k].exp = 0
    OBVIOUS
  <2>. USE KeysAssumption
  <2>0. nextVersion # NoVersion /\ storage[k] \in Entry
    BY DEF TypeOK, NoVersion
  <2>1. ASSUME NEW j \in Keys, DropExpired(j) PROVE storage[k].exp = 0
    BY <2>1 DEF DropExpired, Expired, TypeOK
  <2>2. ASSUME NEW j \in Keys, NEW v, NEW ttl, Store(j, v, ttl) PROVE FALSE
    BY <2>2, <2>0 DEF Store, TypeOK, Absent
  <2>3. ASSUME NEW c, NEW W, NEW D, TxnCommit(c, W, D) PROVE FALSE
    BY <2>3, <2>0 DEF TxnCommit, Absent
  <2>4. CASE Alarm
    BY <2>4 DEF Alarm, Reap, DueMarkers, MarkersCurrent
  <2>5. CASE Tick
    <3>1. /\ storage'[k].v = storage[k].v /\ storage'[k].ver = storage[k].ver
          /\ storage'[k].exp = CountDown(storage[k].exp)
      BY <2>5, <2>0 DEF Tick, Entry
    <3>2. CountDown(storage[k].exp) = Never => storage[k].exp = Never
      BY <2>0 DEF CountDown, Never, Entry
    <3>3. storage[k] = Absent
      BY <2>0, <3>1, <3>2 DEF Entry, Absent
    <3>. QED
      BY <3>3
  <2>6. CASE UNCHANGED storage
    BY <2>6
  <2>. QED
    BY <2>1, <2>2, <2>3, <2>4, <2>5, <2>6
       DEF Next, ClientStep, Get, GetError, Abandon, SetOk, DeleteOk, SetConflict,
           WriteError, TxnGet, TxnConflict, AlarmError, Evict, vars
<1>. QED
  BY <1>1, Typing, StoreInvariance, PTL DEF Spec, StoreInv, OnlyExpiredVanish

\* The store implements AtomicStore: a write that is accepted is computed from
\* the very values it replaces or depends on, for get-then-set and transact().
THEOREM Serializability ==
  ASSUME Apart
  PROVE  Spec => Serializable
<1>. DEFINE val(k) == storage[k].v
            ttl(k) == storage[k].exp # Never
<1>. USE DEF Abstract!vars
<1>1. Init => Abstract!Init
  <2>1. Init => \A k \in Keys : storage[k].v = {} /\ storage[k].exp = Never
    BY DEF Init, Absent
  <2>. QED
    BY <2>1 DEF Abstract!Init
<1>2. TypeOK /\ StoreInv /\ [Next]_vars => [Abstract!Next]_Abstract!vars
  <2>. SUFFICES ASSUME TypeOK, StoreInv, [Next]_vars PROVE [Abstract!Next]_Abstract!vars
    OBVIOUS
  <2>. USE KeysAssumption, BoundsAssumption
  <2>0. \A k \in Keys : storage[k] \in Entry
    BY DEF TypeOK
  <2>1. ASSUME \A k \in Keys : val(k)' = val(k) /\ ttl(k)' = ttl(k)
        PROVE  UNCHANGED Abstract!vars
    BY <2>1
  <2>2. ASSUME NEW K \in SUBSET Keys, \A k \in K : ttl(k) = TRUE,
               storage' = [k \in Keys |-> IF k \in K THEN Absent ELSE storage[k]]
        PROVE  Abstract!Next
    <3>1. Abstract!Expire(K)
      BY <2>2 DEF Abstract!Expire, Absent
    <3>. QED
      BY <3>1 DEF Abstract!Next
  <2>3. ASSUME NEW k \in Keys, DropExpired(k) PROVE [Abstract!Next]_Abstract!vars
    <3>1. CASE Expired(k)
      <4>1. storage' = [j \in Keys |-> IF j \in {k} THEN Absent ELSE storage[j]]
        BY <3>1, <2>3 DEF DropExpired, TypeOK
      <4>2. {k} \in SUBSET Keys /\ \A j \in {k} : ttl(j) = TRUE
        BY <3>1 DEF Expired, Never
      <4>. QED
        BY <4>1, <4>2, <2>2
    <3>2. CASE ~Expired(k)
      BY <3>2, <2>3 DEF DropExpired
    <3>. QED
      BY <3>1, <3>2
  <2>4. ASSUME NEW c \in Clients, NEW k \in Keys, NEW t, SetOk(c, k, t) PROVE Abstract!Next
    <3>1. nextVersion \in Writes
      BY <2>4 DEF SetOk, Store, TypeOK, Writes
    <3>2. view[c][k].v = storage[k].v
      BY <2>4 DEF SetOk, VersionMatches, StoreInv, ViewsAuthentic
    <3>3. storage' = [storage EXCEPT ![k] =
                        [v |-> storage[k].v \cup {nextVersion}, ver |-> nextVersion, exp |-> t]]
      BY <2>4, <3>2 DEF SetOk, Store
    <3>4. Abstract!Set(nextVersion, k, t # Never)
      <4>1. /\ [j \in Keys |-> storage'[j].v] =
                 [[j \in Keys |-> storage[j].v] EXCEPT ![k] = @ \cup {nextVersion}]
            /\ [j \in Keys |-> storage'[j].exp # Never] =
                 [[j \in Keys |-> storage[j].exp # Never] EXCEPT ![k] = t # Never]
        BY <3>3 DEF TypeOK
      <4>. QED
        BY <4>1 DEF Abstract!Set
    <3>5. (t # Never) \in BOOLEAN
      OBVIOUS
    <3>. QED
      BY <3>1, <3>4, <3>5 DEF Abstract!Next
  <2>5. ASSUME NEW c \in Clients, NEW k \in Keys, DeleteOk(c, k) PROVE Abstract!Next
    <3>1. nextVersion \in Writes
      BY <2>5 DEF DeleteOk, Store, TypeOK, Writes
    <3>2. storage' = [storage EXCEPT ![k] = [v |-> {}, ver |-> nextVersion, exp |-> Never]]
      BY <2>5 DEF DeleteOk, Store
    <3>3. Abstract!Set(nextVersion, k, FALSE)
      <4>1. /\ [j \in Keys |-> storage'[j].v] =
                 [[j \in Keys |-> storage[j].v] EXCEPT ![k] = {}]
            /\ [j \in Keys |-> storage'[j].exp # Never] =
                 [[j \in Keys |-> storage[j].exp # Never] EXCEPT ![k] = FALSE]
        BY <3>2 DEF TypeOK
      <4>. QED
        BY <4>1 DEF Abstract!Set
    <3>. QED
      BY <3>1, <3>3 DEF Abstract!Next
  <2>6. ASSUME NEW c \in Clients, NEW W \in SUBSET TxnKeys, NEW D \in SUBSET (TxnKeys \ W),
               TxnCommit(c, W, D)
        PROVE  Abstract!Next
    <3>1. nextVersion \in Writes
      BY <2>6 DEF TxnCommit, TypeOK, Writes
    <3>2. \A j \in ReadSet(c) : view[c][j].v = storage[j].v
      BY <2>6 DEF TxnCommit, ReadSetValid, ReadSet, VersionMatches, StoreInv, ViewsAuthentic
    <3>3. {view[c][j].v : j \in ReadSet(c)} = {storage[j].v : j \in ReadSet(c)}
      BY <3>2
    <3>. DEFINE read == UNION {storage[j].v : j \in ReadSet(c)}
    <3>4. storage' = [k \in Keys |->
            IF k \in W THEN [v |-> read \cup {nextVersion}, ver |-> nextVersion, exp |-> Never]
            ELSE IF k \in D THEN [v |-> {}, ver |-> nextVersion, exp |-> Never]
            ELSE storage[k]]
      BY <2>6, <3>3 DEF TxnCommit
    <3>5. ReadSet(c) \in SUBSET Keys /\ W \in SUBSET TxnKeys /\ D \in SUBSET TxnKeys
      BY DEF ReadSet
    <3>6. {[k \in Keys |-> storage[k].v][j] : j \in ReadSet(c)} = {storage[j].v : j \in ReadSet(c)}
      BY <3>5
    <3>7. Abstract!Transact(nextVersion, ReadSet(c), W, D)
      <4>. HIDE DEF read
      <4>1. /\ [k \in Keys |-> storage'[k].v] =
                 [k \in Keys |-> IF k \in W THEN read \cup {nextVersion}
                                 ELSE IF k \in D THEN {} ELSE storage[k].v]
            /\ [k \in Keys |-> storage'[k].exp # Never] =
                 [k \in Keys |-> IF k \in W \cup D THEN FALSE ELSE storage[k].exp # Never]
        BY <3>4
      <4>. QED
        BY <4>1, <3>6 DEF Abstract!Transact, read
    <3>. QED
      BY <3>1, <3>5, <3>7 DEF Abstract!Next
  <2>7. CASE Alarm
    <3>. DEFINE K == {k \in Keys : Reap(k)}
    <3>1. \A k \in K : ttl(k) = TRUE
      BY DEF Reap, DueMarkers, StoreInv, MarkersCurrent, Never
    <3>2. storage' = [k \in Keys |-> IF k \in K THEN Absent ELSE storage[k]]
      BY <2>7 DEF Alarm
    <3>. QED
      BY <3>1, <3>2, <2>2
  <2>8. CASE Tick
    <3>1. \A k \in Keys : /\ storage'[k].v = storage[k].v
                          /\ storage'[k].exp = CountDown(storage[k].exp)
      BY <2>8, <2>0 DEF Tick, Entry
    <3>2. \A k \in Keys : CountDown(storage[k].exp) = Never <=> storage[k].exp = Never
      BY <2>0 DEF CountDown, Never, Entry
    <3>. QED
      BY <3>1, <3>2, <2>1
  <2>9. CASE UNCHANGED storage
    BY <2>9
  <2>. QED
    BY <2>3, <2>4, <2>5, <2>6, <2>7, <2>8, <2>9
       DEF Next, ClientStep, Get, GetError, Abandon, SetConflict,
           WriteError, TxnGet, TxnConflict, AlarmError, Evict, vars
<1>. QED
  BY <1>1, <1>2, Typing, StoreInvariance, PTL DEF Spec, Serializable, Abstract!Spec
=============================================================================
