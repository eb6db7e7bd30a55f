---------------------------- MODULE DurableStore ----------------------------
(***************************************************************************)
(* One shard of the Durable Object store                                   *)
(* (src/core/store/adapters/durable-object.ts): AtomicStoreDO with its TTL *)
(* markers and its alarm, and the clients that reach it through            *)
(* DurableObjectAtomicStore.  A request to the object runs alone (the      *)
(* object's input gate stays closed while it awaits its storage), so a     *)
(* request is one action; a client's get and its set, and the reads and    *)
(* the commit of its transaction, are separate requests that interleave.   *)
(*                                                                         *)
(* A value is the set of writes it reflects, {} is JSON null.  Time is     *)
(* relative: `exp' counts down to 0, the instant the entry is expired.     *)
(***************************************************************************)
EXTENDS Integers, FiniteSets, FiniteSetsExt, TLC

CONSTANTS Keys,         \* keys of the shard
          TtlKeys,      \* keys that callers write with ttlSeconds
          TxnKeys,      \* keys that callers use in transact()
          Clients,      \* requests of Workers that use the store
          MaxVersions,  \* bound on the number of writes
          MaxTtl,       \* longest ttlSeconds, in ticks
          IdleAlarm     \* IDLE_ALARM_MS, in ticks

ASSUME KeysAssumption == TtlKeys \subseteq Keys /\ TxnKeys \subseteq Keys
ASSUME BoundsAssumption == /\ MaxVersions \in Nat /\ MaxTtl \in Nat \ {0}
                           /\ IdleAlarm \in Nat \ {0}

Writes == 1..MaxVersions
Never == -1       \* _expiresAt = null; no alarm
NoVersion == 0    \* version = null
Values == SUBSET Writes

\* StoredValue: value, _ver, _expiresAt.  An absent key has no version.
Entry == [v : Values, ver : 0..MaxVersions, exp : -1..MaxTtl]
Absent == [v |-> {}, ver |-> NoVersion, exp |-> Never]

\* What a client was told about a key.
Reading == [v : Values, ver : -1..MaxVersions]
NotRead == [v |-> {}, ver |-> -1]
Missing == [v |-> {}, ver |-> NoVersion]

\* A key __ttl:{expiresAt}:{key}; `ver' names the write that stored it.
Marker == [key : Keys, ver : Writes, exp : 0..MaxTtl]

VARIABLES storage,      \* ctx.storage: the entries
          markers,      \* ctx.storage: the TTL markers
          alarm,        \* ticks to the alarm, Never when none is set
          bootstrapped, \* #alarmBootstrapped, of the object in memory
          mode,         \* per client: "idle", "get" (got an entry), "txn"
          view,         \* per client: what it read of each key
          nextVersion   \* generateVersionId()

vars == <<storage, markers, alarm, bootstrapped, mode, view, nextVersion>>

TypeOK == /\ storage \in [Keys -> Entry]
          /\ markers \subseteq Marker
          /\ alarm \in (0..IdleAlarm) \cup (0..MaxTtl) \cup {Never}
          /\ bootstrapped \in BOOLEAN
          /\ mode \in [Clients -> {"idle", "get", "txn"}]
          /\ view \in [Clients -> [Keys -> Reading]]
          /\ nextVersion \in 1..(MaxVersions + 1)

Init == /\ storage = [k \in Keys |-> Absent]
        /\ markers = {}
        /\ alarm = Never
        /\ bootstrapped = FALSE
        /\ mode = [c \in Clients |-> "idle"]
        /\ view = [c \in Clients |-> [k \in Keys |-> NotRead]]
        /\ nextVersion = 1

-----------------------------------------------------------------------------
\* fetch() arms the idle alarm on the first request after the object was
\* loaded, in place of whatever alarm was pending.
BootstrappedAlarm == IF bootstrapped THEN alarm ELSE IdleAlarm

Expired(k) == storage[k].exp = 0
MarkersOf(k) == {m \in markers : m.key = k /\ m.ver = storage[k].ver}
Forget(c) == /\ mode' = [mode EXCEPT ![c] = "idle"]
             /\ view' = [view EXCEPT ![c] = [k \in Keys |-> NotRead]]

\* A read that finds an expired entry deletes it with its marker.
DropExpired(k) ==
  /\ storage' = IF Expired(k) THEN [storage EXCEPT ![k] = Absent] ELSE storage
  /\ markers' = IF Expired(k) THEN markers \ MarkersOf(k) ELSE markers

\* 'get', and the adapter's get: an expired entry and a stored null both read
\* as "no such key".
ReadOf(k) == IF Expired(k) \/ storage[k].v = {} THEN Missing
             ELSE [v |-> storage[k].v, ver |-> storage[k].ver]

Get(c, k) ==
  /\ mode[c] = "idle"
  /\ DropExpired(k)
  /\ mode' = [mode EXCEPT ![c] = "get"]
  /\ view' = [view EXCEPT ![c][k] = ReadOf(k)]
  /\ alarm' = BootstrappedAlarm /\ bootstrapped' = TRUE
  /\ UNCHANGED nextVersion

\* The object answers 503: the adapter reports the key as missing.
GetError(c, k) ==
  /\ mode[c] = "idle"
  /\ mode' = [mode EXCEPT ![c] = "get"]
  /\ view' = [view EXCEPT ![c][k] = Missing]
  /\ alarm' = BootstrappedAlarm /\ bootstrapped' = TRUE
  /\ UNCHANGED <<storage, markers, nextVersion>>

\* The caller does nothing with what it read, or its request dies.
Abandon(c) ==
  /\ mode[c] # "idle"
  /\ Forget(c)
  /\ UNCHANGED <<storage, markers, alarm, bootstrapped, nextVersion>>

-----------------------------------------------------------------------------
\* Mutant: a create-only set is not checked against the stored version.
VersionMatchesUpdatesOnly(k, expected) ==
  expected = NoVersion \/ storage[k].ver = expected

\* 'set': compare the stored version with the expected one.
VersionMatches(k, expected) == storage[k].ver = expected

\* Mutant: set() leaves the marker of the value it overwrites.
StaleMarkersKept(k) == {}

\* The marker of the value that set() overwrites.
StaleMarkers(k) == IF storage[k].exp # Never THEN MarkersOf(k) ELSE {}

\* set(key, value, expectedVersion, ttl), with ttl = Never when not given.
Store(k, value, ttl) ==
  /\ nextVersion <= MaxVersions
  /\ storage' = [storage EXCEPT ![k] = [v |-> value, ver |-> nextVersion, exp |-> ttl]]
  /\ markers' = (markers \ StaleMarkers(k))
                \cup IF ttl = Never THEN {}
                     ELSE {[key |-> k, ver |-> nextVersion, exp |-> ttl]}
  /\ alarm' = IF ttl # Never /\ (BootstrappedAlarm = Never \/ ttl < BootstrappedAlarm)
              THEN ttl ELSE BootstrappedAlarm
  /\ nextVersion' = nextVersion + 1

\* A caller writes back what it read, changed by its own write.
SetOk(c, k, ttl) ==
  /\ mode[c] = "get" /\ view[c][k] # NotRead
  /\ VersionMatches(k, view[c][k].ver)
  /\ Store(k, view[c][k].v \cup {nextVersion}, ttl)
  /\ Forget(c) /\ bootstrapped' = TRUE

\* A caller deletes what it found by writing null, always without a TTL.
DeleteOk(c, k) ==
  /\ mode[c] = "get" /\ view[c][k] \notin {NotRead, Missing}
  /\ VersionMatches(k, view[c][k].ver)
  /\ Store(k, {}, Never)
  /\ Forget(c) /\ bootstrapped' = TRUE

\* The version check fails: {version: null, conflict: true}.
SetConflict(c, k) ==
  /\ mode[c] = "get" /\ view[c][k] # NotRead
  /\ ~VersionMatches(k, view[c][k].ver)
  /\ Forget(c)
  /\ alarm' = BootstrappedAlarm /\ bootstrapped' = TRUE
  /\ UNCHANGED <<storage, markers, nextVersion>>

-----------------------------------------------------------------------------
\* The object answers 503 to a set or a transact: the adapter reports null, or
\* throws, as it does when the caller lost the race.
WriteError(c) ==
  /\ mode[c] # "idle"
  /\ Forget(c)
  /\ alarm' = BootstrappedAlarm /\ bootstrapped' = TRUE
  /\ UNCHANGED <<storage, markers, nextVersion>>

\* transact(): a txn.get is a batchGet; it records the version of a stored
\* null too.  An action reads a key once.
TxnGet(c, k) ==
  /\ mode[c] \in {"idle", "txn"} /\ k \in TxnKeys /\ view[c][k] = NotRead
  /\ DropExpired(k)
  /\ mode' = [mode EXCEPT ![c] = "txn"]
  /\ view' = [view EXCEPT ![c][k] = IF Expired(k) THEN Missing
                ELSE [v |-> storage[k].v, ver |-> storage[k].ver]]
  /\ alarm' = BootstrappedAlarm /\ bootstrapped' = TRUE
  /\ UNCHANGED nextVersion

ReadSet(c) == {k \in Keys : view[c][k] # NotRead}

\* The 'check' operations: the version of every key that was read.
ReadSetValid(c) == \A k \in ReadSet(c) : VersionMatches(k, view[c][k].ver)

\* 'transact': the checks pass, the deferred writes are put together, without
\* a TTL.  A transaction that only writes has nothing to check.  W are the keys
\* written, D the ones set to null.
TxnCommit(c, W, D) ==
  /\ mode[c] \in {"idle", "txn"}
  /\ ReadSetValid(c)
  /\ nextVersion <= MaxVersions
  /\ LET value == (UNION {view[c][j].v : j \in ReadSet(c)}) \cup {nextVersion}
     IN storage' = [k \in Keys |->
          IF k \in W THEN [v |-> value, ver |-> nextVersion, exp |-> Never]
          ELSE IF k \in D THEN [v |-> {}, ver |-> nextVersion, exp |-> Never]
          ELSE storage[k]]
  /\ nextVersion' = nextVersion + 1
  /\ Forget(c)
  /\ alarm' = BootstrappedAlarm /\ bootstrapped' = TRUE
  /\ UNCHANGED markers

\* A check fails: 409, TransactConflictError.
TxnConflict(c) ==
  /\ mode[c] = "txn"
  /\ ~ReadSetValid(c)
  /\ Forget(c)
  /\ alarm' = BootstrappedAlarm /\ bootstrapped' = TRUE
  /\ UNCHANGED <<storage, markers, nextVersion>>

-----------------------------------------------------------------------------
\* alarm(): delete what the due markers name, and come back for the next one.
DueMarkers == {m \in markers : m.exp = 0}
Reap(k) == \E m \in DueMarkers : m.key = k
\* Mutant: no alarm is set when no marker is left to wait for, and none for
\* the markers that are.
NextAlarmIdle(rest) == Never

NextAlarm(rest) == IF rest = {} THEN IdleAlarm ELSE Min({m.exp : m \in rest})

Alarm ==
  /\ alarm = 0
  /\ storage' = [k \in Keys |-> IF Reap(k) THEN Absent ELSE storage[k]]
  /\ markers' = markers \ DueMarkers
  /\ alarm' = NextAlarm(markers \ DueMarkers)
  /\ UNCHANGED <<bootstrapped, mode, view, nextVersion>>

\* The storage fails while the alarm runs: try again after the idle period.
AlarmError ==
  /\ alarm = 0
  /\ alarm' = IdleAlarm
  /\ UNCHANGED <<storage, markers, bootstrapped, mode, view, nextVersion>>

\* The object is evicted from memory; storage, markers and alarm survive.
Evict ==
  /\ bootstrapped
  /\ bootstrapped' = FALSE
  /\ UNCHANGED <<storage, markers, alarm, mode, view, nextVersion>>

CountDown(n) == IF n > 0 THEN n - 1 ELSE n

Tick ==
  /\ storage' = [k \in Keys |-> [storage[k] EXCEPT !.exp = CountDown(@)]]
  /\ markers' = {[m EXCEPT !.exp = CountDown(@)] : m \in markers}
  /\ alarm' = CountDown(alarm)
  /\ UNCHANGED <<bootstrapped, mode, view, nextVersion>>

ClientStep(c) ==
  \/ \E k \in Keys : Get(c, k) \/ GetError(c, k)
  \/ Abandon(c) \/ WriteError(c)
  \/ \E k \in Keys : \E ttl \in (IF k \in TtlKeys THEN 1..MaxTtl ELSE {Never}) :
       SetOk(c, k, ttl)
  \/ \E k \in Keys : DeleteOk(c, k) \/ SetConflict(c, k) \/ TxnGet(c, k)
  \/ \E W \in SUBSET TxnKeys : \E D \in SUBSET (TxnKeys \ W) :
       W \cup D # {} /\ TxnCommit(c, W, D)
  \/ TxnConflict(c)

Next == \/ \E c \in Clients : ClientStep(c)
        \/ Alarm \/ AlarmError \/ Evict \/ Tick

Spec == Init /\ [][Next]_vars

-----------------------------------------------------------------------------
\* Every entry with a TTL can still be found by the alarm: its marker is stored
\* under its own expiry time and an alarm is pending (durable-object.ts, set
\* and alarm).
TtlReapable ==
  \A k \in Keys : storage[k].exp # Never =>
    /\ [key |-> k, ver |-> storage[k].ver, exp |-> storage[k].exp] \in markers
    /\ alarm # Never

\* No entry disappears before its TTL has run out: not a permanent one, and not
\* one rewritten with a later expiry (durable-object.ts, alarm and get).
OnlyExpiredVanish ==
  [][\A k \in Keys : storage[k] # Absent /\ storage'[k] = Absent
                     => storage[k].exp = 0]_vars

\* The versions make get-then-set and transact() atomic: whatever the
\* interleaving of requests, expiry and alarms, every write that is accepted
\* is computed from the values it replaces (IAtomicStore).
Abstract == INSTANCE AtomicStore WITH
              contents <- [k \in Keys |-> storage[k].v],
              expirable <- [k \in Keys |-> storage[k].exp # Never]
Serializable == Abstract!Spec

-----------------------------------------------------------------------------
\* The inductive invariant behind the properties above.

\* Versions are never reused.
VersionsIssued ==
  /\ \A k \in Keys : storage[k].ver < nextVersion
  /\ \A c \in Clients, k \in Keys : view[c][k].ver < nextVersion

\* What a client holds under the version that is stored is what is stored.
ViewsAuthentic ==
  /\ \A k \in Keys : storage[k].ver = NoVersion
                      => storage[k].v = {} /\ storage[k].exp = Never
  /\ \A c \in Clients, k \in Keys :
       /\ view[c][k].ver \in {-1, NoVersion} => view[c][k].v = {}
       /\ view[c][k].ver = storage[k].ver => view[c][k].v = storage[k].v

\* A marker always describes the value now stored under its key.
MarkersCurrent ==
  \A m \in markers : /\ m.key \in TtlKeys
                     /\ storage[m.key].ver = m.ver
                     /\ storage[m.key].exp = m.exp

\* Versions, the values clients hold under them and the TTL markers agree with
\* the storage in every state: no version means two values, no marker outlives
\* the value it was stored for, every entry with a TTL can still be found by the alarm
\* (durable-object.ts, set, transact and alarm).
StoreInv == VersionsIssued /\ ViewsAuthentic /\ MarkersCurrent /\ TtlReapable

\* For TLC: clients are interchangeable, and so are the keys that take part in
\* transactions as long as none of them has a TTL.
Symmetry == Permutations(Clients) \cup Permutations(TxnKeys)
=============================================================================
