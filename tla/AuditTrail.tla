----------------------------- MODULE AuditTrail -----------------------------
(***************************************************************************)
(* The audit trail of src/core/audit: the persistence policy, the hybrid   *)
(* logger (a ring in memory, entries and one index of ids in the store)    *)
(* and the batching logger over an object bucket.  write() returns at once:*)
(* what follows it overlaps with later writes, queries and prunes, in the  *)
(* same isolate and in others, which share the store and the bucket.       *)
(*                                                                         *)
(* An entry is named by its isolate and its sequence number there, its     *)
(* timestamp is the number of entries written before it.                   *)
(***************************************************************************)
EXTENDS Naturals, Sequences, FiniteSets, SequencesExt

CONSTANTS
    Isolates,       \* Workers with a logger each
    Facilities,     \* facility names, some of them in Immutable
    Immutable,      \* IMMUTABLE_FACILITIES
    Levels,         \* kernel levels that are written, 3 is ERR
    Puts,           \* bodies of PUT /logs/persistence: [enabled, level]
    MaxInMemory,    \* ring of the hybrid logger
    MaxIndexed,     \* MAX_KV_BATCH
    BatchSize,      \* entries of the buffer that force a flush
    MaxWrites       \* bound: entries written in a behaviour

VARIABLES
    backend,    \* the logger that is configured: "hybrid" or "r2"
    policy,     \* [enabled, default, rules] of the isolates
    written,    \* every entry so far, in order
    memory,     \* ring of each isolate
    storing,    \* writes of the hybrid logger that are under way
    stored,     \* entries under audit:ring:<id>
    index,      \* [ids, version] under audit:ring:ids
    buffer,     \* unflushed entries of each isolate
    putting,    \* batches handed to the bucket and not answered
    bucket,     \* batches in the bucket
    gone,       \* entries taken out by a prune
    lost,       \* entries whose put or store call was refused
    reader      \* a query that is under way, or its answer

vars == <<backend, policy, written, memory, storing, stored, index, buffer,
          putting, bucket, gone, lost, reader>>

-----------------------------------------------------------------------------
ERR == 3
WARNING == 4

DefaultPolicy ==
    [enabled |-> TRUE, default |-> ERR,
     rules |-> [f \in Facilities |->
                   IF f \in Immutable THEN WARNING ELSE ERR]]

\* The answers shouldPersist() may give: both, when the entry is sampled.
shouldPersist(f, level, sampled) ==
    /\ policy.enabled
    /\ \/ level <= ERR
       \/ f \in Immutable /\ level <= WARNING
       \/ level <= policy.rules[f] /\ sampled

Newest(s, n) == SubSeq(s, IF Len(s) > n THEN Len(s) - n + 1 ELSE 1, Len(s))

NoIndex == [ids |-> <<>>, version |-> 0]

NoQuery == [step |-> "none", seen |-> <<>>, ids |-> <<>>]

Init ==
    /\ backend \in {"hybrid", "r2"}
    /\ policy = DefaultPolicy
    /\ written = <<>>
    /\ memory = [w \in Isolates |-> <<>>]
    /\ storing = {}
    /\ stored = {}
    /\ index = NoIndex
    /\ buffer = [w \in Isolates |-> <<>>]
    /\ putting = {}
    /\ bucket = {}
    /\ gone = {}
    /\ lost = {}
    /\ reader = NoQuery

\* PUT of the policy and its reset.
SetPolicy ==
    \E put \in Puts :
        LET p == [enabled |-> put.enabled, default |-> put.level,
                  rules |-> [f \in Facilities |-> put.level]]
        IN  /\ policy' \in {p, DefaultPolicy} \ {policy}
            /\ UNCHANGED <<backend, written, memory, storing, stored, index,
                           buffer, putting, bucket, gone, lost, reader>>

Entry(w, f, level) ==
    [iso |-> w, seq |-> Len(SelectSeq(written, LAMBDA e : e.iso = w)) + 1,
     at |-> Len(written), facility |-> f, level |-> level]

\* The hybrid logger: the ring first, then the store when the policy says so.
WriteHybrid(w, e, persists) ==
    /\ backend = "hybrid"
    /\ memory' = [memory EXCEPT ![w] = Newest(Append(@, e), MaxInMemory)]
    /\ storing' = IF persists
                  THEN storing \cup {[entry |-> e, step |-> "entry",
                                      attempt |-> 1, seen |-> NoIndex]}
                  ELSE storing
    /\ UNCHANGED <<buffer, putting>>

\* Mutant: a flush that empties the buffer only after the bucket has answered.
SplicedLate(s) == [batch |-> s, rest |-> s]

\* What a flush hands to the bucket, and what stays in the buffer.
Spliced(s) == [batch |-> s, rest |-> <<>>]

\* The batching logger: the buffer, and a flush when it is full.
WriteBatched(w, e, persists) ==
    LET s == IF persists THEN Append(buffer[w], e) ELSE buffer[w]
        full == persists /\ Len(s) >= BatchSize
    IN  /\ backend = "r2"
        /\ buffer' = [buffer EXCEPT ![w] = IF full THEN Spliced(s).rest ELSE s]
        /\ putting' = IF full THEN putting \cup {Spliced(s).batch} ELSE putting
        /\ UNCHANGED <<memory, storing>>

Write(w) ==
    \E f \in Facilities, level \in Levels, sampled \in BOOLEAN :
        LET e == Entry(w, f, level)
            persists == shouldPersist(f, level, sampled)
        IN  /\ Len(written) < MaxWrites
            /\ written' = Append(written, e)
            /\ WriteHybrid(w, e, persists) \/ WriteBatched(w, e, persists)
            /\ UNCHANGED <<backend, policy, stored, index, bucket, gone, lost,
                           reader>>

-----------------------------------------------------------------------------
(* #persistToStore of the hybrid logger, one store call a step. *)

Advance(x, step) == storing' = (storing \ {x}) \cup {[x EXCEPT !.step = step]}

StoreEntry(x) ==
    /\ x.step = "entry"
    /\ stored' = stored \cup {x.entry}
    /\ Advance(x, "read")
    /\ UNCHANGED <<index, lost>>

ReadIndex(x) ==
    /\ x.step = "read"
    /\ storing' = (storing \ {x}) \cup
                  {[x EXCEPT !.step = "append", !.seen = index]}
    /\ UNCHANGED <<stored, index, lost>>

\* set() with the version that was read.
Accepts(seen) == seen.version = index.version

Listed(ids, e) == Newest(Append(ids, e), MaxIndexed)

AppendIndex(x) ==
    /\ x.step = "append"
    /\ IF Accepts(x.seen)
       THEN /\ index' = [ids |-> Listed(x.seen.ids, x.entry),
                         version |-> index.version + 1]
            /\ storing' = storing \ {x}
       ELSE /\ storing' = IF x.attempt = 3 THEN storing \ {x}
                          ELSE (storing \ {x}) \cup
                               {[x EXCEPT !.step = "read", !.attempt = @ + 1,
                                          !.seen = NoIndex]}
            /\ index' = index
    /\ UNCHANGED <<stored, lost>>

\* The store throws: write() has nobody to tell.
StoreThrows(x) ==
    /\ storing' = storing \ {x}
    /\ lost' = lost \cup {x.entry}
    /\ UNCHANGED <<stored, index>>

Store ==
    /\ \E x \in storing : StoreEntry(x) \/ ReadIndex(x) \/ AppendIndex(x)
                             \/ StoreThrows(x)
    /\ UNCHANGED <<backend, policy, written, memory, buffer, putting, bucket,
                   gone, reader>>

-----------------------------------------------------------------------------
(* The bucket. *)

\* The timer of startAutoFlush(), or dispose().
Flush(w) ==
    /\ backend = "r2" /\ buffer[w] # <<>>
    /\ putting' = putting \cup {Spliced(buffer[w]).batch}
    /\ buffer' = [buffer EXCEPT ![w] = Spliced(buffer[w]).rest]
    /\ UNCHANGED <<backend, policy, written, memory, storing, stored, index,
                   bucket, gone, lost, reader>>

PutEnds ==
    \E b \in putting, refused \in BOOLEAN :
        /\ putting' = putting \ {b}
        /\ bucket' = IF refused THEN bucket ELSE bucket \cup {b}
        /\ lost' = IF refused THEN lost \cup Range(b) ELSE lost
        /\ UNCHANGED <<backend, policy, written, memory, storing, stored,
                       index, buffer, gone, reader>>

-----------------------------------------------------------------------------
(* prune(beforeTs) takes entries out of the memory of its isolate and out  *)
(* of the store; the ids stay in the index.  Entries are never rewritten,  *)
(* so each deletion is its own step.  Over the bucket it deletes batches.  *)

Old(e, before) == e.at < before

PruneMemory(w, before) ==
    /\ backend = "hybrid"
    /\ memory' = [memory EXCEPT ![w] = SelectSeq(@, LAMBDA e : ~ Old(e, before))]
    /\ memory' # memory
    /\ UNCHANGED <<stored, bucket, gone>>

PruneStored(before) ==
    \E k \in DOMAIN index.ids :
        LET e == index.ids[k]
        IN  /\ e \in stored /\ Old(e, before)
            /\ stored' = stored \ {e}
            /\ gone' = gone \cup {e}
            /\ UNCHANGED <<memory, bucket>>

PruneBatch(before) ==
    \E b \in bucket :
        /\ \A k \in DOMAIN b : Old(b[k], before)
        /\ bucket' = bucket \ {b}
        /\ gone' = gone \cup Range(b)
        /\ UNCHANGED <<memory, stored>>

Prune ==
    /\ \E before \in 1 .. Len(written) :
        \/ \E w \in Isolates : PruneMemory(w, before)
        \/ PruneStored(before)
        \/ PruneBatch(before)
    /\ UNCHANGED <<backend, policy, written, storing, index, buffer, putting,
                   lost, reader>>

-----------------------------------------------------------------------------
(* query() and queryAsync(): what is in memory, then what is in the store; *)
(* or what is in the bucket, then what is in the buffer.  Filters, offset  *)
(* and limit choose from this answer.                                      *)

Objects == SetToSortSeq(bucket, LAMBDA b, c : b[1].at < c[1].at)

QueryBegins(w) ==
    /\ reader.step = "none"
    /\ reader' = IF backend = "hybrid"
                 THEN [step |-> "index", seen |-> memory[w], ids |-> <<>>]
                 ELSE [step |-> "buffer", seen |-> FlattenSeq(Objects),
                       ids |-> <<>>]

\* #queryFromStore: the index, then the entries it names.
QueryIndex ==
    /\ reader.step = "index"
    /\ reader' = [reader EXCEPT !.step = "entries", !.ids = index.ids]

\* The entries of the store that were not in memory.
Unseen(s, seen) == SelectSeq(s, LAMBDA e : e \notin Range(seen))

QueryEntries ==
    /\ reader.step = "entries"
    /\ LET found == SelectSeq(reader.ids, LAMBDA e : e \in stored)
       IN  reader' = [reader EXCEPT !.step = "done",
                                    !.seen = @ \o Unseen(found, @)]

QueryBuffer(w) ==
    /\ reader.step = "buffer"
    /\ reader' = [reader EXCEPT !.step = "done", !.seen = @ \o buffer[w]]

QueryEnds == reader.step = "done" /\ reader' = NoQuery

Query ==
    /\ \/ \E w \in Isolates : QueryBegins(w) \/ QueryBuffer(w)
       \/ QueryIndex \/ QueryEntries \/ QueryEnds
    /\ UNCHANGED <<backend, policy, written, memory, storing, stored, index,
                   buffer, putting, bucket, gone, lost>>

Next ==
    \/ Query
    \/ SetPolicy
    \/ \E w \in Isolates : Write(w) \/ Flush(w)
    \/ Store
    \/ PutEnds
    \/ Prune

Spec == Init /\ [][Next]_vars

-----------------------------------------------------------------------------
(* Properties. *)

Holders(e) ==
    Cardinality({w \in Isolates : e \in Range(buffer[w])})
      + Cardinality({b \in putting \cup bucket : e \in Range(b)})

\* An entry the batching logger has admitted is in one buffer, in one batch
\* on its way or in one object, never in two of them: flushes overlap with
\* writes, with the timer and with each other, and a second flush must not
\* take what the first has already handed over (flush()).  An answer, which reads
\* the bucket first and the buffer later, has no entry twice either (query()).
BatchedOnce ==
    /\ \A e \in Range(written) :
          Holders(e) <= IF e \in lost \cup gone THEN 0 ELSE 1
    /\ backend = "r2" => IsInjective(reader.seen)

\* The index grows by one stored entry at a time and no writer takes out what
\* another has put in: an append keeps the whole list, less the oldest id
\* when it is full, whatever the order in which the overlapping writes of the
\* isolates read it and write it (#persistToStore()).
TrailKept ==
    index' # index =>
        \E e \in (stored \cup gone) \ Range(index.ids) :
            index'.ids = Newest(Append(index.ids, e), MaxIndexed)
=============================================================================
