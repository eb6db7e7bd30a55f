---------------------------- MODULE AuditReaders ----------------------------
(***************************************************************************)
(* What reads back the trail of the Workers logger, whose entries are in   *)
(* the memory of one isolate only: GET /logs page by page (audit-router),  *)
(* the live tail and the selection of a prune pass (rotation).  Its        *)
(* query() awaits nothing, so a reading is one step, newest first, and the *)
(* cursor it hands out is the one of the last entry of the page.  Writes   *)
(* go on between the calls of all readers.  The hybrid logger reads in     *)
(* steps and over several isolates: AuditTrail.                            *)
(*                                                                         *)
(* An entry is [n, size]: its sequence number, and what estimateEntrySize  *)
(* says of it; entries up to number aged are older than maxAgeMs.          *)
(***************************************************************************)
EXTENDS Naturals, Sequences, FiniteSets, FiniteSetsExt, SequencesExt

CONSTANTS
    MaxInMemory,    \* ring of the logger
    Limit,          \* entries of a page: of GET /logs, a poll, a prune pass
    MinEntries,     \* LogRotationConfig
    MaxBytes,
    Sizes,          \* sizes of entries
    MaxPolls,       \* bound: polls of the tail under way
    MaxEntries      \* bound: entries written in a behaviour

VARIABLES
    log,        \* #memory, oldest first
    n,          \* entries written
    aged,       \* entries older than the maximum age
    pages,      \* a client of GET /logs
    tail,       \* a tail session with the polls under way
    prune       \* a prune pass

vars == <<log, n, aged, pages, tail, prune>>

-----------------------------------------------------------------------------
Write ==
    /\ n < MaxEntries
    /\ n' = n + 1
    /\ \E size \in Sizes :
          LET all == Append(log, [n |-> n + 1, size |-> size])
          IN  log' = IF Len(all) > MaxInMemory THEN Tail(all) ELSE all
    /\ UNCHANGED <<aged, pages, tail, prune>>

Age ==
    /\ aged < n
    /\ aged' = aged + 1
    /\ UNCHANGED <<log, n, pages, tail, prune>>

\* The cursor is the one of the last entry of the page.
NextCursor(entries) ==
    IF entries = <<>> THEN 0 ELSE entries[Len(entries)].n

Query(after, offset) ==
    LET found == SelectSeq(Reverse(log), LAMBDA e : e.n > after)
        entries == SubSeq(found, offset + 1, Min({offset + Limit, Len(found)}))
    IN  [entries |-> entries, total |-> Len(found),
         next |-> NextCursor(entries)]

-----------------------------------------------------------------------------
(* GET /logs, page by page by number, of one isolate.                      *)

NoPages == [step |-> "none", page |-> 0, began |-> {}, read |-> {}]

HasNext(page, total) == (page + 1) * Limit < total

\* Bound: a behaviour has the tail or the other readers; neither reads what
\* the other keeps.
WithoutTail == tail.step = "closed"
TailAlone == pages.step = "none" /\ prune.step = "idle"

PagesBegin ==
    /\ pages.step = "none" /\ WithoutTail
    /\ pages' = [NoPages EXCEPT !.step = "reading", !.began = ToSet(log)]
    /\ UNCHANGED <<log, n, aged, tail, prune>>

PageByNumber ==
    /\ pages.step = "reading"
    /\ LET r == Query(0, pages.page * Limit)
       IN  pages' = [pages EXCEPT
               !.read = @ \cup ToSet(r.entries),
               !.page = @ + 1,
               !.step = IF HasNext(pages.page, r.total) THEN "reading" ELSE "done"]
    /\ UNCHANGED <<log, n, aged, tail, prune>>

-----------------------------------------------------------------------------
(* The tail: a first batch, then a poll on every tick of the timer, which  *)
(* does not wait for the poll before it.                                   *)

createTailSession == [step |-> "closed", cursor |-> 0, polls |-> {},
                      got |-> {}, overrun |-> FALSE]

PollQuery == Query(tail.cursor, 0)

TailOpens ==
    /\ tail.step = "closed" /\ TailAlone
    /\ tail' = [createTailSession EXCEPT
           !.step = "opening", !.polls = {PollQuery},
           !.overrun = PollQuery.total > Limit]
    /\ UNCHANGED <<log, n, aged, pages, prune>>

TailPolls ==
    /\ tail.step = "open"
    /\ Cardinality(tail.polls) < MaxPolls
    /\ tail' = [tail EXCEPT !.polls = @ \cup {PollQuery},
                            !.overrun = @ \/ PollQuery.total > Limit]
    /\ UNCHANGED <<log, n, aged, pages, prune>>

\* The answer of a poll: the cursor moves and the subscribers get the batch.
PollEnds ==
    /\ \E r \in tail.polls :
          tail' = [tail EXCEPT
              !.polls = @ \ {r},
              !.step = IF @ = "opening" THEN "open" ELSE @,
              !.cursor = IF r.entries = <<>> THEN @ ELSE r.next,
              !.got = @ \cup ToSet(r.entries)]
    /\ UNCHANGED <<log, n, aged, pages, prune>>

\* stopTail: no more polls; what is under way still arrives.
TailStops ==
    /\ tail.step = "open"
    /\ tail' = [tail EXCEPT !.step = "stopped"]
    /\ UNCHANGED <<log, n, aged, pages, prune>>

-----------------------------------------------------------------------------
(* The prune pass: pages by cursor, then a choice, then pruneByIds.        *)

NoPrune == [step |-> "idle", cursor |-> 0, seen |-> <<>>, paged |-> FALSE,
            aged |-> 0, remove |-> {}]

estimateTotalSize(entries) == FoldLeft(LAMBDA s, e : s + e.size, 0, entries)

\* Ids to remove, with those an entry that was seen twice takes twice.
selectEntriesToPrune(seen) ==
    LET sorted == SortSeq(seen, LAMBDA a, b : a.n < b.n)
        spare == Len(sorted) - MinEntries
        old == SubSeq(sorted, 1, Min({spare, Len(SelectSeq(sorted,
                                            LAMBDA e : e.n <= aged))}))
        rest == SelectSeq(sorted, LAMBDA e : e \notin ToSet(old))
        left(k) == estimateTotalSize(SubSeq(rest, k + 1, Len(rest)))
        more == Min({k \in 0..Len(rest) :
                        \/ Len(old) + k >= spare
                        \/ left(k) <= MaxBytes
                        \/ k = Len(rest)})
    IN  IF Len(seen) <= MinEntries THEN {}
        ELSE ToSet(old) \cup ToSet(SubSeq(rest, 1, more))

PrunePage ==
    /\ prune.step \in {"idle", "paging"} /\ WithoutTail
    /\ LET r == Query(prune.cursor, 0)
           seen == prune.seen \o r.entries
       IN  prune' =
               IF r.entries = <<>> \/ Len(r.entries) < Limit
               THEN [prune EXCEPT !.step = "chosen", !.seen = seen, !.aged = aged,
                                  !.remove = selectEntriesToPrune(seen)]
               ELSE [prune EXCEPT !.step = "paging", !.seen = seen,
                                  !.paged = TRUE, !.cursor = r.next]
    /\ UNCHANGED <<log, n, aged, pages, tail>>

\* pruneByIds of this logger removes nothing.
PruneEnds ==
    /\ prune.step = "chosen"
    /\ prune' = [NoPrune EXCEPT !.step = "over", !.paged = prune.paged]
    /\ UNCHANGED <<log, n, aged, pages, tail>>

-----------------------------------------------------------------------------
Init ==
    /\ log = <<>>
    /\ n = 0
    /\ aged = 0
    /\ pages = NoPages
    /\ tail = createTailSession
    /\ prune = NoPrune

Next ==
    \/ Write \/ Age
    \/ PagesBegin \/ PageByNumber
    \/ TailOpens \/ TailPolls \/ PollEnds \/ TailStops
    \/ PrunePage \/ PruneEnds

Spec == Init /\ [][Next]_vars

-----------------------------------------------------------------------------
\* A client that read one isolate to the end by page number has seen every entry
\* that was there when it began and still is, whatever is written and shifted out
\* meanwhile (audit-router.ts:46).
PagesComplete == pages.step = "done" => pages.began \cap ToSet(log) \subseteq pages.read

\* Entries up to the cursor of the tail reached its subscribers, however its
\* polls overlap, unless a poll found more than a batch (tail.ts:51).
TailGapless == ~tail.overrun => \A e \in ToSet(log) : e.n <= tail.cursor => e \in tail.got

\* A pass over a trail of one page keeps the minimum, removes oldest first
\* and leaves the limits met or the minimum (rotation.ts:58).
PruneSound ==
    prune.step = "chosen" /\ ~prune.paged =>
        LET kept == ToSet(prune.seen) \ prune.remove
        IN  /\ prune.remove # {} => Cardinality(kept) >= MinEntries
            /\ \A e \in prune.remove, f \in kept : e.n < f.n
            /\ \/ Cardinality(kept) <= MinEntries
               \/ /\ estimateTotalSize(SetToSeq(kept)) <= MaxBytes
                  /\ \A e \in kept : e.n > prune.aged

ReadersSound == PagesComplete /\ TailGapless /\ PruneSound

=============================================================================
