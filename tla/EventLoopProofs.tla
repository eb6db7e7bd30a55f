-------------------------- MODULE EventLoopProofs ---------------------------
(***************************************************************************)
(* What the event loop guarantees for any number of isolates and events,   *)
(* any limits and any number of restarts: every isolate has one health     *)
(* check, holds no event twice, and, as long as there was at most one      *)
(* restart, no event is lost once it reached the store.                    *)
(***************************************************************************)
EXTENDS EventLoop, FiniteSetTheorems, SequenceTheorems, FunctionTheorems, TLAPS

USE EventsAssumption, SizesAssumption

-----------------------------------------------------------------------------
\* The memory of an isolate is a queue q and a set B of batches.
At(q, e) == {n \in 1..Len(q) : q[n] = e}
In(B, e) == {b \in B : e \in b.left}
Once(S) == \A x, y \in S : x = y

\* An event is in it; it is in it in no two places.
Some(q, B, e) == At(q, e) # {} \/ In(B, e) # {}
AtMost(q, B, e) == /\ Once(At(q, e)) /\ Once(In(B, e))
                   /\ At(q, e) = {} \/ In(B, e) = {}

\* A step that changes neither.
Same(q, B, r, C, e) == /\ Some(r, C, e) <=> Some(q, B, e)
                       /\ AtMost(q, B, e) => AtMost(r, C, e)

LEMMA QueuedRunning ==
  ASSUME NEW i \in Isolates, NEW e
  PROVE  /\ Queued(i, e) = At(queue[i], e) /\ Running(i, e) = In(batches[i], e)
         /\ InMemory(i, e) <=> Some(queue[i], batches[i], e)
BY DEF Queued, Running, InMemory, At, In, Some

LEMMA OnceCardinality ==
  ASSUME NEW S, Once(S)
  PROVE  /\ IsFiniteSet(S) /\ Cardinality(S) <= 1 /\ Cardinality(S) \in Nat
         /\ S # {} => Cardinality(S) = 1
         /\ S = {} => Cardinality(S) = 0
<1>1. CASE S = {}
  BY <1>1, FS_EmptySet
<1>2. CASE S # {}
  <2>1. PICK x : x \in S
    BY <1>2
  <2>2. S = {x}
    BY <2>1 DEF Once
  <2>. QED
    BY <2>2, FS_Singleton
<1>. QED
  BY <1>1, <1>2

\* In terms of the numbers that the properties use.
LEMMA AtMostCardinality ==
  ASSUME NEW q, NEW B, NEW e, AtMost(q, B, e)
  PROVE  /\ Cardinality(At(q, e)) + Cardinality(In(B, e)) <= 1
         /\ Some(q, B, e) => Cardinality(At(q, e)) + Cardinality(In(B, e)) = 1
<1>1. /\ Cardinality(At(q, e)) \in Nat /\ Cardinality(At(q, e)) <= 1
      /\ At(q, e) # {} => Cardinality(At(q, e)) = 1
      /\ At(q, e) = {} => Cardinality(At(q, e)) = 0
  BY OnceCardinality DEF AtMost
<1>2. /\ Cardinality(In(B, e)) \in Nat /\ Cardinality(In(B, e)) <= 1
      /\ In(B, e) # {} => Cardinality(In(B, e)) = 1
      /\ In(B, e) = {} => Cardinality(In(B, e)) = 0
  BY OnceCardinality DEF AtMost
<1>3. At(q, e) = {} \/ In(B, e) = {}
  BY DEF AtMost
<1>. QED
  BY <1>1, <1>2, <1>3 DEF Some

-----------------------------------------------------------------------------
(* What happens to the places of an event when the queue changes             *)

LEMMA AtConcat ==
  ASSUME NEW q \in Seq(Events), NEW r \in Seq(Events), NEW e, NEW n
  PROVE  n \in At(q \o r, e) <=>
           n \in At(q, e) \/ (n \in Nat /\ n > Len(q) /\ n - Len(q) \in At(r, e))
<1>1. /\ Len(q) \in Nat /\ Len(r) \in Nat
      /\ Len(q \o r) = Len(q) + Len(r)
      /\ \A k \in 1..(Len(q) + Len(r)) :
           (q \o r)[k] = IF k <= Len(q) THEN q[k] ELSE r[k - Len(q)]
  BY ConcatProperties, LenProperties
<1>. QED
  BY <1>1 DEF At

LEMMA AppendOther ==
  ASSUME NEW q \in Seq(Events), NEW r \in Seq(Events), NEW B, NEW e, At(r, e) = {}
  PROVE  Same(q, B, q \o r, B, e)
<1>1. \A n : n \in At(q \o r, e) <=> n \in At(q, e)
  BY AtConcat
<1>2. At(q \o r, e) = At(q, e)
  BY <1>1
<1>. QED
  BY <1>2 DEF Same, Some, AtMost

LEMMA AppendNew ==
  ASSUME NEW q \in Seq(Events), NEW r \in Seq(Events), NEW B, NEW e,
         ~Some(q, B, e), Once(At(r, e))
  PROVE  /\ AtMost(q \o r, B, e)
         /\ Some(q \o r, B, e) <=> At(r, e) # {}
<1>. DEFINE n0 == Len(q)
<1>1. n0 \in Nat
  BY LenProperties
<1>2. At(q, e) = {} /\ In(B, e) = {}
  BY DEF Some
<1>3. \A n : n \in At(q \o r, e) <=> n \in Nat /\ n > n0 /\ n - n0 \in At(r, e)
  BY <1>2, AtConcat
<1>4. Once(At(q \o r, e))
  <2>1. SUFFICES ASSUME NEW x \in At(q \o r, e), NEW y \in At(q \o r, e)
                 PROVE  x = y
    BY DEF Once
  <2>2. /\ x \in Nat /\ y \in Nat /\ x - n0 \in At(r, e) /\ y - n0 \in At(r, e)
    BY <1>3
  <2>3. x - n0 = y - n0
    BY <2>2 DEF Once
  <2>. QED
    BY <2>2, <2>3, <1>1
<1>5. At(q \o r, e) # {} <=> At(r, e) # {}
  <2>1. ASSUME NEW k \in At(r, e) PROVE k + n0 \in At(q \o r, e)
    <3>1. k \in Nat /\ k >= 1
      BY LenProperties DEF At
    <3>2. k + n0 \in Nat /\ k + n0 > n0 /\ (k + n0) - n0 = k
      BY <3>1, <1>1
    <3>. QED
      BY <3>2, <1>3
  <2>. QED
    BY <2>1, <1>3
<1>. QED
  BY <1>2, <1>4, <1>5 DEF AtMost, Some, Once

\* A sequence of one event.
LEMMA AtSingle ==
  ASSUME NEW f \in Events
  PROVE  /\ <<f>> \in Seq(Events) /\ At(<<f>>, f) = {1} /\ Once(At(<<f>>, f))
         /\ \A e : e # f => At(<<f>>, e) = {}
BY DEF At, Once

\* The sequence of a finite set has each of its elements once.
LEMMA SetToSeqOnce ==
  ASSUME NEW S, IsFiniteSet(S)
  PROVE  /\ SetToSeq(S) \in Seq(S)
         /\ \A e : /\ Once(At(SetToSeq(S), e))
                   /\ At(SetToSeq(S), e) # {} <=> e \in S
<1>. DEFINE n == Cardinality(S)
            f == SetToSeq(S)
<1>1. n \in Nat /\ ExistsBijection(1..n, S)
  BY FS_CardinalityType
<1>2. \E g \in [1..n -> S] : IsInjective(g)
  BY <1>1 DEF ExistsBijection, Bijection, Injection
<1>3. f \in [1..n -> S] /\ IsInjective(f)
  BY <1>2 DEF SetToSeq
<1>. HIDE DEF f
<1>4. f \in Seq(S) /\ Len(f) = n /\ DOMAIN f = 1..n
  BY <1>1, <1>3, SeqDef, LenProperties
<1>5. f \in Injection(1..n, S)
  BY <1>3 DEF Injection
<1>6. Range(f) = S
  <2>1. f \in Bijection(1..n, Range(f))
    BY <1>5, Fun_InjMeansBijImage
  <2>2. IsFiniteSet(1..n) /\ Cardinality(1..n) = n
    BY <1>1, FS_Interval
  <2>3. Cardinality(Range(f)) = n
    BY <2>1, <2>2, FS_Bijection DEF ExistsBijection
  <2>4. Range(f) \in SUBSET S
    BY <1>3 DEF Range
  <2>. QED
    BY <2>3, <2>4, FS_Subset
<1>7. ASSUME NEW e PROVE Once(At(f, e)) /\ (At(f, e) # {} <=> e \in S)
  <2>1. Once(At(f, e))
    BY <1>3, <1>4 DEF Once, At, IsInjective
  <2>2. At(f, e) # {} <=> e \in Range(f)
    BY <1>4 DEF At, Range
  <2>. QED
    BY <2>1, <2>2, <1>6
<1>. QED
  BY <1>4, <1>7 DEF f

-----------------------------------------------------------------------------
(* What happens to them when batches change                                  *)

\* A tick moves the front of the queue into a batch.
LEMMA TickMoves ==
  ASSUME NEW q \in Seq(Events), NEW l \in 1..Len(q), NEW B, NEW b, NEW e,
         b.left = ToSet(SubSeq(q, 1, l))
  PROVE  Same(q, B, SubSeq(q, l + 1, Len(q)), B \cup {b}, e)
<1>. DEFINE r == SubSeq(q, l + 1, Len(q))
            front == SubSeq(q, 1, l)
            C == B \cup {b}
<1>1. Len(q) \in Nat /\ l \in Nat /\ l >= 1 /\ l <= Len(q) /\ \A k \in 1..Len(q) : q[k] \in Events
  BY LenProperties, ElementOfSeq
<1>2. /\ front \in Seq(Events) /\ Len(front) = l
      /\ \A k \in 1..l : front[k] = q[k]
  BY <1>1
<1>3. /\ r \in Seq(Events) /\ Len(r) = Len(q) - l
      /\ \A k \in 1..(Len(q) - l) : r[k] = q[l + k]
  BY <1>1
<1>4. e \in b.left <=> \E k \in At(q, e) : k <= l
  <2>1. DOMAIN front = 1..l
    BY <1>2, LenProperties
  <2>2. b.left = {front[k] : k \in 1..l}
    BY <2>1 DEF ToSet
  <2>. HIDE DEF front
  <2>3. e \in b.left <=> \E k \in 1..l : q[k] = e
    BY <1>2, <2>2
  <2>. QED
    BY <1>1, <2>3 DEF At
<1>. HIDE DEF r, front
<1>5. \A k \in Nat : k \in At(r, e) <=> k >= 1 /\ k + l \in At(q, e)
  BY <1>1, <1>3 DEF At
<1>6. \A k \in At(q, e) : k \in Nat /\ (k > l => k - l \in At(r, e))
  BY <1>1, <1>3 DEF At
<1>7. \A k \in At(r, e) : k \in Nat /\ k >= 1 /\ k + l \in At(q, e) /\ k + l > l
  BY <1>1, <1>3 DEF At
<1>8. In(C, e) = In(B, e) \cup (IF e \in b.left THEN {b} ELSE {})
  BY DEF In
<1>9. Some(r, C, e) <=> Some(q, B, e)
  <2>1. ASSUME NEW k \in At(q, e) PROVE Some(r, C, e)
    <3>1. k <= l \/ k > l
      BY <1>1, <1>6
    <3>2. CASE k <= l
      BY <3>2, <1>4, <1>8 DEF Some
    <3>3. CASE k > l
      BY <3>3, <1>6 DEF Some
    <3>. QED
      BY <3>1, <3>2, <3>3
  <2>2. At(r, e) # {} => At(q, e) # {}
    BY <1>7
  <2>3. In(C, e) # {} => In(B, e) # {} \/ At(q, e) # {}
    BY <1>4, <1>8
  <2>4. In(B, e) # {} => In(C, e) # {}
    BY <1>8
  <2>. QED
    BY <2>1, <2>2, <2>3, <2>4 DEF Some
<1>10. ASSUME AtMost(q, B, e) PROVE AtMost(r, C, e)
  <2>1. Once(At(r, e))
    <3>1. SUFFICES ASSUME NEW x \in At(r, e), NEW y \in At(r, e) PROVE x = y
      BY DEF Once
    <3>2. x + l = y + l
      BY <1>7, <1>10 DEF AtMost, Once
    <3>. QED
      BY <3>2, <1>7, <1>1
  <2>2. CASE e \in b.left
    <3>1. PICK k \in At(q, e) : k <= l
      BY <1>4, <2>2
    <3>2. In(B, e) = {}
      BY <3>1, <1>10 DEF AtMost
    <3>3. At(r, e) = {}
      <4>1. SUFFICES ASSUME NEW x \in At(r, e) PROVE FALSE
        OBVIOUS
      <4>2. x + l = k
        BY <1>7, <3>1, <1>10 DEF AtMost, Once
      <4>. QED
        BY <4>2, <3>1, <1>7, <1>1
    <3>4. In(C, e) = {b}
      BY <3>2, <1>8, <2>2
    <3>. QED
      BY <3>3, <3>4 DEF AtMost, Once
  <2>3. CASE e \notin b.left
    <3>1. In(C, e) = In(B, e)
      BY <1>8, <2>3
    <3>2. At(r, e) # {} => At(q, e) # {}
      BY <1>7
    <3>. QED
      BY <3>1, <3>2, <2>1, <1>10 DEF AtMost
  <2>. QED
    BY <2>2, <2>3
<1>. QED
  BY <1>9, <1>10 DEF Same, r

\* The batches stay where they are, or one takes the place of another that has
\* the same event left.
LEMMA InReplaced ==
  ASSUME NEW q, NEW B, NEW b \in B, NEW c, NEW e, e \in c.left <=> e \in b.left
  PROVE  Same(q, B, q, (B \ {b}) \cup {c}, e)
<1>. DEFINE C == (B \ {b}) \cup {c}
<1>1. CASE e \in b.left
  <2>1. b \in In(B, e) /\ c \in In(C, e)
    BY <1>1 DEF In
  <2>2. ASSUME Once(In(B, e)) PROVE Once(In(C, e))
    <3>1. \A x \in In(B, e) : x = b
      BY <2>1, <2>2 DEF Once
    <3>2. \A x \in In(C, e) : x = c
      BY <3>1 DEF In
    <3>. QED
      BY <3>2 DEF Once
  <2>. QED
    BY <2>1, <2>2 DEF Same, Some, AtMost
<1>2. CASE e \notin b.left
  <2>1. In(C, e) = In(B, e)
    BY <1>2 DEF In
  <2>. QED
    BY <2>1 DEF Same, Some, AtMost
<1>. QED
  BY <1>1, <1>2

\* A batch with nothing left goes.
LEMMA InRemoved ==
  ASSUME NEW q, NEW B, NEW b, NEW e, e \notin b.left
  PROVE  Same(q, B, q, B \ {b}, e)
<1>1. In(B \ {b}, e) = In(B, e)
  BY DEF In
<1>. QED
  BY <1>1 DEF Same, Some, AtMost

\* The one batch with an event hands it to its handler.
LEMMA InHandled ==
  ASSUME NEW q, NEW B, NEW b \in B, NEW c, NEW e \in b.left,
         c.left = b.left \ {e}, AtMost(q, B, e)
  PROVE  ~Some(q, (B \ {b}) \cup {c}, e)
<1>1. b \in In(B, e)
  BY DEF In
<1>2. At(q, e) = {} /\ \A x \in In(B, e) : x = b
  BY <1>1 DEF AtMost, Once
<1>3. In((B \ {b}) \cup {c}, e) = {}
  BY <1>2 DEF In
<1>. QED
  BY <1>2, <1>3 DEF Some

-----------------------------------------------------------------------------
(* Shape: batches, transactions and what they have read                      *)

BatchShape(b, done, list) ==
  /\ b \in Batch
  /\ b.stage = "dispatch" <=> b.left # {}
  /\ b.left \subseteq b.events
  /\ b.events \ b.left \subseteq done
  /\ b.stage = "valid" => b.seen = list

PersistShape(t, list, given, n) ==
  /\ t \in Persist
  /\ t.stage = "valid" => t.seen = list
  /\ t.op = "recover" => /\ t.event = Health /\ n > 0
                         /\ t.stage = "read" => t.seen = {}
  /\ t.op = "add" => t.event \in Pulls \cap given

Batched(f, done, list) ==
  /\ f \in [Isolates -> SUBSET Batch]
  /\ \A i \in Isolates : \A b \in f[i] : BatchShape(b, done, list)

Persisting(f, list, given, n) ==
  /\ f \in [Isolates -> SUBSET Persist]
  /\ \A i \in Isolates : \A t \in f[i] : PersistShape(t, list, given, n)

Shaped == /\ TypeOK
          /\ IsFiniteSet(pending) /\ pending \subseteq sent
          /\ Batched(batches, handled, pending)
          /\ Persisting(persists, pending, sent, restarts)

LEMMA StaleBatch ==
  ASSUME NEW b \in Batch
  PROVE  /\ Stale(b) \in Batch /\ Stale(b).stage # "valid"
         /\ Stale(b).stage \in {b.stage, "stale"}
         /\ b.stage # "valid" => Stale(b) = b
         /\ b.stage = "valid" => Stale(b).stage = "stale"
         /\ Stale(b).by = b.by /\ Stale(b).events = b.events
         /\ Stale(b).left = b.left /\ Stale(b).seen = b.seen
BY DEF Stale, Batch

LEMMA StalePersist ==
  ASSUME NEW t \in Persist
  PROVE  /\ Stale(t) \in Persist /\ Stale(t).stage # "valid"
         /\ t.stage # "valid" => Stale(t) = t
         /\ t.stage = "valid" => Stale(t).stage = "stale"
         /\ Stale(t).op = t.op /\ Stale(t).event = t.event /\ Stale(t).seen = t.seen
BY DEF Stale, Persist

LEMMA InStale ==
  ASSUME NEW q, NEW B \in SUBSET Batch, NEW e
  PROVE  Same(q, B, q, {Stale(b) : b \in B}, e)
<1>. DEFINE C == {Stale(b) : b \in B}
<1>1. \A c \in In(C, e) : \E b \in In(B, e) : c = Stale(b)
  BY StaleBatch DEF In
<1>2. \A b \in In(B, e) : Stale(b) \in In(C, e)
  BY StaleBatch DEF In
<1>. HIDE DEF C
<1>3. Once(In(B, e)) => Once(In(C, e))
  BY <1>1 DEF Once
<1>. QED
  BY <1>1, <1>2, <1>3 DEF Same, Some, AtMost, C

\* Commits and handlers leave every shape as it is.
LEMMA BatchedStale ==
  ASSUME NEW f, NEW done, NEW list, NEW list2, Batched(f, done, list)
  PROVE  /\ Batched(StaleAll(f), done, list2)
         /\ \A i \in Isolates : StaleAll(f)[i] = {Stale(b) : b \in f[i]}
<1>1. \A i \in Isolates : StaleAll(f)[i] = {Stale(b) : b \in f[i]}
  BY DEF StaleAll
<1>2. ASSUME NEW i \in Isolates, NEW c \in StaleAll(f)[i]
      PROVE  BatchShape(c, done, list2)
  <2>1. PICK b \in f[i] : c = Stale(b)
    BY <1>1, <1>2
  <2>2. b \in Batch /\ BatchShape(b, done, list)
    BY DEF Batched
  <2>3. c.stage = "dispatch" <=> b.stage = "dispatch"
    BY <2>1, <2>2, StaleBatch
  <2>. QED
    BY <2>1, <2>2, <2>3, StaleBatch DEF BatchShape
<1>3. StaleAll(f) \in [Isolates -> SUBSET Batch]
  BY <1>1, <1>2 DEF StaleAll, BatchShape
<1>. QED
  BY <1>1, <1>2, <1>3 DEF Batched

LEMMA PersistingStale ==
  ASSUME NEW f, NEW list, NEW list2, NEW given, NEW n, Persisting(f, list, given, n)
  PROVE  /\ Persisting(StaleAll(f), list2, given, n)
         /\ \A i \in Isolates : StaleAll(f)[i] = {Stale(t) : t \in f[i]}
<1>1. \A i \in Isolates : StaleAll(f)[i] = {Stale(t) : t \in f[i]}
  BY DEF StaleAll
<1>2. ASSUME NEW i \in Isolates, NEW c \in StaleAll(f)[i]
      PROVE  PersistShape(c, list2, given, n)
  <2>1. PICK t \in f[i] : c = Stale(t)
    BY <1>1, <1>2
  <2>2. t \in Persist /\ PersistShape(t, list, given, n)
    BY DEF Persisting
  <2>3. c.stage = "read" => t.stage = "read"
    BY <2>1, <2>2, StalePersist
  <2>. QED
    BY <2>1, <2>2, <2>3, StalePersist DEF PersistShape
<1>3. StaleAll(f) \in [Isolates -> SUBSET Persist]
  BY <1>1, <1>2 DEF StaleAll, PersistShape
<1>. QED
  BY <1>1, <1>2, <1>3 DEF Persisting

\* Taking out a member, or putting one in, that has the shape.
LEMMA BatchedUpdate ==
  ASSUME NEW f, NEW done, NEW list, Batched(f, done, list), NEW i \in Isolates,
         NEW C, \A c \in C : c \in f[i] \/ BatchShape(c, done, list)
  PROVE  Batched([f EXCEPT ![i] = C], done, list)
BY DEF Batched, BatchShape

LEMMA PersistingUpdate ==
  ASSUME NEW f, NEW list, NEW given, NEW n, Persisting(f, list, given, n),
         NEW i \in Isolates,
         NEW C, \A c \in C : c \in f[i] \/ PersistShape(c, list, given, n)
  PROVE  Persisting([f EXCEPT ![i] = C], list, given, n)
BY DEF Persisting, PersistShape

LEMMA BatchedMore ==
  ASSUME NEW f, NEW done, NEW done2, NEW list, Batched(f, done, list), done \subseteq done2
  PROVE  Batched(f, done2, list)
BY DEF Batched, BatchShape

LEMMA PersistingMore ==
  ASSUME NEW f, NEW list, NEW given, NEW given2, NEW n, NEW n2,
         Persisting(f, list, given, n), given \subseteq given2, n > 0 => n2 > 0
  PROVE  Persisting(f, list, given2, n2)
BY DEF Persisting, PersistShape

-----------------------------------------------------------------------------
(* Every step keeps the shape                                                *)

LEMMA ShapedInit == Init => Shaped
<1>. SUFFICES ASSUME Init PROVE Shaped
  OBVIOUS
<1>1. TypeOK
  <2>1. queue \in [Isolates -> Seq(Events)]
    BY AtSingle DEF Init, Events
  <2>2. {ticking, paused, running} \subseteq [Isolates -> BOOLEAN]
    BY DEF Init
  <2>3. batches \in [Isolates -> SUBSET Batch] /\ persists \in [Isolates -> SUBSET Persist]
    BY DEF Init
  <2>4. /\ pending = {} /\ written = FALSE
        /\ sent = {} /\ persisted = {} /\ handled = {} /\ restarts = 0
    BY DEF Init
  <2>5. /\ written \in BOOLEAN
        /\ restarts \in 0..MaxRestarts
    <3>1. written \in BOOLEAN
      BY <2>4, Zenon
    <3>2. restarts \in 0..MaxRestarts
      BY <2>4, SMT
    <3>. QED
      BY <3>1, <3>2
  <2>6. pending \subseteq Pulls /\ sent \subseteq Pulls \cup Others
    BY <2>4
  <2>7. persisted \subseteq Pulls /\ handled \subseteq Events
    BY <2>4
  <2>. QED
    BY <2>1, <2>2, <2>3, <2>5, <2>6, <2>7 DEF TypeOK
<1>2. IsFiniteSet(pending) /\ pending \subseteq sent
  BY FS_EmptySet DEF Init
<1>3. Batched(batches, handled, pending) /\ Persisting(persists, pending, sent, restarts)
  BY DEF Init, Batched, Persisting
<1>. QED
  BY <1>1, <1>2, <1>3 DEF Shaped

\* The parts of TypeOK that the shape does not imply.
Rest == /\ queue \in [Isolates -> Seq(Events)]
        /\ {ticking, paused, running} \subseteq [Isolates -> BOOLEAN]
        /\ pending \subseteq Pulls
        /\ written \in BOOLEAN
        /\ sent \subseteq Pulls \cup Others
        /\ persisted \subseteq Pulls
        /\ handled \subseteq Events
        /\ restarts \in 0..MaxRestarts

LEMMA ShapedParts ==
  Shaped <=> /\ Rest /\ IsFiniteSet(pending) /\ pending \subseteq sent
             /\ Batched(batches, handled, pending)
             /\ Persisting(persists, pending, sent, restarts)
BY DEF Shaped, TypeOK, Rest, Batched, Persisting

LEMMA ShapedNext ==
  ASSUME Rest', IsFiniteSet(pending'), pending' \subseteq sent',
         Batched(batches', handled', pending'),
         Persisting(persists', pending', sent', restarts')
  PROVE  Shaped'
BY DEF Shaped, TypeOK, Rest, Batched, Persisting

LEMMA EnqueueShaped ==
  ASSUME Shaped, NEW i \in Isolates, NEW e \in Pulls \cup Others, Enqueue(i, e)
  PROVE  Shaped'
<1>. DEFINE t == [op |-> "add", event |-> e, stage |-> "read", seen |-> {}]
<1>1. Rest /\ Batched(batches, handled, pending) /\ Persisting(persists, pending, sent, restarts)
  BY ShapedParts
<1>2. /\ sent' = sent \cup {e}
      /\ UNCHANGED <<batches, ticking, paused, running, pending, written, persisted,
                     handled, restarts>>
  BY DEF Enqueue, control
<1>3. queue' \in [Isolates -> Seq(Events)]
  <2>1. queue' \in {queue, [queue EXCEPT ![i] = Append(queue[i], e)]}
    BY DEF Enqueue
  <2>2. e \in Events /\ queue[i] \in Seq(Events) /\ queue \in [Isolates -> Seq(Events)]
    BY <1>1 DEF Rest, Events
  <2>3. Append(queue[i], e) \in Seq(Events)
    BY <2>2, AppendProperties
  <2>. QED
    BY <2>1, <2>2, <2>3
<1>4. Rest'
  BY <1>1, <1>2, <1>3 DEF Rest
<1>5. Persisting(persists, pending, sent', restarts)
  BY <1>1, <1>2, PersistingMore
<1>. IsFiniteSet(pending') /\ pending' \subseteq sent' /\ Batched(batches', handled', pending')
  BY <1>1, <1>2, ShapedParts
<1>6. CASE persists' = persists
  BY <1>2, <1>4, <1>5, <1>6, ShapedNext
<1>7. CASE e \in Pulls /\ persists' = [persists EXCEPT ![i] = @ \cup {t}]
  <2>1. PersistShape(t, pending, sent', restarts)
    BY <1>2, <1>7 DEF PersistShape, Persist, Events
  <2>2. persists' = [persists EXCEPT ![i] = persists[i] \cup {t}]
    BY <1>7
  <2>. HIDE DEF t
  <2>3. Persisting(persists', pending, sent', restarts)
    BY <1>5, <2>1, <2>2, PersistingUpdate
  <2>. QED
    BY <1>2, <1>4, <2>3, ShapedNext
<1>. QED
  BY <1>6, <1>7 DEF Enqueue, Persisted

LEMMA PersistReadShaped ==
  ASSUME Shaped, NEW i \in Isolates, NEW t \in persists[i], PersistRead(i, t)
  PROVE  Shaped'
<1>. DEFINE c == [t EXCEPT !.stage = "valid", !.seen = pending]
<1>1. Rest /\ Batched(batches, handled, pending) /\ Persisting(persists, pending, sent, restarts)
  BY ShapedParts
<1>2. /\ persists' = [persists EXCEPT ![i] = (persists[i] \ {t}) \cup {c}]
      /\ UNCHANGED <<queue, batches, ticking, paused, running, pending, written, sent,
                     persisted, handled, restarts>>
  BY DEF PersistRead, control, history
<1>3. PersistShape(t, pending, sent, restarts) /\ pending \subseteq Pulls
  BY <1>1 DEF Persisting, Rest
<1>4. PersistShape(c, pending, sent, restarts)
  BY <1>3 DEF PersistShape, Persist
<1>5. Persisting(persists', pending, sent, restarts)
  <2>. HIDE DEF c
  <2>. QED
    BY <1>1, <1>2, <1>4, PersistingUpdate
<1>6. Rest'
  BY <1>1, <1>2 DEF Rest
<1>. QED
  BY <1>1, <1>2, <1>5, <1>6, ShapedParts, ShapedNext

LEMMA RecoverReadShaped ==
  ASSUME Shaped, NEW i \in Isolates, NEW t \in persists[i], RecoverRead(i, t)
  PROVE  Shaped'
<1>. DEFINE c == [t EXCEPT !.stage = "valid", !.seen = pending]
            C == (persists[i] \ {t}) \cup IF written THEN {c} ELSE {}
<1>1. /\ Rest /\ IsFiniteSet(pending) /\ Batched(batches, handled, pending)
      /\ Persisting(persists, pending, sent, restarts)
  BY ShapedParts
<1>2. /\ persists' = [persists EXCEPT ![i] = C]
      /\ queue' = [queue EXCEPT ![i] = queue[i] \o SetToSeq(pending)]
      /\ UNCHANGED <<batches, ticking, paused, running, pending, written, sent,
                     persisted, handled, restarts>>
  BY DEF RecoverRead, control, history
<1>3. PersistShape(t, pending, sent, restarts) /\ pending \subseteq Pulls
  BY <1>1 DEF Persisting, Rest
<1>4. PersistShape(c, pending, sent, restarts)
  BY <1>3 DEF PersistShape, Persist, RecoverRead
<1>5. Persisting(persists', pending, sent, restarts)
  <2>. HIDE DEF c
  <2>1. \A x \in C : x \in persists[i] \/ PersistShape(x, pending, sent, restarts)
    BY <1>4
  <2>. HIDE DEF C
  <2>. QED
    BY <1>1, <1>2, <2>1, PersistingUpdate
<1>6. queue' \in [Isolates -> Seq(Events)]
  <2>1. SetToSeq(pending) \in Seq(Events)
    <3>1. SetToSeq(pending) \in Seq(pending)
      BY <1>1, SetToSeqOnce
    <3>2. pending \subseteq Events
      BY <1>3 DEF Events
    <3>. QED
      BY <3>1, <3>2, SeqMonotonic
  <2>2. queue[i] \o SetToSeq(pending) \in Seq(Events)
    BY <1>1, <2>1, ConcatProperties DEF Rest
  <2>. QED
    BY <1>1, <1>2, <2>2 DEF Rest
<1>7. Rest'
  BY <1>1, <1>2, <1>6 DEF Rest
<1>. QED
  BY <1>1, <1>2, <1>5, <1>7, ShapedParts, ShapedNext

LEMMA PersistCommitShaped ==
  ASSUME Shaped, NEW i \in Isolates, NEW t \in persists[i], PersistCommit(i, t)
  PROVE  Shaped'
<1>. DEFINE f == [persists EXCEPT ![i] = persists[i] \ {t}]
<1>1. /\ Rest /\ IsFiniteSet(pending) /\ pending \subseteq sent
      /\ Batched(batches, handled, pending) /\ Persisting(persists, pending, sent, restarts)
  BY ShapedParts
<1>2. /\ persists' = StaleAll(f) /\ batches' = StaleAll(batches) /\ written' = TRUE
      /\ UNCHANGED <<queue, ticking, paused, running, sent, handled, restarts>>
  BY DEF PersistCommit, control
<1>3. PersistShape(t, pending, sent, restarts) /\ t.stage = "valid"
  BY <1>1 DEF Persisting, PersistCommit, MayCommit
<1>4. \/ t.op = "add" /\ pending' = pending \cup {t.event} /\ persisted' = persisted \cup {t.event}
      \/ t.op = "recover" /\ pending' = {} /\ persisted' = persisted
  BY <1>3 DEF PersistCommit, PersistShape, Persist
<1>5. /\ IsFiniteSet(pending') /\ pending' \subseteq sent /\ pending' \subseteq Pulls
      /\ persisted' \subseteq Pulls
  <2>1. t.op = "add" => t.event \in Pulls \cap sent
    BY <1>3 DEF PersistShape
  <2>2. IsFiniteSet(pending')
    <3>1. IsFiniteSet(pending \cup {t.event}) /\ IsFiniteSet({})
      BY <1>1, FS_EmptySet, FS_AddElement
    <3>. QED
      BY <3>1, <1>4
  <2>. QED
    BY <1>1, <1>4, <2>1, <2>2 DEF Rest
<1>6. Persisting(persists', pending', sent, restarts)
  <2>1. Persisting(f, pending, sent, restarts)
    BY <1>1, PersistingUpdate
  <2>. HIDE DEF f
  <2>. QED
    BY <1>2, <2>1, PersistingStale
<1>7. Batched(batches', handled, pending')
  BY <1>1, <1>2, BatchedStale
<1>8. Rest'
  BY <1>1, <1>2, <1>5 DEF Rest
<1>. QED
  BY <1>2, <1>5, <1>6, <1>7, <1>8, ShapedParts, ShapedNext

LEMMA PersistFailShaped ==
  ASSUME Shaped, NEW i \in Isolates, NEW t \in persists[i], PersistFail(i, t)
  PROVE  Shaped'
<1>1. Rest /\ Batched(batches, handled, pending) /\ Persisting(persists, pending, sent, restarts)
  BY ShapedParts
<1>2. /\ persists' = [persists EXCEPT ![i] = persists[i] \ {t}]
      /\ UNCHANGED <<queue, batches, ticking, paused, running, pending, written, sent,
                     persisted, handled, restarts>>
  BY DEF PersistFail, control, history
<1>3. Persisting(persists', pending, sent, restarts)
  BY <1>1, <1>2, PersistingUpdate
<1>4. Rest'
  BY <1>1, <1>2 DEF Rest
<1>. QED
  BY <1>1, <1>2, <1>3, <1>4, ShapedParts, ShapedNext

LEMMA LimitBounds ==
  ASSUME Rest, NEW i \in Isolates, queue[i] # <<>>
  PROVE  Limit(i) \in 1..Len(queue[i])
<1>1. queue[i] \in Seq(Events) /\ Len(queue[i]) \in Nat /\ Len(queue[i]) > 0
  BY EmptySeq DEF Rest
<1>. QED
  BY <1>1 DEF Limit

\* What a tick takes off the queue.
LEMMA TickBatch ==
  ASSUME Rest, NEW i \in Isolates, queue[i] # <<>>
  PROVE  LET batch == ToSet(SubSeq(queue[i], 1, Limit(i)))
         IN  batch \subseteq Events /\ batch # {}
<1>. DEFINE q == queue[i]
            l == Limit(i)
            front == SubSeq(q, 1, l)
<1>1. q \in Seq(Events) /\ l \in 1..Len(q) /\ Len(q) \in Nat
  BY LimitBounds, LenProperties DEF Rest
<1>. HIDE DEF q, l
<1>2. front \in Seq(Events) /\ Len(front) = l
  BY <1>1
<1>. HIDE DEF front
<1>3. DOMAIN front = 1..l /\ \A k \in 1..l : front[k] \in Events
  BY <1>2, LenProperties, ElementOfSeq
<1>4. ToSet(front) \subseteq Events /\ ToSet(front) # {}
  BY <1>1, <1>3 DEF ToSet
<1>. QED
  BY <1>4 DEF front, q, l

LEMMA TickShaped ==
  ASSUME Shaped, NEW i \in Isolates, NEW by \in {"timer", "trigger"}, Tick(i, by)
  PROVE  Shaped'
<1>. DEFINE batch == ToSet(SubSeq(queue[i], 1, Limit(i)))
            c == [by |-> by, events |-> batch, left |-> batch, stage |-> "dispatch", seen |-> {}]
<1>1. /\ Rest /\ IsFiniteSet(pending) /\ pending \subseteq sent
      /\ Batched(batches, handled, pending) /\ Persisting(persists, pending, sent, restarts)
  BY ShapedParts
<1>2. /\ queue[i] # <<>>
      /\ queue' = [queue EXCEPT ![i] = SubSeq(queue[i], Limit(i) + 1, Len(queue[i]))]
      /\ ticking' \in {ticking, [ticking EXCEPT ![i] = TRUE]}
      /\ UNCHANGED <<persists, paused, running, pending, written, sent, persisted, handled,
                     restarts>>
  BY DEF Tick, history
<1>3. batches' = [batches EXCEPT ![i] = batches[i] \cup {c}]
  BY DEF Tick
<1>4. batch \subseteq Events /\ batch # {}
  BY <1>1, <1>2, TickBatch
<1>. HIDE DEF batch
<1>5. BatchShape(c, handled, pending)
  BY <1>4 DEF BatchShape, Batch
<1>. HIDE DEF c
<1>6. Batched(batches', handled, pending)
  BY <1>1, <1>3, <1>5, BatchedUpdate
<1>7. queue' \in [Isolates -> Seq(Events)]
  <2>1. queue[i] \in Seq(Events) /\ Limit(i) \in 1..Len(queue[i]) /\ Len(queue[i]) \in Nat
    BY <1>1, <1>2, LimitBounds, LenProperties DEF Rest
  <2>2. SubSeq(queue[i], Limit(i) + 1, Len(queue[i])) \in Seq(Events)
    BY <2>1
  <2>. QED
    BY <1>1, <1>2, <2>2 DEF Rest
<1>8. Rest'
  BY ZenonT(40), <1>1, <1>2, <1>7 DEF Rest
<1>. QED
  BY <1>1, <1>2, <1>6, <1>8, ShapedNext

LEMMA HandleShaped ==
  ASSUME Shaped, NEW i \in Isolates, NEW b \in batches[i], NEW e \in b.left, Handle(i, b, e)
  PROVE  Shaped'
<1>. DEFINE c == [b EXCEPT !.left = b.left \ {e},
                           !.stage = IF b.left = {e} THEN "read" ELSE b.stage]
<1>1. /\ Rest /\ IsFiniteSet(pending) /\ pending \subseteq sent
      /\ Batched(batches, handled, pending) /\ Persisting(persists, pending, sent, restarts)
  BY ShapedParts
<1>2. /\ queue' = [queue EXCEPT ![i] = queue[i] \o Successor(i, e)]
      /\ batches' = [batches EXCEPT ![i] = (batches[i] \ {b}) \cup {c}]
      /\ handled' = handled \cup {e}
      /\ UNCHANGED <<persists, ticking, paused, running, pending, written, sent, persisted,
                     restarts>>
  BY DEF Handle, control
<1>3. BatchShape(b, handled, pending) /\ e \in Events
  BY <1>1 DEF Batched, BatchShape, Batch
<1>4. BatchShape(c, handled', pending)
  <2>1. b.stage = "dispatch"
    BY <1>3 DEF BatchShape
  <2>2. /\ c.left = b.left \ {e} /\ c.events = b.events /\ c.by = b.by /\ c.seen = b.seen
        /\ c.stage = IF b.left = {e} THEN "read" ELSE "dispatch"
        /\ c \in Batch
    BY <1>3, <2>1 DEF BatchShape, Batch
  <2>. HIDE DEF c
  <2>. QED
    BY <1>2, <1>3, <2>1, <2>2 DEF BatchShape
<1>. HIDE DEF c
<1>5. Batched(batches', handled', pending)
  <2>1. Batched(batches, handled', pending)
    BY <1>1, <1>2, BatchedMore
  <2>. QED
    BY <1>2, <1>4, <2>1, BatchedUpdate
<1>6. queue' \in [Isolates -> Seq(Events)]
  <2>1. Successor(i, e) \in Seq(Events)
    BY AtSingle, EmptySeq DEF Successor, Events
  <2>2. queue[i] \o Successor(i, e) \in Seq(Events)
    BY <1>1, <2>1, ConcatProperties DEF Rest
  <2>. QED
    BY <1>1, <1>2, <2>2 DEF Rest
<1>7. Rest'
  BY <1>1, <1>2, <1>3, <1>6 DEF Rest
<1>. QED
  BY <1>1, <1>2, <1>5, <1>7, ShapedNext

LEMMA DequeueReadShaped ==
  ASSUME Shaped, NEW i \in Isolates, NEW b \in batches[i], DequeueRead(i, b)
  PROVE  Shaped'
<1>. DEFINE c == [b EXCEPT !.stage = "valid", !.seen = pending]
<1>1. /\ Rest /\ IsFiniteSet(pending) /\ pending \subseteq sent
      /\ Batched(batches, handled, pending) /\ Persisting(persists, pending, sent, restarts)
  BY ShapedParts
<1>2. /\ b.stage = "read"
      /\ batches' = [batches EXCEPT ![i] = (batches[i] \ {b}) \cup {c}]
      /\ UNCHANGED <<queue, persists, ticking, paused, running, pending, written, sent,
                     persisted, handled, restarts>>
  BY DEF DequeueRead, control, history
<1>3. BatchShape(b, handled, pending) /\ pending \subseteq Pulls
  BY <1>1 DEF Batched, Rest
<1>4. BatchShape(c, handled, pending)
  BY <1>2, <1>3 DEF BatchShape, Batch
<1>. HIDE DEF c
<1>5. Batched(batches', handled, pending)
  BY <1>1, <1>2, <1>4, BatchedUpdate
<1>6. Rest'
  BY <1>1, <1>2 DEF Rest
<1>. QED
  BY <1>1, <1>2, <1>5, <1>6, ShapedNext

LEMMA DequeueCommitShaped ==
  ASSUME Shaped, NEW i \in Isolates, NEW b \in batches[i], DequeueCommit(i, b)
  PROVE  Shaped'
<1>. DEFINE f == [batches EXCEPT ![i] = batches[i] \ {b}]
<1>1. /\ Rest /\ IsFiniteSet(pending) /\ pending \subseteq sent
      /\ Batched(batches, handled, pending) /\ Persisting(persists, pending, sent, restarts)
  BY ShapedParts
<1>2. /\ persists' = StaleAll(persists) /\ batches' = StaleAll(f) /\ written' = TRUE
      /\ pending' = b.seen \ b.events
      /\ ticking' \in {ticking, [ticking EXCEPT ![i] = FALSE]}
      /\ UNCHANGED <<queue, paused, running, sent, persisted, handled, restarts>>
  BY DEF DequeueCommit, history, EndTick
<1>3. pending' \subseteq pending
  BY <1>1, <1>2 DEF DequeueCommit, MayCommit, Batched, BatchShape
<1>4. IsFiniteSet(pending')
  BY <1>1, <1>3, FS_Subset
<1>5. Persisting(persists', pending', sent, restarts)
  BY <1>1, <1>2, PersistingStale
<1>6. Batched(batches', handled, pending')
  <2>1. Batched(f, handled, pending)
    BY <1>1, BatchedUpdate
  <2>. HIDE DEF f
  <2>. QED
    BY <1>2, <2>1, BatchedStale
<1>7. Rest'
  BY <1>1, <1>2, <1>3 DEF Rest
<1>. QED
  BY <1>1, <1>2, <1>3, <1>4, <1>5, <1>6, <1>7, ShapedNext

LEMMA DequeueFailShaped ==
  ASSUME Shaped, NEW i \in Isolates, NEW b \in batches[i], DequeueFail(i, b)
  PROVE  Shaped'
<1>1. /\ Rest /\ IsFiniteSet(pending) /\ pending \subseteq sent
      /\ Batched(batches, handled, pending) /\ Persisting(persists, pending, sent, restarts)
  BY ShapedParts
<1>2. /\ batches' = [batches EXCEPT ![i] = batches[i] \ {b}]
      /\ ticking' \in {ticking, [ticking EXCEPT ![i] = FALSE]}
      /\ UNCHANGED <<queue, persists, paused, running, pending, written, sent, persisted,
                     handled, restarts>>
  BY DEF DequeueFail, history, EndTick
<1>3. Batched(batches', handled, pending)
  BY <1>1, <1>2, BatchedUpdate
<1>4. Rest'
  BY <1>1, <1>2 DEF Rest
<1>. QED
  BY <1>1, <1>2, <1>3, <1>4, ShapedNext

\* Start, stop, pause and resume touch the flags only.
LEMMA ControlShaped ==
  ASSUME Shaped, NEW i \in Isolates, Start(i) \/ Stop(i) \/ Pause(i) \/ Resume(i)
  PROVE  /\ Shaped'
         /\ UNCHANGED <<queue, batches, persists, ticking, pending, written, sent, persisted,
                        handled, restarts>>
<1>1. /\ Rest /\ IsFiniteSet(pending) /\ pending \subseteq sent
      /\ Batched(batches, handled, pending) /\ Persisting(persists, pending, sent, restarts)
  BY ShapedParts
<1>2. UNCHANGED <<queue, batches, persists, ticking, pending, written, sent, persisted,
                  handled, restarts>>
  BY DEF Start, Stop, Pause, Resume, SetPaused, history
<1>3. {paused', running'} \subseteq [Isolates -> BOOLEAN]
  BY <1>1 DEF Start, Stop, Pause, Resume, SetPaused, Rest
<1>4. Rest'
  BY <1>1, <1>2, <1>3 DEF Rest
<1>. QED
  BY <1>1, <1>2, <1>4, ShapedNext

LEMMA RestartShaped ==
  ASSUME Shaped, NEW i \in Isolates, Restart(i)
  PROVE  Shaped'
<1>. DEFINE c == [op |-> "recover", event |-> Health, stage |-> "read", seen |-> {}]
<1>1. /\ Rest /\ IsFiniteSet(pending) /\ pending \subseteq sent
      /\ Batched(batches, handled, pending) /\ Persisting(persists, pending, sent, restarts)
  BY ShapedParts
<1>2. /\ restarts < MaxRestarts /\ restarts' = restarts + 1
      /\ queue' = [queue EXCEPT ![i] = <<Health>>]
      /\ batches' = [batches EXCEPT ![i] = {}]
      /\ persists' = [persists EXCEPT ![i] = {c}]
      /\ ticking' = [ticking EXCEPT ![i] = FALSE]
      /\ paused' = [paused EXCEPT ![i] = FALSE]
      /\ running' = [running EXCEPT ![i] = TRUE]
      /\ UNCHANGED <<pending, written, sent, persisted, handled>>
  BY DEF Restart
<1>3. restarts \in Nat /\ restarts' \in 0..MaxRestarts /\ restarts' > 0
  BY <1>1, <1>2 DEF Rest
<1>4. Batched(batches', handled, pending)
  BY <1>1, <1>2, BatchedUpdate
<1>5. PersistShape(c, pending, sent, restarts')
  BY <1>3 DEF PersistShape, Persist, Events
<1>. HIDE DEF c
<1>6. Persisting(persists', pending, sent, restarts')
  <2>1. Persisting(persists, pending, sent, restarts')
    BY <1>1, <1>3, PersistingMore
  <2>. QED
    BY <1>2, <1>5, <2>1, PersistingUpdate
<1>7. queue' \in [Isolates -> Seq(Events)]
  BY <1>1, <1>2, AtSingle DEF Rest, Events
<1>8. {ticking', paused', running'} \subseteq [Isolates -> BOOLEAN]
  BY <1>1, <1>2 DEF Rest
<1>9. Rest'
  BY <1>1, <1>2, <1>3, <1>7, <1>8 DEF Rest
<1>. QED
  BY <1>1, <1>2, <1>4, <1>6, <1>9, ShapedNext

LEMMA ShapedInvariance ==
  ASSUME Shaped, [Next]_vars
  PROVE  Shaped'
<1>1. CASE UNCHANGED vars
  <2>1. UNCHANGED <<queue, batches, persists, ticking, paused, running, pending, written,
                    sent, persisted, handled, restarts>>
    BY <1>1 DEF vars
  <2>2. /\ Rest /\ IsFiniteSet(pending) /\ pending \subseteq sent
        /\ Batched(batches, handled, pending) /\ Persisting(persists, pending, sent, restarts)
    BY ShapedParts
  <2>3. Rest'
    BY <2>1, <2>2 DEF Rest
  <2>. QED
    BY <2>1, <2>2, <2>3, ShapedNext
<1>2. CASE Next
  <2>1. PICK i \in Isolates :
          \/ \E e \in Pulls \cup Others : Enqueue(i, e)
          \/ TickStep(i) \/ StoreStep(i)
          \/ Start(i) \/ Stop(i) \/ Pause(i) \/ Resume(i)
          \/ Restart(i)
    BY <1>2 DEF Next
  <2>2. CASE \E e \in Pulls \cup Others : Enqueue(i, e)
    BY <2>2, EnqueueShaped
  <2>3. CASE TickStep(i)
    BY <2>3, TickShaped, HandleShaped, DequeueReadShaped, DequeueCommitShaped,
       DequeueFailShaped DEF TickStep
  <2>4. CASE StoreStep(i)
    BY <2>4, PersistReadShaped, RecoverReadShaped, PersistCommitShaped, PersistFailShaped
       DEF StoreStep
  <2>5. CASE Start(i) \/ Stop(i) \/ Pause(i) \/ Resume(i)
    BY <2>5, ControlShaped
  <2>6. CASE Restart(i)
    BY <2>6, RestartShaped
  <2>. QED
    BY <2>1, <2>2, <2>3, <2>4, <2>5, <2>6
<1>. QED
  BY <1>1, <1>2

\* A transaction that may commit has read what is stored, and what a batch no
\* longer waits for was handled: for any number of isolates and restarts.
THEOREM Shape == Spec => []Shaped
BY ShapedInit, ShapedInvariance, PTL DEF Spec

-----------------------------------------------------------------------------
(* What each step does to the places of an event                             *)

Has(i, e) == Some(queue[i], batches[i], e)
Unique(i, e) == AtMost(queue[i], batches[i], e)

LEMMA SameTwice ==
  ASSUME NEW q, NEW B, NEW r, NEW C, NEW s, NEW D, NEW e,
         Same(q, B, r, C, e), Same(r, C, s, D, e)
  PROVE  Same(q, B, s, D, e)
BY DEF Same

LEMMA SameNothing ==
  ASSUME NEW q, NEW B, NEW e
  PROVE  Same(q, B, q, B, e)
BY DEF Same

LEMMA NotThenUnique ==
  ASSUME NEW q, NEW B, NEW e, ~Some(q, B, e)
  PROVE  AtMost(q, B, e)
BY DEF Some, AtMost, Once

LEMMA FromSame ==
  ASSUME NEW i, NEW e, Same(queue[i], batches[i], queue'[i], batches'[i], e)
  PROVE  (Has(i, e)' <=> Has(i, e)) /\ (Unique(i, e) => Unique(i, e)')
BY DEF Same, Has, Unique

LEMMA EnqueueMemory ==
  ASSUME Shaped, NEW i \in Isolates, NEW f \in Pulls \cup Others, Enqueue(i, f),
         NEW j \in Isolates, NEW e
  PROVE  /\ j # i \/ e # f => (Has(j, e)' <=> Has(j, e)) /\ (Unique(j, e) => Unique(j, e)')
         /\ j = i /\ e = f /\ ~Has(j, e) => Unique(j, e)'
<1>1. /\ queue' \in {queue, [queue EXCEPT ![i] = Append(queue[i], f)]}
      /\ batches' = batches
  BY DEF Enqueue
<1>2. f \in Events /\ queue \in [Isolates -> Seq(Events)]
  BY DEF Shaped, TypeOK, Events
<1>3. Append(queue[i], f) = queue[i] \o <<f>>
  BY <1>2, AppendIsConcat
<1>4. CASE queue'[j] = queue[j]
  BY <1>1, <1>4, SameNothing, FromSame, NotThenUnique DEF Has, Unique
<1>5. CASE j = i /\ queue'[i] = queue[i] \o <<f>>
  <2>1. CASE e # f
    <3>1. Same(queue[i], batches[i], queue[i] \o <<f>>, batches[i], e)
      BY <1>2, <2>1, AtSingle, AppendOther
    <3>. QED
      BY <1>1, <1>5, <2>1, <3>1, FromSame
  <2>2. CASE e = f /\ ~Has(i, e)
    <3>1. AtMost(queue[i] \o <<f>>, batches[i], e)
      BY <1>2, <2>2, AtSingle, AppendNew DEF Has
    <3>. QED
      BY <1>1, <1>5, <2>2, <3>1 DEF Unique
  <2>. QED
    BY <1>5, <2>1, <2>2
<1>. QED
  BY <1>1, <1>2, <1>3, <1>4, <1>5

LEMMA TickMemory ==
  ASSUME Shaped, NEW i \in Isolates, NEW by \in {"timer", "trigger"}, Tick(i, by),
         NEW j \in Isolates, NEW e
  PROVE  (Has(j, e)' <=> Has(j, e)) /\ (Unique(j, e) => Unique(j, e)')
<1>. DEFINE batch == ToSet(SubSeq(queue[i], 1, Limit(i)))
            c == [by |-> by, events |-> batch, left |-> batch, stage |-> "dispatch", seen |-> {}]
<1>1. Rest /\ batches \in [Isolates -> SUBSET Batch]
  BY ShapedParts DEF Shaped, TypeOK
<1>2. /\ queue[i] # <<>>
      /\ queue' = [queue EXCEPT ![i] = SubSeq(queue[i], Limit(i) + 1, Len(queue[i]))]
  BY DEF Tick
<1>3. batches' = [batches EXCEPT ![i] = batches[i] \cup {c}]
  BY DEF Tick
<1>4. c.left = ToSet(SubSeq(queue[i], 1, Limit(i)))
  OBVIOUS
<1>. HIDE DEF c, batch
<1>5. CASE j = i
  <2>1. queue[i] \in Seq(Events) /\ Limit(i) \in 1..Len(queue[i])
    BY <1>1, <1>2, LimitBounds DEF Rest
  <2>2. Same(queue[i], batches[i], SubSeq(queue[i], Limit(i) + 1, Len(queue[i])),
             batches[i] \cup {c}, e)
    BY <1>4, <2>1, TickMoves
  <2>3. /\ queue'[i] = SubSeq(queue[i], Limit(i) + 1, Len(queue[i]))
        /\ batches'[i] = batches[i] \cup {c}
    BY <1>1, <1>2, <1>3 DEF Rest
  <2>. QED
    BY <1>5, <2>2, <2>3, FromSame
<1>6. CASE j # i
  BY <1>1, <1>2, <1>3, <1>6, SameNothing, FromSame DEF Rest
<1>. QED
  BY <1>5, <1>6

LEMMA HandleMemory ==
  ASSUME Shaped, NEW i \in Isolates, NEW b \in batches[i], NEW f \in b.left, Handle(i, b, f),
         NEW j \in Isolates, NEW e
  PROVE  /\ j # i \/ e # f => (Has(j, e)' <=> Has(j, e)) /\ (Unique(j, e) => Unique(j, e)')
         /\ j = i /\ e = f /\ Unique(j, e) => Unique(j, e)' /\ (Has(j, e)' <=> e = Health)
<1>. DEFINE c == [b EXCEPT !.left = b.left \ {f},
                           !.stage = IF b.left = {f} THEN "read" ELSE b.stage]
            B == (batches[i] \ {b}) \cup {c}
            r == queue[i] \o Successor(i, f)
<1>1. Rest /\ batches \in [Isolates -> SUBSET Batch] /\ b \in Batch
  BY ShapedParts DEF Shaped, TypeOK
<1>2. /\ queue' = [queue EXCEPT ![i] = r]
      /\ batches' = [batches EXCEPT ![i] = B]
  BY DEF Handle
<1>3. c.left = b.left \ {f}
  BY <1>1 DEF Batch
<1>4. queue[i] \in Seq(Events) /\ Successor(i, f) \in Seq(Events)
  BY <1>1, AtSingle, EmptySeq DEF Rest, Successor, Events
<1>. HIDE DEF c
<1>5. CASE j # i
  <2>1. queue'[j] = queue[j] /\ batches'[j] = batches[j]
    BY <1>1, <1>2, <1>5 DEF Rest
  <2>. QED
    BY <1>5, <2>1, SameNothing, FromSame
<1>6. CASE j = i
  <2>1. queue'[i] = r /\ batches'[i] = B
    BY <1>1, <1>2 DEF Rest
  <2>2. At(<<>>, e) = {}
    BY EmptySeq DEF At
  <2>3. CASE e # f
    <3>1. Same(queue[i], batches[i], queue[i], B, e)
      BY <1>3, <2>3, InReplaced
    <3>2. At(Successor(i, f), e) = {}
      BY <2>2, <2>3, AtSingle DEF Successor, Events
    <3>3. Same(queue[i], B, r, B, e)
      BY <1>4, <3>2, AppendOther
    <3>4. Same(queue[i], batches[i], r, B, e)
      BY <3>1, <3>3, SameTwice
    <3>. QED
      BY <1>6, <2>1, <2>3, <3>4, FromSame
  <2>4. CASE e = f /\ Unique(i, e)
    <3>1. ~Some(queue[i], B, e)
      BY <1>3, <2>4, InHandled DEF Unique
    <3>2. Once(At(Successor(i, f), e)) /\ (At(Successor(i, f), e) # {} <=> e = Health)
      BY <2>2, <2>4, AtSingle DEF Successor, Once, Events
    <3>3. AtMost(r, B, e) /\ (Some(r, B, e) <=> e = Health)
      BY <1>4, <3>1, <3>2, AppendNew
    <3>. QED
      BY <1>6, <2>1, <2>4, <3>3 DEF Has, Unique
  <2>. QED
    BY <1>6, <2>3, <2>4
<1>. QED
  BY <1>5, <1>6

LEMMA RecoverMemory ==
  ASSUME Shaped, NEW i \in Isolates, NEW t \in persists[i], RecoverRead(i, t),
         NEW j \in Isolates, NEW e
  PROVE  /\ j # i \/ e \notin pending =>
              (Has(j, e)' <=> Has(j, e)) /\ (Unique(j, e) => Unique(j, e)')
         /\ j = i /\ e \in pending => Has(j, e)'
         /\ j = i /\ e \in pending /\ ~Has(j, e) => Unique(j, e)'
<1>. DEFINE r == SetToSeq(pending)
<1>1. Rest /\ IsFiniteSet(pending)
  BY ShapedParts
<1>2. queue' = [queue EXCEPT ![i] = queue[i] \o r] /\ batches' = batches
  BY DEF RecoverRead
<1>3. /\ r \in Seq(Events) /\ Once(At(r, e)) /\ (At(r, e) # {} <=> e \in pending)
  <2>1. r \in Seq(pending) /\ Once(At(r, e)) /\ (At(r, e) # {} <=> e \in pending)
    BY <1>1, SetToSeqOnce
  <2>2. pending \subseteq Events
    BY <1>1 DEF Rest, Events
  <2>. QED
    BY <2>1, <2>2, SeqMonotonic
<1>. HIDE DEF r
<1>4. queue[i] \in Seq(Events)
  BY <1>1 DEF Rest
<1>5. CASE j # i
  BY <1>1, <1>2, <1>5, SameNothing, FromSame DEF Rest
<1>6. CASE j = i
  <2>1. queue'[i] = queue[i] \o r /\ batches'[i] = batches[i]
    BY <1>1, <1>2 DEF Rest
  <2>2. CASE e \notin pending
    <3>1. Same(queue[i], batches[i], queue[i] \o r, batches[i], e)
      BY <1>3, <1>4, <2>2, AppendOther
    <3>. QED
      BY <1>6, <2>1, <2>2, <3>1, FromSame
  <2>3. CASE e \in pending
    <3>1. PICK k \in At(r, e) : TRUE
      BY <1>3, <2>3
    <3>2. k \in Nat /\ k >= 1 /\ Len(queue[i]) \in Nat
      BY <1>3, <1>4, LenProperties DEF At
    <3>3. Len(queue[i]) + k \in At(queue[i] \o r, e)
      <4>1. (Len(queue[i]) + k) - Len(queue[i]) = k /\ Len(queue[i]) + k > Len(queue[i])
        BY <3>2
      <4>. QED
        BY <1>3, <1>4, <3>1, <3>2, <4>1, AtConcat
    <3>4. Has(i, e)'
      BY <2>1, <3>3 DEF Has, Some
    <3>5. ~Has(i, e) => AtMost(queue[i] \o r, batches[i], e)
      BY <1>3, <1>4, AppendNew DEF Has
    <3>. QED
      BY <1>6, <2>1, <2>3, <3>4, <3>5 DEF Unique
  <2>. QED
    BY <1>6, <2>2, <2>3
<1>. QED
  BY <1>5, <1>6

LEMMA StaleMemory ==
  ASSUME Shaped, queue' = queue,
         NEW f, NEW done, NEW list, Batched(f, done, list), batches' = StaleAll(f),
         NEW j \in Isolates, NEW e, Same(queue[j], batches[j], queue[j], f[j], e)
  PROVE  (Has(j, e)' <=> Has(j, e)) /\ (Unique(j, e) => Unique(j, e)')
<1>1. batches'[j] = {Stale(b) : b \in f[j]} /\ f[j] \in SUBSET Batch
  BY BatchedStale DEF Batched
<1>2. Same(queue[j], f[j], queue[j], {Stale(b) : b \in f[j]}, e)
  BY <1>1, InStale
<1>3. Same(queue[j], batches[j], queue[j], batches'[j], e)
  BY <1>1, <1>2, SameTwice
<1>. QED
  BY <1>3, FromSame

\* The transactions move nothing.
LEMMA DequeueMemory ==
  ASSUME Shaped, NEW i \in Isolates, NEW b \in batches[i],
         DequeueRead(i, b) \/ DequeueCommit(i, b) \/ DequeueFail(i, b),
         NEW j \in Isolates, NEW e
  PROVE  (Has(j, e)' <=> Has(j, e)) /\ (Unique(j, e) => Unique(j, e)')
<1>. DEFINE f == [batches EXCEPT ![i] = batches[i] \ {b}]
<1>1. /\ Batched(batches, handled, pending) /\ batches \in [Isolates -> SUBSET Batch]
      /\ b \in Batch /\ BatchShape(b, handled, pending)
  BY ShapedParts DEF Batched
<1>2. CASE DequeueRead(i, b)
  <2>. DEFINE c == [b EXCEPT !.stage = "valid", !.seen = pending]
  <2>1. batches' = [batches EXCEPT ![i] = (batches[i] \ {b}) \cup {c}] /\ queue' = queue
    BY <1>2 DEF DequeueRead
  <2>2. c.left = b.left
    BY <1>1 DEF Batch
  <2>. HIDE DEF c
  <2>3. CASE j = i
    <3>1. Same(queue[i], batches[i], queue[i], (batches[i] \ {b}) \cup {c}, e)
      BY <2>2, InReplaced
    <3>2. batches'[i] = (batches[i] \ {b}) \cup {c}
      BY <1>1, <2>1
    <3>. QED
      BY <2>1, <2>3, <3>1, <3>2, FromSame
  <2>4. CASE j # i
    <3>1. batches'[j] = batches[j]
      BY <1>1, <2>1, <2>4
    <3>. QED
      BY <2>1, <3>1, SameNothing, FromSame
  <2>. QED
    BY <2>3, <2>4
<1>3. b.stage # "dispatch" => Same(queue[j], batches[j], queue[j], f[j], e)
  <2>1. b.stage # "dispatch" => b.left = {}
    BY <1>1 DEF BatchShape
  <2>2. b.left = {} => Same(queue[i], batches[i], queue[i], batches[i] \ {b}, e)
    BY InRemoved
  <2>3. j = i => f[j] = batches[i] \ {b}
    BY <1>1
  <2>4. j # i => f[j] = batches[j]
    BY <1>1
  <2>. QED
    BY <2>1, <2>2, <2>3, <2>4, SameNothing
<1>4. CASE DequeueFail(i, b)
  <2>1. b.stage # "dispatch" /\ batches' = f /\ queue' = queue
    BY <1>4 DEF DequeueFail
  <2>. QED
    BY <1>3, <2>1, FromSame
<1>5. CASE DequeueCommit(i, b)
  <2>1. b.stage # "dispatch" /\ batches' = StaleAll(f) /\ queue' = queue
    BY <1>5 DEF DequeueCommit, MayCommit
  <2>2. Batched(f, handled, pending)
    BY <1>1, BatchedUpdate
  <2>. HIDE DEF f
  <2>. QED
    BY <1>3, <2>1, <2>2, StaleMemory
<1>. QED
  BY <1>2, <1>4, <1>5

LEMMA PersistMemory ==
  ASSUME Shaped, NEW i \in Isolates, NEW t \in persists[i],
         PersistRead(i, t) \/ PersistCommit(i, t) \/ PersistFail(i, t),
         NEW j \in Isolates, NEW e
  PROVE  (Has(j, e)' <=> Has(j, e)) /\ (Unique(j, e) => Unique(j, e)')
<1>1. Batched(batches, handled, pending)
  BY ShapedParts
<1>2. CASE PersistRead(i, t) \/ PersistFail(i, t)
  BY <1>2, SameNothing, FromSame DEF PersistRead, PersistFail
<1>3. CASE PersistCommit(i, t)
  BY <1>1, <1>3, SameNothing, StaleMemory DEF PersistCommit
<1>. QED
  BY <1>2, <1>3

\* A restart forgets everything, and the health check is enqueued anew.
LEMMA RestartMemory ==
  ASSUME Shaped, NEW i \in Isolates, Restart(i), NEW j \in Isolates, NEW e
  PROVE  /\ j # i => (Has(j, e)' <=> Has(j, e)) /\ (Unique(j, e) => Unique(j, e)')
         /\ j = i => Unique(j, e)' /\ (Has(j, e)' <=> e = Health)
<1>1. /\ queue' = [queue EXCEPT ![i] = <<Health>>]
      /\ batches' = [batches EXCEPT ![i] = {}]
      /\ queue \in [Isolates -> Seq(Events)] /\ batches \in [Isolates -> SUBSET Batch]
  BY DEF Restart, Shaped, TypeOK
<1>2. CASE j # i
  <2>1. queue'[j] = queue[j] /\ batches'[j] = batches[j]
    BY <1>1, <1>2
  <2>. QED
    BY <1>2, <2>1, SameNothing, FromSame
<1>3. CASE j = i
  <2>1. queue'[i] = <<Health>> /\ batches'[i] = {}
    BY <1>1
  <2>2. In({}, e) = {}
    BY DEF In
  <2>3. Once(At(<<Health>>, e)) /\ (At(<<Health>>, e) # {} <=> e = Health)
    BY AtSingle DEF Events, Once
  <2>4. AtMost(<<Health>>, {}, e) /\ (Some(<<Health>>, {}, e) <=> e = Health)
    BY <2>2, <2>3 DEF AtMost, Some, Once
  <2>. QED
    BY <1>3, <2>1, <2>4 DEF Has, Unique
<1>. QED
  BY <1>2, <1>3

LEMMA StillMemory ==
  ASSUME UNCHANGED <<queue, batches>>, NEW j, NEW e
  PROVE  (Has(j, e)' <=> Has(j, e)) /\ (Unique(j, e) => Unique(j, e)')
BY SameNothing, FromSame

-----------------------------------------------------------------------------
(* One health check                                                          *)

HealthInv == \A j \in Isolates : Has(j, Health) /\ Unique(j, Health)

LEMMA HealthInit == Init => HealthInv
<1>. SUFFICES ASSUME Init, NEW j \in Isolates PROVE Has(j, Health) /\ Unique(j, Health)
  BY DEF HealthInv
<1>1. queue[j] = <<Health>> /\ batches[j] = {}
  BY DEF Init
<1>2. At(<<Health>>, Health) = {1} /\ In({}, Health) = {}
  BY AtSingle DEF In, Events
<1>. QED
  BY <1>1, <1>2 DEF Has, Unique, Some, AtMost, Once

LEMMA HealthStep ==
  ASSUME Shaped, HealthInv, [Next]_vars
  PROVE  HealthInv'
<1>. SUFFICES ASSUME NEW j \in Isolates PROVE Has(j, Health)' /\ Unique(j, Health)'
  BY DEF HealthInv
<1>1. Has(j, Health) /\ Unique(j, Health)
  BY DEF HealthInv
<1>2. CASE UNCHANGED vars
  BY <1>1, <1>2, StillMemory DEF vars
<1>3. CASE Next
  <2>1. PICK i \in Isolates :
          \/ \E e \in Pulls \cup Others : Enqueue(i, e)
          \/ TickStep(i) \/ StoreStep(i)
          \/ Start(i) \/ Stop(i) \/ Pause(i) \/ Resume(i)
          \/ Restart(i)
    BY <1>3 DEF Next
  <2>2. CASE \E e \in Pulls \cup Others : Enqueue(i, e)
    BY <1>1, <2>2, EnqueueMemory
  <2>3. CASE TickStep(i)
    <3>1. CASE \E by \in {"timer", "trigger"} : Tick(i, by)
      BY <1>1, <3>1, TickMemory
    <3>2. CASE \E b \in batches[i] : \E f \in b.left : Handle(i, b, f)
      BY <1>1, <3>2, HandleMemory
    <3>3. CASE \E b \in batches[i] :
                 DequeueRead(i, b) \/ DequeueCommit(i, b) \/ DequeueFail(i, b)
      BY <1>1, <3>3, DequeueMemory
    <3>. QED
      BY <2>3, <3>1, <3>2, <3>3 DEF TickStep
  <2>4. CASE StoreStep(i)
    <3>1. Health \notin pending
      BY DEF Shaped, TypeOK
    <3>2. CASE \E t \in persists[i] : RecoverRead(i, t)
      BY <1>1, <3>1, <3>2, RecoverMemory
    <3>3. CASE \E t \in persists[i] :
                 PersistRead(i, t) \/ PersistCommit(i, t) \/ PersistFail(i, t)
      BY <1>1, <3>3, PersistMemory
    <3>. QED
      BY <2>4, <3>2, <3>3 DEF StoreStep
  <2>5. CASE Start(i) \/ Stop(i) \/ Pause(i) \/ Resume(i)
    BY <1>1, <2>5, ControlShaped, StillMemory
  <2>6. CASE Restart(i)
    BY <1>1, <2>6, RestartMemory
  <2>. QED
    BY <2>1, <2>2, <2>3, <2>4, <2>5, <2>6
<1>. QED
  BY <1>2, <1>3

LEMMA HealthCounted == HealthInv => OneHealthCheck
<1>. SUFFICES ASSUME HealthInv, NEW i \in Isolates
              PROVE  Cardinality(Queued(i, Health)) + Cardinality(Running(i, Health)) = 1
  BY DEF OneHealthCheck
<1>1. AtMost(queue[i], batches[i], Health) /\ Some(queue[i], batches[i], Health)
  BY DEF HealthInv, Has, Unique
<1>. QED
  BY <1>1, AtMostCardinality, QueuedRunning

\* However ticks, handlers, commits and restarts interleave, with either kind of
\* timer and any limits, every isolate has exactly one health check.
THEOREM HealthChecked == Spec => []OneHealthCheck
<1>1. Init => Shaped /\ HealthInv
  BY ShapedInit, HealthInit
<1>2. Shaped /\ HealthInv /\ [Next]_vars => (Shaped /\ HealthInv)'
  BY ShapedInvariance, HealthStep
<1>3. Shaped /\ HealthInv => OneHealthCheck
  BY HealthCounted
<1>. QED
  BY <1>1, <1>2, <1>3, PTL DEF Spec

-----------------------------------------------------------------------------
(* No event twice                                                            *)

Plain == Pulls \cup Others

\* What an isolate holds was sent; the events that it holds before its recovery
\* has read the store are its own, and have not reached the store.
Known == \A j \in Isolates, e \in Plain : Has(j, e) => e \in sent
Alone == \A j \in Isolates, e \in Plain : Unique(j, e)
Fresh == \A j \in Isolates, e \in Plain :
           Recovering(j) /\ Has(j, e) =>
             /\ e \notin pending
             /\ \A k \in Isolates : \A t \in persists[k] :
                  t.op = "add" /\ t.event = e => k = j /\ t.stage = "read"

NoDupInv == Known /\ Alone /\ Fresh

LEMMA NoDupInit == Init => NoDupInv
<1>. SUFFICES ASSUME Init, NEW j \in Isolates, NEW e \in Plain
              PROVE  ~Has(j, e) /\ Unique(j, e)
  BY DEF NoDupInv, Known, Alone, Fresh
<1>1. queue[j] = <<Health>> /\ batches[j] = {} /\ e # Health
  BY DEF Init, Plain
<1>2. At(<<Health>>, e) = {} /\ In({}, e) = {}
  BY <1>1, AtSingle DEF In, Events
<1>. QED
  BY <1>1, <1>2 DEF Has, Unique, Some, AtMost, Once

\* A step that neither puts an event in memory nor begins, extends or hastens a
\* transaction.
LEMMA FreshKept ==
  ASSUME Fresh, pending' \subseteq pending,
         \A j \in Isolates : Recovering(j)' => Recovering(j),
         \A j \in Isolates, e \in Plain : Has(j, e)' => Has(j, e),
         \A k \in Isolates : \A t \in persists'[k] : t.op = "add" =>
           \E u \in persists[k] : /\ u.op = "add" /\ u.event = t.event
                                  /\ u.stage = "read" => t.stage = "read"
  PROVE  Fresh'
<1>. SUFFICES ASSUME NEW j \in Isolates, NEW e \in Plain, Recovering(j)', Has(j, e)'
              PROVE  /\ e \notin pending'
                     /\ \A k \in Isolates : \A t \in persists'[k] :
                          t.op = "add" /\ t.event = e => k = j /\ t.stage = "read"
  BY DEF Fresh
<1>1. Recovering(j) /\ Has(j, e)
  OBVIOUS
<1>2. /\ e \notin pending
      /\ \A k \in Isolates : \A t \in persists[k] :
           t.op = "add" /\ t.event = e => k = j /\ t.stage = "read"
  BY <1>1 DEF Fresh
<1>. QED
  BY <1>2

\* Nor does a commit of another isolate.
LEMMA FreshStale ==
  ASSUME Shaped, NEW f, Persisting(f, pending, sent, restarts), persists' = StaleAll(f),
         \A k \in Isolates : f[k] \subseteq persists[k]
  PROVE  /\ \A j \in Isolates : Recovering(j)' => Recovering(j)
         /\ \A k \in Isolates : \A t \in persists'[k] : t.op = "add" =>
              \E u \in persists[k] : /\ u.op = "add" /\ u.event = t.event
                                     /\ u.stage = "read" => t.stage = "read"
<1>1. ASSUME NEW k \in Isolates, NEW t \in persists'[k]
      PROVE  \E u \in persists[k] : /\ u.op = t.op /\ u.event = t.event
                                    /\ u.stage = "read" <=> t.stage = "read"
  <2>0. persists'[k] = {Stale(u) : u \in f[k]}
    BY PersistingStale
  <2>1. PICK u \in f[k] : t = Stale(u)
    BY <2>0
  <2>2. u \in persists[k] /\ u \in Persist
    BY DEF Persisting
  <2>. QED
    BY <2>1, <2>2, StalePersist
<1>2. ASSUME NEW j \in Isolates, Recovering(j)' PROVE Recovering(j)
  <2>1. PICK t \in persists'[j] : t.op = "recover" /\ t.stage = "read"
    BY <1>2 DEF Recovering
  <2>. QED
    BY <1>1, <2>1 DEF Recovering
<1>. QED
  BY <1>1, <1>2

LEMMA EnqueueNoDup ==
  ASSUME Shaped, NoDupInv, NEW i \in Isolates, NEW f \in Plain, Enqueue(i, f)
  PROVE  NoDupInv'
<1>. DEFINE c == [op |-> "add", event |-> f, stage |-> "read", seen |-> {}]
<1>1. /\ f \notin sent /\ sent' = sent \cup {f} /\ pending' = pending
      /\ persists' \in {persists, [persists EXCEPT ![i] = persists[i] \cup {c}]}
  BY DEF Enqueue
<1>2. ASSUME NEW j \in Isolates, NEW e \in Plain
      PROVE  /\ j # i \/ e # f => (Has(j, e)' <=> Has(j, e)) /\ (Unique(j, e) => Unique(j, e)')
             /\ j = i /\ e = f => Unique(j, e)'
             /\ ~Has(j, f)
  <2>1. ~Has(j, f)
    BY <1>1 DEF NoDupInv, Known
  <2>. QED
    BY <2>1, EnqueueMemory DEF Plain
<1>3. Known' /\ Alone'
  BY <1>1, <1>2 DEF NoDupInv, Known, Alone
<1>4. /\ persists \in [Isolates -> SUBSET Persist] /\ pending \subseteq sent
      /\ \A k \in Isolates : \A t \in persists[k] : t.op = "add" => t.event \in sent
  BY ShapedParts DEF Persisting, PersistShape
<1>5. \A k \in Isolates : \A t \in persists'[k] :
        t \in persists[k] \/ (k = i /\ t = c)
  BY <1>1, <1>4
<1>6. /\ c.op = "add" /\ c.event = f /\ c.stage = "read"
  OBVIOUS
<1>. HIDE DEF c
<1>7. \A j \in Isolates : Recovering(j)' => Recovering(j)
  BY <1>5, <1>6 DEF Recovering
<1>8. Fresh'
  <2>. SUFFICES ASSUME NEW j \in Isolates, NEW e \in Plain, Recovering(j)', Has(j, e)'
                PROVE  /\ e \notin pending'
                       /\ \A k \in Isolates : \A t \in persists'[k] :
                            t.op = "add" /\ t.event = e => k = j /\ t.stage = "read"
    BY DEF Fresh
  <2>1. CASE j = i /\ e = f
    BY <1>1, <1>4, <1>5, <1>6, <2>1
  <2>2. CASE j # i \/ e # f
    <3>1. Has(j, e) /\ Recovering(j) /\ e # f
      BY <1>2, <1>7, <2>2
    <3>2. /\ e \notin pending
          /\ \A k \in Isolates : \A t \in persists[k] :
               t.op = "add" /\ t.event = e => k = j /\ t.stage = "read"
      BY <3>1 DEF NoDupInv, Fresh
    <3>. QED
      BY <1>1, <1>5, <1>6, <3>1, <3>2
  <2>. QED
    BY <2>1, <2>2
<1>. QED
  BY <1>3, <1>8 DEF NoDupInv

\* Steps that leave the transactions of enqueue() and #recover() alone.
LEMMA QuietNoDup ==
  ASSUME NoDupInv, sent' = sent, persists' = persists, pending' = pending,
         \A j \in Isolates, e \in Plain :
           (Has(j, e)' => Has(j, e)) /\ (Unique(j, e) => Unique(j, e)')
  PROVE  NoDupInv'
<1>1. Known' /\ Alone'
  BY DEF NoDupInv, Known, Alone
<1>2. \A j \in Isolates : Recovering(j)' => Recovering(j)
  BY DEF Recovering
<1>3. Fresh'
  BY <1>2, FreshKept DEF NoDupInv
<1>. QED
  BY <1>1, <1>3 DEF NoDupInv

LEMMA DequeueCommitNoDup ==
  ASSUME Shaped, NoDupInv, NEW i \in Isolates, NEW b \in batches[i], DequeueCommit(i, b)
  PROVE  NoDupInv'
<1>1. \A j \in Isolates, e \in Plain :
        (Has(j, e)' <=> Has(j, e)) /\ (Unique(j, e) => Unique(j, e)')
  BY DequeueMemory
<1>2. /\ pending' = b.seen \ b.events /\ b.stage = "valid" /\ sent' = sent
      /\ persists' = StaleAll(persists)
  BY DEF DequeueCommit, MayCommit, history
<1>3. Persisting(persists, pending, sent, restarts) /\ BatchShape(b, handled, pending)
  BY ShapedParts DEF Batched
<1>4. pending' \subseteq pending
  BY <1>2, <1>3 DEF BatchShape
<1>5. Fresh'
  BY <1>1, <1>2, <1>3, <1>4, FreshStale, FreshKept DEF NoDupInv
<1>. QED
  BY <1>1, <1>2, <1>5 DEF NoDupInv, Known, Alone

LEMMA PersistReadNoDup ==
  ASSUME Shaped, NoDupInv, NEW i \in Isolates, NEW t \in persists[i], PersistRead(i, t)
  PROVE  NoDupInv'
<1>. DEFINE c == [t EXCEPT !.stage = "valid", !.seen = pending]
<1>1. \A j \in Isolates, e \in Plain :
        (Has(j, e)' <=> Has(j, e)) /\ (Unique(j, e) => Unique(j, e)')
  BY PersistMemory
<1>2. /\ t.op = "add" /\ ~Recovering(i) /\ pending' = pending /\ sent' = sent
      /\ persists' = [persists EXCEPT ![i] = (persists[i] \ {t}) \cup {c}]
  BY DEF PersistRead, history
<1>3. persists \in [Isolates -> SUBSET Persist] /\ t \in Persist
  BY DEF Shaped, TypeOK
<1>4. c.op = t.op /\ c.event = t.event /\ c.stage = "valid"
  BY <1>3 DEF Persist
<1>. HIDE DEF c
<1>5. \A k \in Isolates : \A x \in persists'[k] : x \in persists[k] \/ (k = i /\ x = c)
  BY <1>2, <1>3
<1>6. \A j \in Isolates : Recovering(j)' => Recovering(j)
  BY <1>2, <1>4, <1>5 DEF Recovering
<1>7. Fresh'
  <2>. SUFFICES ASSUME NEW j \in Isolates, NEW e \in Plain, Recovering(j)', Has(j, e)'
                PROVE  /\ e \notin pending'
                       /\ \A k \in Isolates : \A x \in persists'[k] :
                            x.op = "add" /\ x.event = e => k = j /\ x.stage = "read"
    BY DEF Fresh
  <2>1. Recovering(j) /\ Has(j, e)
    BY <1>1, <1>6
  <2>2. /\ e \notin pending
        /\ \A k \in Isolates : \A x \in persists[k] :
             x.op = "add" /\ x.event = e => k = j /\ x.stage = "read"
    BY <2>1 DEF NoDupInv, Fresh
  <2>3. t.event # e
    BY <1>2, <2>1, <2>2
  <2>. QED
    BY <1>2, <1>4, <1>5, <2>2, <2>3
<1>. QED
  BY <1>1, <1>2, <1>7 DEF NoDupInv, Known, Alone

LEMMA RecoverReadNoDup ==
  ASSUME Shaped, NoDupInv, NEW i \in Isolates, NEW t \in persists[i], RecoverRead(i, t)
  PROVE  NoDupInv'
<1>. DEFINE c == [t EXCEPT !.stage = "valid", !.seen = pending]
            C == (persists[i] \ {t}) \cup IF written THEN {c} ELSE {}
<1>1. /\ t.op = "recover" /\ t.stage = "read" /\ pending' = pending /\ sent' = sent
      /\ persists' = [persists EXCEPT ![i] = C]
  BY DEF RecoverRead, history
<1>2. /\ persists \in [Isolates -> SUBSET Persist] /\ t \in Persist /\ pending \subseteq sent
      /\ \A x \in persists[i] : x \in Persist /\ PersistShape(x, pending, sent, restarts)
  BY ShapedParts DEF Persisting
<1>3. c.op = "recover" /\ c.stage = "valid"
  BY <1>1, <1>2 DEF Persist
<1>. HIDE DEF c
<1>4. \A k \in Isolates : \A x \in persists'[k] :
        (x \in persists[k] /\ (k = i => x # t)) \/ (k = i /\ x = c)
  BY <1>1, <1>2, <1>3
<1>5. Recovering(i)
  BY <1>1 DEF Recovering
<1>6. ASSUME NEW x \in persists[i], x.op = "recover", x.stage = "read" PROVE x = t
  <2>1. /\ x.op = t.op /\ x.stage = t.stage
        /\ x.event = t.event /\ x.seen = t.seen
    BY <1>1, <1>2, <1>6 DEF PersistShape
  <2>. QED
    BY <1>2, <2>1 DEF Persist
<1>7. ~Recovering(i)'
  BY <1>3, <1>4, <1>6 DEF Recovering
<1>8. \A j \in Isolates : j # i => persists'[j] = persists[j]
  BY <1>1, <1>2
<1>9. ASSUME NEW j \in Isolates, NEW e \in Plain
      PROVE  /\ Has(j, e)' => Has(j, e) \/ e \in pending
             /\ j # i => (Has(j, e)' <=> Has(j, e))
             /\ Unique(j, e)'
  <2>1. Unique(j, e)
    BY DEF NoDupInv, Alone
  <2>2. j = i /\ e \in pending => ~Has(j, e)
    BY <1>5 DEF NoDupInv, Fresh
  <2>. QED
    BY <2>1, <2>2, RecoverMemory
<1>10. Known' /\ Alone'
  BY <1>1, <1>2, <1>9 DEF NoDupInv, Known, Alone
<1>11. Fresh'
  <2>. SUFFICES ASSUME NEW j \in Isolates, NEW e \in Plain, Recovering(j)', Has(j, e)'
                PROVE  /\ e \notin pending'
                       /\ \A k \in Isolates : \A x \in persists'[k] :
                            x.op = "add" /\ x.event = e => k = j /\ x.stage = "read"
    BY DEF Fresh
  <2>1. j # i
    BY <1>7
  <2>2. Recovering(j) /\ Has(j, e)
    BY <1>8, <1>9, <2>1 DEF Recovering
  <2>3. /\ e \notin pending
        /\ \A k \in Isolates : \A x \in persists[k] :
             x.op = "add" /\ x.event = e => k = j /\ x.stage = "read"
    BY <2>2 DEF NoDupInv, Fresh
  <2>. QED
    BY <1>1, <1>3, <1>4, <2>3
<1>. QED
  BY <1>10, <1>11 DEF NoDupInv

LEMMA PersistCommitNoDup ==
  ASSUME Shaped, NoDupInv, NEW i \in Isolates, NEW t \in persists[i], PersistCommit(i, t)
  PROVE  NoDupInv'
<1>. DEFINE f == [persists EXCEPT ![i] = persists[i] \ {t}]
<1>1. \A j \in Isolates, e \in Plain :
        (Has(j, e)' <=> Has(j, e)) /\ (Unique(j, e) => Unique(j, e)')
  BY PersistMemory
<1>2. /\ persists' = StaleAll(f) /\ sent' = sent /\ t.stage = "valid"
  BY DEF PersistCommit, MayCommit
<1>3. /\ Persisting(persists, pending, sent, restarts) /\ PersistShape(t, pending, sent, restarts)
      /\ persists \in [Isolates -> SUBSET Persist]
  BY ShapedParts DEF Persisting
<1>4. pending' \subseteq pending \cup {t.event} /\ (t.op # "add" => pending' = {})
  BY <1>2, <1>3 DEF PersistCommit, PersistShape
<1>5. Persisting(f, pending, sent, restarts) /\ \A k \in Isolates : f[k] \subseteq persists[k]
  BY <1>3, PersistingUpdate
<1>. HIDE DEF f
<1>6. /\ \A j \in Isolates : Recovering(j)' => Recovering(j)
      /\ \A k \in Isolates : \A x \in persists'[k] : x.op = "add" =>
           \E u \in persists[k] : /\ u.op = "add" /\ u.event = x.event
                                  /\ u.stage = "read" => x.stage = "read"
  BY <1>2, <1>5, FreshStale
<1>7. Fresh'
  <2>. SUFFICES ASSUME NEW j \in Isolates, NEW e \in Plain, Recovering(j)', Has(j, e)'
                PROVE  /\ e \notin pending'
                       /\ \A k \in Isolates : \A x \in persists'[k] :
                            x.op = "add" /\ x.event = e => k = j /\ x.stage = "read"
    BY DEF Fresh
  <2>1. /\ e \notin pending
        /\ \A k \in Isolates : \A x \in persists[k] :
             x.op = "add" /\ x.event = e => k = j /\ x.stage = "read"
    BY <1>1, <1>6 DEF NoDupInv, Fresh
  <2>2. e \notin pending'
    BY <1>2, <1>4, <2>1
  <2>. QED
    BY <1>6, <2>1, <2>2
<1>. QED
  BY <1>1, <1>2, <1>7 DEF NoDupInv, Known, Alone

LEMMA PersistFailNoDup ==
  ASSUME Shaped, NoDupInv, NEW i \in Isolates, NEW t \in persists[i], PersistFail(i, t)
  PROVE  NoDupInv'
<1>1. \A j \in Isolates, e \in Plain :
        (Has(j, e)' <=> Has(j, e)) /\ (Unique(j, e) => Unique(j, e)')
  BY PersistMemory
<1>2. /\ persists' = [persists EXCEPT ![i] = persists[i] \ {t}]
      /\ sent' = sent /\ pending' = pending
      /\ persists \in [Isolates -> SUBSET Persist]
  BY DEF PersistFail, history, Shaped, TypeOK
<1>3. \A k \in Isolates : persists'[k] \subseteq persists[k]
  BY <1>2
<1>4. \A j \in Isolates : Recovering(j)' => Recovering(j)
  BY <1>3 DEF Recovering
<1>5. Fresh'
  BY <1>1, <1>2, <1>3, <1>4, FreshKept DEF NoDupInv
<1>. QED
  BY <1>1, <1>2, <1>5 DEF NoDupInv, Known, Alone

LEMMA RestartNoDup ==
  ASSUME Shaped, NoDupInv, NEW i \in Isolates, Restart(i)
  PROVE  NoDupInv'
<1>. DEFINE c == [op |-> "recover", event |-> Health, stage |-> "read", seen |-> {}]
<1>1. ASSUME NEW j \in Isolates, NEW e \in Plain
      PROVE  /\ Has(j, e)' => Has(j, e) /\ j # i
             /\ Unique(j, e)'
  <2>1. e # Health /\ Unique(j, e)
    BY DEF Plain, NoDupInv, Alone
  <2>. QED
    BY <2>1, RestartMemory
<1>2. /\ sent' = sent /\ pending' = pending
      /\ persists' = [persists EXCEPT ![i] = {c}]
      /\ persists \in [Isolates -> SUBSET Persist]
  BY DEF Restart, Shaped, TypeOK
<1>3. /\ \A j \in Isolates : j # i => persists'[j] = persists[j]
      /\ \A x \in persists'[i] : x.op = "recover"
  BY <1>2
<1>4. Fresh'
  <2>. SUFFICES ASSUME NEW j \in Isolates, NEW e \in Plain, Recovering(j)', Has(j, e)'
                PROVE  /\ e \notin pending'
                       /\ \A k \in Isolates : \A x \in persists'[k] :
                            x.op = "add" /\ x.event = e => k = j /\ x.stage = "read"
    BY DEF Fresh
  <2>1. j # i /\ Has(j, e)
    BY <1>1
  <2>2. Recovering(j)
    BY <1>3, <2>1 DEF Recovering
  <2>3. /\ e \notin pending
        /\ \A k \in Isolates : \A x \in persists[k] :
             x.op = "add" /\ x.event = e => k = j /\ x.stage = "read"
    BY <2>1, <2>2 DEF NoDupInv, Fresh
  <2>. QED
    BY <1>2, <1>3, <2>3
<1>. QED
  BY <1>1, <1>2, <1>4 DEF NoDupInv, Known, Alone

LEMMA NoDupStep ==
  ASSUME Shaped, NoDupInv, [Next]_vars
  PROVE  NoDupInv'
<1>1. CASE UNCHANGED vars
  BY <1>1, StillMemory, QuietNoDup DEF vars
<1>2. CASE Next
  <2>1. PICK i \in Isolates :
          \/ \E e \in Plain : Enqueue(i, e)
          \/ TickStep(i) \/ StoreStep(i)
          \/ Start(i) \/ Stop(i) \/ Pause(i) \/ Resume(i)
          \/ Restart(i)
    BY <1>2 DEF Next, Plain
  <2>2. CASE \E e \in Plain : Enqueue(i, e)
    BY <2>2, EnqueueNoDup
  <2>3. CASE TickStep(i)
    <3>1. CASE \E by \in {"timer", "trigger"} : Tick(i, by)
      <4>1. sent' = sent /\ persists' = persists /\ pending' = pending
        BY <3>1 DEF Tick, history
      <4>. QED
        BY <3>1, <4>1, TickMemory, QuietNoDup
    <3>2. CASE \E b \in batches[i] : \E f \in b.left : Handle(i, b, f)
      <4>0. PICK b \in batches[i] : \E f \in b.left : Handle(i, b, f)
        BY <3>2
      <4>1. PICK f \in b.left : Handle(i, b, f)
        BY <4>0
      <4>2. sent' = sent /\ persists' = persists /\ pending' = pending
        BY <4>1 DEF Handle
      <4>3. ASSUME NEW j \in Isolates, NEW e \in Plain
            PROVE  (Has(j, e)' => Has(j, e)) /\ (Unique(j, e) => Unique(j, e)')
        <5>1. Unique(j, e) /\ e # Health
          BY DEF NoDupInv, Alone, Plain
        <5>. QED
          BY <4>1, <5>1, HandleMemory
      <4>. QED
        BY <4>2, <4>3, QuietNoDup
    <3>3. CASE \E b \in batches[i] : DequeueRead(i, b) \/ DequeueFail(i, b)
      <4>1. sent' = sent /\ persists' = persists /\ pending' = pending
        BY <3>3 DEF DequeueRead, DequeueFail, history
      <4>. QED
        BY <3>3, <4>1, DequeueMemory, QuietNoDup
    <3>4. CASE \E b \in batches[i] : DequeueCommit(i, b)
      BY <3>4, DequeueCommitNoDup
    <3>. QED
      BY <2>3, <3>1, <3>2, <3>3, <3>4 DEF TickStep
  <2>4. CASE StoreStep(i)
    BY <2>4, PersistReadNoDup, RecoverReadNoDup, PersistCommitNoDup, PersistFailNoDup
       DEF StoreStep
  <2>5. CASE Start(i) \/ Stop(i) \/ Pause(i) \/ Resume(i)
    BY <2>5, ControlShaped, StillMemory, QuietNoDup
  <2>6. CASE Restart(i)
    BY <2>6, RestartNoDup
  <2>. QED
    BY <2>1, <2>2, <2>3, <2>4, <2>5, <2>6
<1>. QED
  BY <1>1, <1>2

LEMMA NoDupCounted == NoDupInv => NoDuplicates
<1>. SUFFICES ASSUME NoDupInv, NEW i \in Isolates, NEW e \in Plain
              PROVE  Cardinality(Queued(i, e)) + Cardinality(Running(i, e)) <= 1
  BY DEF NoDuplicates, Plain
<1>1. AtMost(queue[i], batches[i], e)
  BY DEF NoDupInv, Alone, Unique
<1>. QED
  BY <1>1, AtMostCardinality, QueuedRunning

\* Whatever is enqueued while the recovery waits for the store, and whichever
\* transactions commit or fail, no isolate holds an event twice.
THEOREM NothingTwice == Spec => []NoDuplicates
<1>1. Init => Shaped /\ NoDupInv
  BY ShapedInit, NoDupInit
<1>2. Shaped /\ NoDupInv /\ [Next]_vars => (Shaped /\ NoDupInv)'
  BY ShapedInvariance, NoDupStep
<1>3. Shaped /\ NoDupInv => NoDuplicates
  BY NoDupCounted
<1>. QED
  BY <1>1, <1>2, <1>3, PTL DEF Spec

-----------------------------------------------------------------------------
(* What reached the store is not lost by one restart                         *)

\* What the store no longer holds was handled or is in memory; before the first
\* restart the store holds all of it.
SurviveInv ==
  restarts <= 1 =>
    /\ \A e \in persisted : \/ e \in handled \cup pending
                            \/ restarts > 0 /\ \E j \in Isolates : Has(j, e)
    /\ \A i \in Isolates : \A t \in persists[i] :
         t.op = "recover" /\ t.stage = "valid" =>
           \A e \in t.seen : e \in handled \/ \E j \in Isolates : Has(j, e)

\* Steps but a restart forget an event only when its handler has run, and make
\* no transaction of #recover() ready to commit but by its read.
LEMMA Remembered ==
  ASSUME Shaped, [Next]_vars, ~(\E i \in Isolates : Restart(i))
  PROVE  /\ restarts' = restarts /\ handled \subseteq handled'
         /\ \A j \in Isolates : \A e : Has(j, e) => Has(j, e)' \/ e \in handled'
<1>1. CASE UNCHANGED vars
  BY <1>1, StillMemory DEF vars
<1>2. CASE Next
  <2>1. PICK i \in Isolates :
          \/ \E e \in Pulls \cup Others : Enqueue(i, e)
          \/ TickStep(i) \/ StoreStep(i)
          \/ Start(i) \/ Stop(i) \/ Pause(i) \/ Resume(i)
    BY <1>2 DEF Next
  <2>2. CASE \E e \in Pulls \cup Others : Enqueue(i, e)
    <3>1. PICK f \in Pulls \cup Others : Enqueue(i, f)
      BY <2>2
    <3>2. restarts' = restarts /\ handled' = handled /\ batches' = batches
      BY <3>1 DEF Enqueue
    <3>3. ASSUME NEW j \in Isolates, NEW e, Has(j, e) PROVE Has(j, e)'
      <4>1. queue' \in {queue, [queue EXCEPT ![i] = Append(queue[i], f)]}
        BY <3>1 DEF Enqueue
      <4>2. f \in Events /\ queue \in [Isolates -> Seq(Events)]
        BY DEF Shaped, TypeOK, Events
      <4>3. Append(queue[i], f) = queue[i] \o <<f>> /\ <<f>> \in Seq(Events)
        BY <4>2, AppendIsConcat, AtSingle
      <4>4. At(queue[j], e) \subseteq At(queue'[j], e)
        BY <4>1, <4>2, <4>3, AtConcat
      <4>. QED
        BY <3>2, <3>3, <4>4 DEF Has, Some
    <3>. QED
      BY <3>2, <3>3
  <2>3. CASE TickStep(i)
    <3>1. CASE \E by \in {"timer", "trigger"} : Tick(i, by)
      BY <3>1, TickMemory DEF Tick, history
    <3>2. CASE \E b \in batches[i] : \E f \in b.left : Handle(i, b, f)
      <4>0. PICK b \in batches[i] : \E f \in b.left : Handle(i, b, f)
        BY <3>2
      <4>1. PICK f \in b.left : Handle(i, b, f)
        BY <4>0
      <4>2. restarts' = restarts /\ handled' = handled \cup {f}
        BY <4>1 DEF Handle
      <4>. QED
        BY <4>1, <4>2, HandleMemory
    <3>3. CASE \E b \in batches[i] :
                 DequeueRead(i, b) \/ DequeueCommit(i, b) \/ DequeueFail(i, b)
      BY <3>3, DequeueMemory DEF DequeueRead, DequeueCommit, DequeueFail, history
    <3>. QED
      BY <2>3, <3>1, <3>2, <3>3 DEF TickStep
  <2>4. CASE StoreStep(i)
    <3>1. CASE \E t \in persists[i] : RecoverRead(i, t)
      BY <3>1, RecoverMemory DEF RecoverRead, history
    <3>2. CASE \E t \in persists[i] :
                 PersistRead(i, t) \/ PersistCommit(i, t) \/ PersistFail(i, t)
      BY <3>2, PersistMemory DEF PersistRead, PersistCommit, PersistFail, history
    <3>. QED
      BY <2>4, <3>1, <3>2 DEF StoreStep
  <2>5. CASE Start(i) \/ Stop(i) \/ Pause(i) \/ Resume(i)
    BY <2>5, ControlShaped, StillMemory
  <2>. QED
    BY <2>1, <2>2, <2>3, <2>4, <2>5
<1>. QED
  BY <1>1, <1>2

\* A step that leaves the store's list and the transactions of #recover() alone.
LEMMA QuietSurvive ==
  ASSUME Shaped, SurviveInv, [Next]_vars, ~(\E i \in Isolates : Restart(i)),
         pending \subseteq pending' \cup handled', persisted' \subseteq persisted \cup pending',
         \A i \in Isolates : \A t \in persists'[i] :
           t.op = "recover" /\ t.stage = "valid" => t \in persists[i]
  PROVE  SurviveInv'
BY Remembered DEF SurviveInv

LEMMA RecoverReadSurvive ==
  ASSUME Shaped, SurviveInv, NEW i \in Isolates, NEW t \in persists[i], RecoverRead(i, t)
  PROVE  SurviveInv'
<1>. DEFINE c == [t EXCEPT !.stage = "valid", !.seen = pending]
            C == (persists[i] \ {t}) \cup IF written THEN {c} ELSE {}
<1>1. /\ persists' = [persists EXCEPT ![i] = C]
      /\ UNCHANGED <<pending, persisted, handled, restarts>>
  BY DEF RecoverRead, history
<1>2. persists \in [Isolates -> SUBSET Persist] /\ t \in Persist
  BY DEF Shaped, TypeOK
<1>3. c.seen = pending
  BY <1>2 DEF Persist
<1>. HIDE DEF c
<1>4. \A k \in Isolates : \A x \in persists'[k] : x \in persists[k] \/ x = c
  BY <1>1, <1>2
<1>5. /\ \A e \in pending : Has(i, e)'
      /\ \A j \in Isolates : \A e : Has(j, e) => Has(j, e)'
  BY RecoverMemory
<1>. QED
  BY <1>1, <1>3, <1>4, <1>5 DEF SurviveInv

LEMMA PersistCommitSurvive ==
  ASSUME Shaped, SurviveInv, NEW i \in Isolates, NEW t \in persists[i], PersistCommit(i, t)
  PROVE  SurviveInv'
<1>. DEFINE f == [persists EXCEPT ![i] = persists[i] \ {t}]
<1>1. /\ persists' = StaleAll(f) /\ handled' = handled /\ restarts' = restarts
      /\ t.stage = "valid"
  BY DEF PersistCommit, MayCommit
<1>2. /\ Persisting(persists, pending, sent, restarts) /\ PersistShape(t, pending, sent, restarts)
      /\ t \in Persist
  BY ShapedParts DEF Persisting
<1>3. Persisting(f, pending, sent, restarts)
  BY <1>2, PersistingUpdate
<1>. HIDE DEF f
<1>4. ASSUME NEW k \in Isolates, NEW x \in persists'[k] PROVE x.stage # "valid"
  <2>1. persists'[k] = {Stale(u) : u \in f[k]} /\ f[k] \subseteq Persist
    BY <1>1, <1>3, PersistingStale DEF Persisting
  <2>. QED
    BY <2>1, StalePersist
<1>5. \A j \in Isolates : \A e : Has(j, e) => Has(j, e)'
  BY PersistMemory
<1>6. CASE t.op = "add"
  <2>1. pending' = pending \cup {t.event} /\ persisted' = persisted \cup {t.event}
    BY <1>1, <1>2, <1>6 DEF PersistCommit, PersistShape
  <2>. QED
    BY <1>1, <1>4, <1>5, <2>1 DEF SurviveInv
<1>7. CASE t.op = "recover"
  <2>1. pending' = {} /\ persisted' = persisted /\ t.seen = pending /\ restarts > 0
    BY <1>1, <1>2, <1>7 DEF PersistCommit, PersistShape
  <2>2. restarts <= 1 =>
          \A e \in pending : e \in handled \/ \E j \in Isolates : Has(j, e)
    BY <1>1, <1>7, <2>1 DEF SurviveInv
  <2>. QED
    BY <1>1, <1>4, <1>5, <2>1, <2>2 DEF SurviveInv
<1>. QED
  BY <1>2, <1>6, <1>7 DEF Persist

LEMMA DequeueCommitSurvive ==
  ASSUME Shaped, SurviveInv, NEW i \in Isolates, NEW b \in batches[i], DequeueCommit(i, b)
  PROVE  SurviveInv'
<1>1. /\ persists' = StaleAll(persists) /\ pending' = b.seen \ b.events
      /\ b.stage = "valid" /\ UNCHANGED <<persisted, handled, restarts>>
  BY DEF DequeueCommit, MayCommit, history
<1>2. /\ Persisting(persists, pending, sent, restarts) /\ BatchShape(b, handled, pending)
  BY ShapedParts DEF Batched
<1>3. pending \subseteq pending' \cup handled'
  BY <1>1, <1>2 DEF BatchShape
<1>4. ASSUME NEW k \in Isolates, NEW x \in persists'[k] PROVE x.stage # "valid"
  <2>1. persists'[k] = {Stale(u) : u \in persists[k]} /\ persists[k] \subseteq Persist
    BY <1>1, <1>2, PersistingStale DEF Persisting
  <2>. QED
    BY <2>1, StalePersist
<1>5. \A j \in Isolates : \A e : Has(j, e) => Has(j, e)'
  BY DequeueMemory
<1>. QED
  BY <1>1, <1>3, <1>4, <1>5 DEF SurviveInv

\* The first restart finds in the store what has not been handled.
LEMMA RestartSurvive ==
  ASSUME Shaped, SurviveInv, NEW i \in Isolates, Restart(i)
  PROVE  SurviveInv'
<1>. DEFINE c == [op |-> "recover", event |-> Health, stage |-> "read", seen |-> {}]
<1>1. /\ restarts' = restarts + 1 /\ persists' = [persists EXCEPT ![i] = {c}]
      /\ UNCHANGED <<pending, persisted, handled>>
  BY DEF Restart
<1>2. /\ restarts \in Nat /\ persists \in [Isolates -> SUBSET Persist]
      /\ \A k \in Isolates : \A x \in persists[k] : x.op = "recover" => restarts > 0
  BY ShapedParts DEF Rest, Persisting, PersistShape
<1>3. SUFFICES ASSUME restarts' <= 1 PROVE SurviveInv'
  BY DEF SurviveInv
<1>4. restarts = 0
  BY <1>1, <1>2, <1>3
<1>5. \A e \in persisted : e \in handled \cup pending
  BY <1>4 DEF SurviveInv
<1>6. \A k \in Isolates : \A x \in persists'[k] : x.op = "recover" => x.stage = "read"
  BY <1>1, <1>2, <1>4
<1>. QED
  BY <1>1, <1>5, <1>6 DEF SurviveInv

LEMMA SurviveStep ==
  ASSUME Shaped, SurviveInv, [Next]_vars
  PROVE  SurviveInv'
<1>1. CASE \E i \in Isolates : Restart(i)
  BY <1>1, RestartSurvive
<1>2. CASE UNCHANGED vars /\ ~(\E i \in Isolates : Restart(i))
  BY <1>2, QuietSurvive DEF vars
<1>3. CASE Next /\ ~(\E i \in Isolates : Restart(i))
  <2>1. PICK i \in Isolates :
          \/ \E e \in Pulls \cup Others : Enqueue(i, e)
          \/ TickStep(i) \/ StoreStep(i)
          \/ Start(i) \/ Stop(i) \/ Pause(i) \/ Resume(i)
    BY <1>3 DEF Next
  <2>. DEFINE Quiet == /\ pending' = pending /\ persisted' = persisted
                       /\ \A k \in Isolates : \A x \in persists'[k] :
                            x.op = "recover" /\ x.stage = "valid" => x \in persists[k]
  <2>2. persists \in [Isolates -> SUBSET Persist]
    BY DEF Shaped, TypeOK
  <2>3. CASE \E e \in Pulls \cup Others : Enqueue(i, e)
    <3>1. PICK e \in Pulls \cup Others : Enqueue(i, e)
      BY <2>3
    <3>. DEFINE c == [op |-> "add", event |-> e, stage |-> "read", seen |-> {}]
    <3>2. /\ pending' = pending /\ persisted' = persisted
          /\ persists' \in {persists, [persists EXCEPT ![i] = persists[i] \cup {c}]}
      BY <3>1 DEF Enqueue
    <3>3. c.op = "add"
      OBVIOUS
    <3>. HIDE DEF c
    <3>4. Quiet
      BY <2>2, <3>2, <3>3
    <3>. QED
      BY <1>3, <3>4, QuietSurvive
  <2>4. CASE TickStep(i)
    <3>1. CASE \E b \in batches[i] : DequeueCommit(i, b)
      BY <3>1, DequeueCommitSurvive
    <3>2. CASE ~(\E b \in batches[i] : DequeueCommit(i, b))
      <4>1. pending' = pending /\ persisted' = persisted /\ persists' = persists
        BY <2>4, <3>2 DEF TickStep, Tick, Handle, DequeueRead, DequeueFail, history
      <4>. QED
        BY <1>3, <4>1, QuietSurvive
    <3>. QED
      BY <3>1, <3>2
  <2>5. CASE StoreStep(i)
    <3>1. PICK t \in persists[i] : \/ PersistRead(i, t) \/ RecoverRead(i, t)
                                   \/ PersistCommit(i, t) \/ PersistFail(i, t)
      BY <2>5 DEF StoreStep
    <3>2. CASE PersistRead(i, t)
      <4>. DEFINE c == [t EXCEPT !.stage = "valid", !.seen = pending]
      <4>1. /\ pending' = pending /\ persisted' = persisted /\ t.op = "add" /\ t \in Persist
            /\ persists' = [persists EXCEPT ![i] = (persists[i] \ {t}) \cup {c}]
        BY <2>2, <3>2 DEF PersistRead, history
      <4>2. c.op = "add"
        BY <4>1 DEF Persist
      <4>. HIDE DEF c
      <4>3. Quiet
        BY <2>2, <4>1, <4>2
      <4>. QED
        BY <1>3, <4>3, QuietSurvive
    <3>3. CASE PersistFail(i, t)
      <4>1. Quiet
        BY <2>2, <3>3 DEF PersistFail, history
      <4>. QED
        BY <1>3, <4>1, QuietSurvive
    <3>. QED
      BY <3>1, <3>2, <3>3, RecoverReadSurvive, PersistCommitSurvive
  <2>6. CASE Start(i) \/ Stop(i) \/ Pause(i) \/ Resume(i)
    <3>1. Quiet
      BY <2>6, ControlShaped
    <3>. QED
      BY <1>3, <3>1, QuietSurvive
  <2>. QED
    BY <2>1, <2>3, <2>4, <2>5, <2>6
<1>. QED
  BY <1>1, <1>2, <1>3

\* As long as no second restart happened, an event that reached the store is
\* handled, stored or in memory; after a second one EventLoop_restart shows that
\* it need not be.
THEOREM OneRestartSurvived == Spec => [](restarts <= 1 => PersistedSurvive)
<1>1. Init => Shaped /\ SurviveInv
  BY ShapedInit DEF Init, SurviveInv
<1>2. Shaped /\ SurviveInv /\ [Next]_vars => (Shaped /\ SurviveInv)'
  BY ShapedInvariance, SurviveStep
<1>3. Shaped /\ SurviveInv => (restarts <= 1 => PersistedSurvive)
  BY QueuedRunning DEF SurviveInv, PersistedSurvive, Has
<1>. QED
  BY <1>1, <1>2, <1>3, PTL DEF Spec

-----------------------------------------------------------------------------
(* One batch at a time, without the timer                                    *)

BatchInv ==
  \A j \in Isolates : /\ Once(batches[j])
                      /\ \A b \in batches[j] : b.by = "trigger"
                      /\ ticking[j] <=> batches[j] # {}

LEMMA QuietBatch ==
  ASSUME BatchInv, UNCHANGED <<batches, ticking>>
  PROVE  BatchInv'
BY DEF BatchInv

LEMMA StaleBatches ==
  ASSUME BatchInv, Shaped, NEW f, Batched(f, handled, pending), batches' = StaleAll(f),
         \A j \in Isolates : f[j] \subseteq batches[j],
         \A j \in Isolates : ticking'[j] <=> f[j] # {}
  PROVE  BatchInv'
<1>. SUFFICES ASSUME NEW j \in Isolates
              PROVE  /\ Once(batches'[j])
                     /\ \A b \in batches'[j] : b.by = "trigger"
                     /\ ticking'[j] <=> batches'[j] # {}
  BY DEF BatchInv
<1>1. batches'[j] = {Stale(b) : b \in f[j]} /\ f[j] \subseteq Batch
  BY BatchedStale DEF Batched
<1>2. Once(batches[j]) /\ \A b \in batches[j] : b.by = "trigger"
  BY DEF BatchInv
<1>3. Once(batches'[j])
  BY <1>1, <1>2 DEF Once
<1>4. \A b \in batches'[j] : b.by = "trigger"
  BY <1>1, <1>2, StaleBatch
<1>5. ticking'[j] <=> batches'[j] # {}
  BY <1>1
<1>. QED
  BY <1>3, <1>4, <1>5

LEMMA BatchUpdate ==
  ASSUME BatchInv, Shaped, NEW i \in Isolates, NEW C, NEW f \in BOOLEAN,
         batches' = [batches EXCEPT ![i] = C], ticking' = [ticking EXCEPT ![i] = f],
         Once(C), \A c \in C : c.by = "trigger", f <=> C # {}
  PROVE  BatchInv'
<1>1. /\ batches \in [Isolates -> SUBSET Batch] /\ ticking \in [Isolates -> BOOLEAN]
  BY DEF Shaped, TypeOK
<1>2. /\ batches'[i] = C /\ ticking'[i] = f
      /\ \A j \in Isolates : j # i => batches'[j] = batches[j] /\ ticking'[j] = ticking[j]
  BY <1>1
<1>. QED
  BY <1>2 DEF BatchInv

LEMMA BatchReplaced ==
  ASSUME BatchInv, Shaped, NEW i \in Isolates, NEW b \in batches[i], NEW c, c.by = b.by,
         batches' = [batches EXCEPT ![i] = (batches[i] \ {b}) \cup {c}], ticking' = ticking
  PROVE  BatchInv'
<1>1. /\ batches \in [Isolates -> SUBSET Batch] /\ ticking \in [Isolates -> BOOLEAN]
  BY DEF Shaped, TypeOK
<1>2. batches[i] = {b} /\ b.by = "trigger"
  BY DEF BatchInv, Once
<1>3. /\ batches'[i] = {c}
      /\ \A j \in Isolates : j # i => batches'[j] = batches[j]
  BY <1>1, <1>2
<1>. QED
  BY <1>2, <1>3 DEF BatchInv, Once

LEMMA BatchStep ==
  ASSUME ~Timer, Shaped, BatchInv, [Next]_vars
  PROVE  BatchInv'
<1>1. CASE UNCHANGED vars
  BY <1>1, QuietBatch DEF vars
<1>2. CASE Next
  <2>0. /\ batches \in [Isolates -> SUBSET Batch] /\ ticking \in [Isolates -> BOOLEAN]
    BY DEF Shaped, TypeOK
  <2>1. PICK i \in Isolates :
          \/ \E e \in Pulls \cup Others : Enqueue(i, e)
          \/ TickStep(i) \/ StoreStep(i)
          \/ Start(i) \/ Stop(i) \/ Pause(i) \/ Resume(i)
          \/ Restart(i)
    BY <1>2 DEF Next
  <2>2. CASE \E e \in Pulls \cup Others : Enqueue(i, e)
    BY <2>2, QuietBatch DEF Enqueue, control
  <2>3. CASE TickStep(i)
    <3>1. CASE \E by \in {"timer", "trigger"} : Tick(i, by)
      <4>1. PICK by \in {"timer", "trigger"} : Tick(i, by)
        BY <3>1
      <4>. DEFINE batch == ToSet(SubSeq(queue[i], 1, Limit(i)))
                  c == [by |-> by, events |-> batch, left |-> batch,
                        stage |-> "dispatch", seen |-> {}]
      <4>2. by = "trigger" /\ ~ticking[i]
        BY <4>1 DEF Tick, MayTick
      <4>3. /\ batches' = [batches EXCEPT ![i] = batches[i] \cup {c}]
            /\ ticking' = [ticking EXCEPT ![i] = TRUE]
        BY <4>1, <4>2 DEF Tick
      <4>4. c.by = "trigger"
        BY <4>2
      <4>. HIDE DEF c
      <4>5. batches[i] = {}
        BY <4>2 DEF BatchInv
      <4>6. /\ Once(batches[i] \cup {c})
            /\ \A x \in batches[i] \cup {c} : x.by = "trigger"
            /\ batches[i] \cup {c} # {}
        BY <4>4, <4>5 DEF Once
      <4>. QED
        BY <4>3, <4>6, BatchUpdate
    <3>2. CASE \E b \in batches[i] : \E f \in b.left : Handle(i, b, f)
      <4>1. PICK b \in batches[i] : \E f \in b.left : Handle(i, b, f)
        BY <3>2
      <4>2. PICK f \in b.left : Handle(i, b, f)
        BY <4>1
      <4>. DEFINE c == [b EXCEPT !.left = b.left \ {f},
                                 !.stage = IF b.left = {f} THEN "read" ELSE b.stage]
      <4>3. /\ batches' = [batches EXCEPT ![i] = (batches[i] \ {b}) \cup {c}]
            /\ ticking' = ticking
        BY <4>2 DEF Handle, control
      <4>4. c.by = b.by
        BY <2>0 DEF Batch
      <4>. HIDE DEF c
      <4>. QED
        BY <4>3, <4>4, BatchReplaced
    <3>3. CASE \E b \in batches[i] : DequeueRead(i, b)
      <4>1. PICK b \in batches[i] : DequeueRead(i, b)
        BY <3>3
      <4>. DEFINE c == [b EXCEPT !.stage = "valid", !.seen = pending]
      <4>3. /\ batches' = [batches EXCEPT ![i] = (batches[i] \ {b}) \cup {c}]
            /\ ticking' = ticking
        BY <4>1 DEF DequeueRead, control
      <4>4. c.by = b.by
        BY <2>0 DEF Batch
      <4>. HIDE DEF c
      <4>. QED
        BY <4>3, <4>4, BatchReplaced
    <3>4. CASE \E b \in batches[i] : DequeueCommit(i, b) \/ DequeueFail(i, b)
      <4>1. PICK b \in batches[i] : DequeueCommit(i, b) \/ DequeueFail(i, b)
        BY <3>4
      <4>. DEFINE f == [batches EXCEPT ![i] = batches[i] \ {b}]
      <4>2. b.by = "trigger" /\ batches[i] \ {b} = {}
        BY DEF BatchInv, Once
      <4>3. ticking' = [ticking EXCEPT ![i] = FALSE]
        BY <4>1, <4>2 DEF DequeueCommit, DequeueFail, EndTick
      <4>4. CASE DequeueFail(i, b)
        <5>1. batches' = [batches EXCEPT ![i] = {}]
          BY <4>2, <4>4 DEF DequeueFail
        <5>. QED
          BY <4>3, <5>1, BatchUpdate DEF Once
      <4>5. CASE DequeueCommit(i, b)
        <5>1. batches' = StaleAll(f)
          BY <4>5 DEF DequeueCommit
        <5>2. Batched(f, handled, pending)
          BY ShapedParts, BatchedUpdate
        <5>3. /\ f[i] = {} /\ ~ticking'[i]
              /\ \A j \in Isolates : j # i => f[j] = batches[j] /\ ticking'[j] = ticking[j]
          BY <2>0, <4>2, <4>3
        <5>. HIDE DEF f
        <5>4. \A j \in Isolates : /\ f[j] \subseteq batches[j]
                                  /\ ticking'[j] <=> f[j] # {}
          BY <5>3 DEF BatchInv
        <5>. QED
          BY <5>1, <5>2, <5>4, StaleBatches
      <4>. QED
        BY <4>1, <4>4, <4>5
    <3>. QED
      BY <2>3, <3>1, <3>2, <3>3, <3>4 DEF TickStep
  <2>4. CASE StoreStep(i)
    <3>1. CASE \E t \in persists[i] : PersistCommit(i, t)
      <4>1. batches' = StaleAll(batches) /\ ticking' = ticking
        BY <3>1 DEF PersistCommit, control
      <4>. QED
        BY <4>1, ShapedParts, StaleBatches DEF BatchInv
    <3>2. CASE \E t \in persists[i] :
                 PersistRead(i, t) \/ RecoverRead(i, t) \/ PersistFail(i, t)
      BY <3>2, QuietBatch DEF PersistRead, RecoverRead, PersistFail, control
    <3>. QED
      BY <2>4, <3>1, <3>2 DEF StoreStep
  <2>5. CASE Start(i) \/ Stop(i) \/ Pause(i) \/ Resume(i)
    BY <2>5, ControlShaped, QuietBatch
  <2>6. CASE Restart(i)
    <3>1. batches' = [batches EXCEPT ![i] = {}] /\ ticking' = [ticking EXCEPT ![i] = FALSE]
      BY <2>6 DEF Restart
    <3>. QED
      BY <3>1, BatchUpdate DEF Once
  <2>. QED
    BY <2>1, <2>2, <2>3, <2>4, <2>5, <2>6
<1>. QED
  BY <1>1, <1>2

LEMMA BatchCounted ==
  ASSUME Shaped, BatchInv
  PROVE  OneBatch
<1>1. TypeOK
  BY DEF Shaped
<1>2. ASSUME NEW i \in Isolates
      PROVE  /\ Cardinality(batches[i]) <= 1
             /\ ticking[i] <=> \E b \in batches[i] : b.by = "trigger"
  <2>1. /\ Once(batches[i])
        /\ \A b \in batches[i] : b.by = "trigger"
        /\ ticking[i] <=> batches[i] # {}
    BY DEF BatchInv
  <2>2. Cardinality(batches[i]) <= 1
    BY <2>1, OnceCardinality
  <2>3. ticking[i] <=> \E b \in batches[i] : b.by = "trigger"
    BY <2>1
  <2>. QED
    BY <2>2, <2>3
<1>. QED
  BY <1>1, <1>2 DEF OneBatch

\* In a Worker, whose loop has no timer of its own, the guard of triggerTick()
\* is set exactly while the one batch there is is processed.  The setInterval
\* backend does not look at the guard: there several batches overlap.
THEOREM BatchesOneByOne ==
  ASSUME ~Timer
  PROVE  Spec => []OneBatch
<1>1. Init => Shaped /\ BatchInv
  <2>1. Init => BatchInv
    BY DEF Init, BatchInv, Once
  <2>. QED
    BY <2>1, ShapedInit
<1>2. Shaped /\ BatchInv /\ [Next]_vars => (Shaped /\ BatchInv)'
  BY ShapedInvariance, BatchStep
<1>3. Shaped /\ BatchInv => OneBatch
  BY BatchCounted
<1>. QED
  BY <1>1, <1>2, <1>3, PTL DEF Spec
=============================================================================
