--------------------------- MODULE PlatformProofs ---------------------------
(***************************************************************************)
(* What MCPlatform checks of the ring buffer, of the file store and of the *)
(* timer, for all values, capacities, callers, keys, transactions and      *)
(* intervals.                                                              *)
(***************************************************************************)
EXTENDS RingQueue, FileStore, AlarmTimer, SequenceTheorems, TLAPS

-----------------------------------------------------------------------------
(* The ring buffer is the queue it promises to be. The invariant speaks of *)
(* positions without the remainder: a position wraps at most once (Wrap).  *)

\* Where the i-th slot after h is in a ring of c slots.
Pos(c, h, i) == IF h + i < c THEN h + i ELSE h + i - c

LEMMA Wrap ==
  ASSUME NEW c \in Nat \ {0}, NEW h \in 0 .. c - 1, NEW i \in 0 .. c
  PROVE  (h + i) % c = Pos(c, h, i)
<1>1. CASE h + i < c
  BY <1>1 DEF Pos
<1>2. CASE h + i >= c
  BY <1>2 DEF Pos
<1>. QED
  BY <1>1, <1>2

LEMMA InRing ==
  ASSUME NEW c \in Nat \ {0}, NEW h \in 0 .. c - 1, NEW i \in 0 .. c
  PROVE  Pos(c, h, i) \in 0 .. c - 1
BY DEF Pos

\* One place forward and one place back.
LEMMA Forward ==
  ASSUME NEW c \in Nat \ {0}, NEW h \in 0 .. c - 1
  PROVE  (h + 1) % c = Pos(c, h, 1) /\ Pos(c, h, 1) \in 0 .. c - 1
<1>1. 1 \in 0 .. c
  OBVIOUS
<1>. QED
  BY <1>1, Wrap, InRing

LEMMA Back ==
  ASSUME NEW c \in Nat \ {0}, NEW h \in 0 .. c - 1
  PROVE  (h - 1 + c) % c = Pos(c, h, c - 1) /\ Pos(c, h, c - 1) \in 0 .. c - 1
<1>1. c - 1 \in 0 .. c /\ h - 1 + c = h + (c - 1)
  OBVIOUS
<1>2. (h + (c - 1)) % c = Pos(c, h, c - 1)
  BY <1>1, Wrap
<1>. QED
  BY <1>1, <1>2, InRing

\* The part of WellFormed that is inductive.
Ring == /\ TypeOK
        /\ tail = Pos(capacity, head, size)
        /\ \A i \in 0 .. capacity - 1 : (buffer[Pos(capacity, head, i)] \in Element) <=> (i < size)

\* The slots of a well-formed ring.
LEMMA Slots ==
  ASSUME TypeOK, NEW i \in 0 .. capacity
  PROVE  Slot(i) = Pos(capacity, head, i)
BY Wrap DEF TypeOK, Slot

LEMMA InitRing == Init => Ring
BY RingAssumption DEF Init, Empty, Ring, TypeOK, Pos

\* Putting a value at the tail of a ring that has room for it.
LEMMA PlaceRing ==
  ASSUME NEW c \in Nat \ {0}, NEW n \in 0 .. c - 1, NEW h \in 0 .. c - 1, NEW v \in Element,
         NEW b \in [0 .. c - 1 -> Element \cup {Undefined}],
         \A i \in 0 .. c - 1 : (b[Pos(c, h, i)] \in Element) <=> (i < n),
         fixed \in BOOLEAN, size = n,
         Place(b, h, Pos(c, h, n), c, v)
  PROVE  Ring'
<1>. DEFINE t == Pos(c, h, n)
<1>1. t \in 0 .. c - 1 /\ (t + 1) % c = Pos(c, t, 1) /\ Pos(c, t, 1) \in 0 .. c - 1
  <2>1. t \in 0 .. c - 1
    BY InRing
  <2>. HIDE DEF t
  <2>. QED
    BY <2>1, Forward
<1>2. Pos(c, t, 1) = Pos(c, h, n + 1)
  BY DEF Pos
<1>3. buffer' = [b EXCEPT ![t] = v] /\ head' = h /\ tail' = Pos(c, h, n + 1)
        /\ capacity' = c /\ size' = n + 1 /\ fixed' = fixed
  BY <1>1, <1>2 DEF Place
<1>4. TypeOK'
  BY <1>1, <1>2, <1>3 DEF TypeOK
<1>5. ASSUME NEW i \in 0 .. c - 1
      PROVE  (buffer'[Pos(c, h, i)] \in Element) <=> (i < n + 1)
  BY <1>1, <1>3 DEF Pos
<1>. QED
  BY <1>3, <1>4, <1>5 DEF Ring

LEMMA RoomRing ==
  ASSUME Ring, NEW v \in Element, EnqueueRoom(v)
  PROVE  Ring'
BY SMTT(40), PlaceRing DEF Ring, TypeOK, EnqueueRoom

LEMMA GrownRing ==
  ASSUME Ring, NEW v \in Element, EnqueueGrown(v)
  PROVE  Ring'
<1>. DEFINE c == 2 * capacity
<1>1. c \in Nat \ {0} /\ size \in 0 .. c - 1 /\ 0 \in 0 .. c - 1 /\ fixed \in BOOLEAN
  BY DEF Ring, TypeOK, EnqueueGrown
<1>2. resize \in [0 .. c - 1 -> Element \cup {Undefined}]
  BY <1>1, Slots DEF Ring, TypeOK, resize, Pos
<1>3. \A i \in 0 .. c - 1 : Pos(c, 0, i) = i
  BY <1>1 DEF Pos
<1>4. ASSUME NEW i \in 0 .. c - 1
      PROVE  (resize[Pos(c, 0, i)] \in Element) <=> (i < size)
  BY <1>3, <1>4, Slots, RingAssumption DEF Ring, TypeOK, resize, EnqueueGrown
<1>5. Place(resize, 0, Pos(c, 0, size), c, v)
  BY <1>1, <1>3 DEF EnqueueGrown
<1>. HIDE DEF c
<1>. QED
  BY <1>1, <1>2, <1>4, <1>5, PlaceRing

LEMMA DequeueRing ==
  ASSUME Ring, dequeue
  PROVE  Ring'
<1>1. head' = Pos(capacity, head, 1) /\ head' \in 0 .. capacity - 1
  BY Forward DEF Ring, TypeOK, dequeue
<1>2. TypeOK'
  BY <1>1 DEF Ring, TypeOK, dequeue
<1>3. tail' = Pos(capacity, head', size')
  BY <1>1 DEF Ring, TypeOK, dequeue, Pos
<1>4. ASSUME NEW i \in 0 .. capacity - 1
      PROVE  (buffer'[Pos(capacity, head', i)] \in Element) <=> (i < size')
  <2>1. CASE i = capacity - 1
    BY <1>1, <2>1, RingAssumption DEF Ring, TypeOK, dequeue, Pos
  <2>2. CASE i < capacity - 1
    <3>1. Pos(capacity, head', i) = Pos(capacity, head, i + 1) /\ Pos(capacity, head, i + 1) # head
      BY <1>1, <2>2 DEF Ring, TypeOK, Pos
    <3>2. Pos(capacity, head, i + 1) \in 0 .. capacity - 1
      BY <2>2 DEF Ring, TypeOK, Pos
    <3>. QED
      BY <2>2, <3>1, <3>2 DEF Ring, TypeOK, dequeue
  <2>. QED
    BY <2>1, <2>2 DEF Ring, TypeOK
<1>. QED
  BY <1>2, <1>3, <1>4 DEF Ring, dequeue

LEMMA DequeueTailRing ==
  ASSUME Ring, dequeueTail
  PROVE  Ring'
<1>1. LastSlot = Pos(capacity, head, size - 1) /\ LastSlot \in 0 .. capacity - 1
  <2>1. LastSlot = Pos(capacity, tail, capacity - 1) /\ LastSlot \in 0 .. capacity - 1
    BY Back DEF Ring, TypeOK, LastSlot
  <2>. QED
    BY <2>1 DEF Ring, TypeOK, dequeueTail, Pos
<1>2. TypeOK'
  BY <1>1 DEF Ring, TypeOK, dequeueTail
<1>3. ASSUME NEW i \in 0 .. capacity - 1
      PROVE  (buffer'[Pos(capacity, head, i)] \in Element) <=> (i < size - 1)
  <2>1. Pos(capacity, head, i) \in 0 .. capacity - 1
    BY DEF Ring, TypeOK, Pos
  <2>2. CASE i = size - 1
    BY <1>1, <2>1, <2>2, RingAssumption DEF Ring, TypeOK, dequeueTail
  <2>3. CASE i # size - 1
    <3>1. Pos(capacity, head, i) # Pos(capacity, head, size - 1)
      BY <2>3 DEF Ring, TypeOK, dequeueTail, Pos
    <3>. QED
      BY <1>1, <2>1, <2>3, <3>1 DEF Ring, TypeOK, dequeueTail
  <2>. QED
    BY <2>2, <2>3
<1>. QED
  BY <1>1, <1>2, <1>3 DEF Ring, dequeueTail

LEMMA RotateRing ==
  ASSUME Ring, rotate
  PROVE  Ring'
<1>. DEFINE freed == [buffer EXCEPT ![head] = Undefined]
<1>1. head' = Pos(capacity, head, 1) /\ head' \in 0 .. capacity - 1
  BY Forward DEF Ring, TypeOK, rotate
<1>2. tail' = Pos(capacity, tail, 1) /\ tail' \in 0 .. capacity - 1
  BY Forward DEF Ring, TypeOK, rotate
<1>3. tail' = Pos(capacity, head', size)
  BY <1>1, <1>2 DEF Ring, TypeOK, rotate, Pos
<1>4. buffer[head] \in Element
  <2>1. 0 \in 0 .. capacity - 1 /\ 0 < size /\ Pos(capacity, head, 0) = head
    BY DEF Ring, TypeOK, rotate, Pos
  <2>. QED
    BY <2>1 DEF Ring
<1>5. TypeOK'
  BY <1>1, <1>2, <1>4 DEF Ring, TypeOK, rotate
<1>6. ASSUME NEW i \in 0 .. capacity - 1
      PROVE  (buffer'[Pos(capacity, head', i)] \in Element) <=> (i < size)
  <2>1. Pos(capacity, head', i) = (IF i = capacity - 1 THEN head ELSE Pos(capacity, head, i + 1))
    BY <1>1 DEF Ring, TypeOK, Pos
  <2>2. Pos(capacity, head', i) = tail <=> i = size - 1
    BY <1>1 DEF Ring, TypeOK, rotate, Pos
  <2>3. Pos(capacity, head', i) \in 0 .. capacity - 1
    BY <1>1 DEF Ring, TypeOK, Pos
  <2>4. Pos(capacity, head', i) = head <=> i = capacity - 1
    BY <1>1 DEF Ring, TypeOK, Pos
  <2>. QED
    BY SMTT(40), <1>4, <2>1, <2>2, <2>3, <2>4, RingAssumption DEF Ring, TypeOK, rotate
<1>. QED
  BY <1>3, <1>5, <1>6 DEF Ring, rotate

LEMMA ClearRing ==
  ASSUME Ring, clear
  PROVE  Ring'
BY RingAssumption DEF Ring, TypeOK, clear, Empty, Pos

LEMMA NextRing == Ring /\ [Next]_vars => Ring'
<1>. SUFFICES ASSUME Ring, [Next]_vars PROVE Ring'
  OBVIOUS
<1>1. ASSUME NEW v \in Element, EnqueueRoom(v) PROVE Ring'
  BY <1>1, RoomRing
<1>2. ASSUME NEW v \in Element, EnqueueGrown(v) PROVE Ring'
  BY <1>2, GrownRing
<1>3. CASE UNCHANGED vars
  BY <1>3 DEF Ring, TypeOK, vars
<1>4. ASSUME NEW v \in Element, EnqueueRefused(v) PROVE Ring'
  BY <1>3, <1>4 DEF EnqueueRefused
<1>5. CASE dequeue
  BY <1>5, DequeueRing
<1>6. CASE dequeueTail
  BY <1>6, DequeueTailRing
<1>7. CASE rotate
  BY <1>7, RotateRing
<1>8. CASE clear
  BY <1>8, ClearRing
<1>. QED
  BY <1>1, <1>2, <1>3, <1>4, <1>5, <1>6, <1>7, <1>8 DEF Next

\* Every ring is well formed: the slots from the head on, and only those,
\* hold values, and at() sees the same element from either end.
THEOREM RingWellFormed == Spec => []WellFormed
<1>1. Ring => WellFormed
  <2>. SUFFICES ASSUME Ring PROVE WellFormed
    OBVIOUS
  <2>1. \A i \in 0 .. capacity : Slot(i) = Pos(capacity, head, i)
    BY Slots DEF Ring
  <2>2. tail = Slot(size)
    BY <2>1 DEF Ring, TypeOK
  <2>3. \A i \in 0 .. capacity - 1 : (buffer[Slot(i)] \in Element) <=> (i < size)
    BY <2>1 DEF Ring, TypeOK
  <2>4. \A i \in 1 .. size : at(-i) = at(size - i)
    BY DEF Ring, TypeOK, at
  <2>5. ASSUME NEW i \in 1 .. size PROVE at(i - 1) # Undefined
    <3>1. i - 1 \in 0 .. size - 1 /\ ~(i - 1 < 0) /\ i - 1 \in 0 .. capacity - 1 /\ i - 1 < size
      BY DEF Ring, TypeOK
    <3>2. at(i - 1) = buffer[Slot(i - 1)]
      BY <3>1 DEF at
    <3>. QED
      BY <2>3, <3>1, <3>2, RingAssumption
  <2>. QED
    BY <2>2, <2>3, <2>4, <2>5 DEF WellFormed, Ring
<1>. QED
  BY <1>1, InitRing, NextRing, PTL DEF Spec

----------------------------------------------------------------------------
(* The refinement                                                             *)

\* The contents of a ring as a sequence of values.
Array(b, c, h, n) == [i \in 1 .. n |-> b[(h + (i - 1)) % c]]
IsArray(a, b, c, h, n) == /\ a \in Seq(Element) /\ Len(a) = n
                          /\ \A i \in 1 .. n : a[i] = b[Pos(c, h, i - 1)]

LEMMA ArrayOfRing ==
  ASSUME NEW c \in Nat \ {0}, NEW h \in 0 .. c - 1, NEW n \in 0 .. c, NEW b,
         \A i \in 0 .. c - 1 : (b[Pos(c, h, i)] \in Element) <=> (i < n)
  PROVE  IsArray(Array(b, c, h, n), b, c, h, n)
<1>1. ASSUME NEW i \in 1 .. n
      PROVE  (h + (i - 1)) % c = Pos(c, h, i - 1) /\ b[Pos(c, h, i - 1)] \in Element
  <2>1. i - 1 \in 0 .. c /\ i - 1 \in 0 .. c - 1 /\ i - 1 < n
    OBVIOUS
  <2>. QED
    BY <2>1, Wrap
<1>2. Array(b, c, h, n) = [i \in 1 .. n |-> b[Pos(c, h, i - 1)]]
  BY <1>1 DEF Array
<1>. QED
  BY <1>1, <1>2 DEF IsArray

Holds(a) == IsArray(a, buffer, capacity, head, size)

LEMMA ContentsNow == Ring => Holds(toArray)
BY ArrayOfRing DEF Ring, TypeOK, toArray, Slot, Array, Holds

LEMMA ContentsNext == Ring' => Holds(toArray)'
BY ArrayOfRing DEF Ring, TypeOK, toArray, Slot, Array, Holds

\* Each operation on the ring is the operation on the sequence.
LEMMA EnqueueAppends ==
  ASSUME Ring, Ring', NEW v \in Element, EnqueueRoom(v) \/ EnqueueGrown(v)
  PROVE  toArray' = Append(toArray, v)
<1>. DEFINE a == toArray
            a1 == toArray'
<1>1. IsArray(a, buffer, capacity, head, size) /\ IsArray(a1, buffer', capacity', head', size')
  BY ContentsNow, ContentsNext DEF Holds
<1>2. size' = size + 1 /\ size \in Nat
  BY DEF Ring, TypeOK, EnqueueRoom, EnqueueGrown, Place
<1>3. \A i \in 1 .. size : buffer'[Pos(capacity', head', i - 1)] = buffer[Pos(capacity, head, i - 1)]
  <2>. SUFFICES ASSUME NEW i \in 1 .. size
                PROVE  buffer'[Pos(capacity', head', i - 1)] = buffer[Pos(capacity, head, i - 1)]
    OBVIOUS
  <2>1. CASE EnqueueRoom(v)
    BY <2>1 DEF Ring, TypeOK, EnqueueRoom, Place, Pos
  <2>2. CASE EnqueueGrown(v)
    <3>1. i - 1 \in 0 .. 2 * capacity - 1 /\ i - 1 < size /\ i - 1 # size /\ i - 1 \in 0 .. capacity
      BY <2>2 DEF Ring, TypeOK, EnqueueGrown
    <3>2. Pos(capacity', head', i - 1) = i - 1
      BY <2>2, <3>1 DEF Ring, TypeOK, EnqueueGrown, Place, Pos
    <3>3. buffer'[i - 1] = buffer[Slot(i - 1)]
      BY <2>2, <3>1 DEF EnqueueGrown, Place, resize
    <3>. QED
      BY <3>1, <3>2, <3>3, Slots DEF Ring
  <2>. QED
    BY <2>1, <2>2
<1>4. buffer'[Pos(capacity', head', size)] = v
  <2>1. CASE EnqueueRoom(v)
    BY <2>1 DEF Ring, TypeOK, EnqueueRoom, Place, Pos
  <2>2. CASE EnqueueGrown(v)
    <3>1. Pos(capacity', head', size) = size /\ size \in 0 .. 2 * capacity - 1
      BY <2>2 DEF Ring, TypeOK, EnqueueGrown, Place, Pos
    <3>. QED
      BY <2>2, <3>1 DEF EnqueueGrown, Place, resize
  <2>. QED
    BY <2>1, <2>2
<1>5. a1 \in Seq(Element) /\ Append(a, v) \in Seq(Element) /\ Len(a1) = Len(Append(a, v)) /\ Len(a1) = size + 1
  BY <1>1, <1>2 DEF IsArray
<1>6. \A i \in 1 .. Len(a1) : a1[i] = Append(a, v)[i]
  <2>. HIDE DEF a, a1
  <2>. SUFFICES ASSUME NEW i \in 1 .. size + 1 PROVE a1[i] = Append(a, v)[i]
    BY <1>5
  <2>1. CASE i = size + 1
    BY <1>1, <1>2, <1>4, <2>1 DEF IsArray
  <2>2. CASE i # size + 1
    BY <1>1, <1>2, <1>3, <2>2 DEF IsArray
  <2>. QED
    BY <2>1, <2>2
<1>. HIDE DEF a, a1
<1>7. a1 = Append(a, v)
  BY <1>5, <1>6, SeqEqual
<1>. QED
  BY <1>7 DEF a, a1

LEMMA DequeueRemoves ==
  ASSUME Ring, Ring', dequeue
  PROVE  toArray # <<>> /\ toArray' = Tail(toArray)
<1>. DEFINE a == toArray
            a1 == toArray'
<1>1. IsArray(a, buffer, capacity, head, size) /\ IsArray(a1, buffer', capacity', head', size')
  BY ContentsNow, ContentsNext DEF Holds
<1>2. size' = size - 1 /\ size \in Nat /\ size > 0 /\ size <= capacity
  BY DEF Ring, TypeOK, dequeue
<1>3. \A i \in 1 .. size - 1 : buffer'[Pos(capacity', head', i - 1)] = buffer[Pos(capacity, head, i)]
  <2>. SUFFICES ASSUME NEW i \in 1 .. size - 1
                PROVE  buffer'[Pos(capacity', head', i - 1)] = buffer[Pos(capacity, head, i)]
    OBVIOUS
  <2>1. head' = Pos(capacity, head, 1) /\ head' \in 0 .. capacity - 1
    BY Forward DEF Ring, TypeOK, dequeue
  <2>2. Pos(capacity', head', i - 1) = Pos(capacity, head, i) /\ Pos(capacity, head, i) # head
    BY <2>1 DEF Ring, TypeOK, dequeue, Pos
  <2>3. Pos(capacity, head, i) \in 0 .. capacity - 1
    BY <1>2 DEF Ring, TypeOK, Pos
  <2>. QED
    BY <2>2, <2>3 DEF Ring, TypeOK, dequeue
<1>. HIDE DEF a, a1
<1>4. a # <<>> /\ a \in Seq(Element)
  BY <1>1, <1>2 DEF IsArray
<1>5. /\ Tail(a) \in Seq(Element) /\ Len(Tail(a)) = size - 1
      /\ \A i \in 1 .. size - 1 : Tail(a)[i] = a[i + 1]
  BY <1>1, <1>4, HeadTailProperties DEF IsArray
<1>6. \A i \in 1 .. size - 1 : a1[i] = Tail(a)[i]
  <2>. SUFFICES ASSUME NEW i \in 1 .. size - 1 PROVE a1[i] = Tail(a)[i]
    OBVIOUS
  <2>1. i \in 1 .. size' /\ i + 1 \in 1 .. size /\ (i + 1) - 1 = i
    BY <1>2
  <2>2. a[i + 1] = buffer[Pos(capacity, head, i)]
    BY <1>1, <2>1 DEF IsArray
  <2>3. a1[i] = buffer'[Pos(capacity', head', i - 1)]
    BY <1>1, <2>1 DEF IsArray
  <2>. QED
    BY <1>3, <1>5, <2>2, <2>3
<1>7. a1 = Tail(a)
  BY <1>1, <1>2, <1>5, <1>6, SeqEqual DEF IsArray
<1>. QED
  BY <1>4, <1>7 DEF a, a1

LEMMA DequeueTailRemoves ==
  ASSUME Ring, Ring', dequeueTail
  PROVE  toArray # <<>> /\ toArray' = SubSeq(toArray, 1, Len(toArray) - 1)
<1>. DEFINE a == toArray
            a1 == toArray'
            s == SubSeq(a, 1, size - 1)
<1>1. IsArray(a, buffer, capacity, head, size) /\ IsArray(a1, buffer', capacity', head', size')
  BY ContentsNow, ContentsNext DEF Holds
<1>2. size' = size - 1 /\ size \in Nat /\ size > 0 /\ head' = head /\ capacity' = capacity
  BY DEF Ring, TypeOK, dequeueTail
<1>3. \A i \in 1 .. size - 1 : buffer'[Pos(capacity, head, i - 1)] = buffer[Pos(capacity, head, i - 1)]
  <2>. SUFFICES ASSUME NEW i \in 1 .. size - 1
                PROVE  buffer'[Pos(capacity, head, i - 1)] = buffer[Pos(capacity, head, i - 1)]
    OBVIOUS
  <2>1. LastSlot = Pos(capacity, head, size - 1)
    <3>1. LastSlot = Pos(capacity, tail, capacity - 1)
      BY Back DEF Ring, TypeOK, LastSlot
    <3>. QED
      BY <3>1 DEF Ring, TypeOK, dequeueTail, Pos
  <2>2. Pos(capacity, head, i - 1) # LastSlot /\ Pos(capacity, head, i - 1) \in 0 .. capacity - 1
    BY <2>1 DEF Ring, TypeOK, Pos
  <2>. QED
    BY <2>2 DEF Ring, TypeOK, dequeueTail
<1>. HIDE DEF a, a1
<1>4. a \in Seq(Element) /\ Len(a) = size /\ a # <<>>
  BY <1>1, <1>2 DEF IsArray
<1>5. /\ s \in Seq(Element) /\ Len(s) = size - 1
      /\ \A i \in 1 .. size - 1 : s[i] = a[i]
  BY <1>2, <1>4
<1>6. \A i \in 1 .. size - 1 : a1[i] = s[i]
  <2>. SUFFICES ASSUME NEW i \in 1 .. size - 1 PROVE a1[i] = s[i]
    OBVIOUS
  <2>1. i \in 1 .. size' /\ i \in 1 .. size
    BY <1>2
  <2>2. a[i] = buffer[Pos(capacity, head, i - 1)]
    BY <1>1, <2>1 DEF IsArray
  <2>3. a1[i] = buffer'[Pos(capacity, head, i - 1)]
    BY <1>1, <1>2, <2>1 DEF IsArray
  <2>4. s[i] = a[i]
    BY <1>5
  <2>. QED
    BY <1>3, <2>2, <2>3, <2>4
<1>7. a1 = s
  <2>. HIDE DEF s
  <2>. QED
    BY <1>1, <1>2, <1>5, <1>6, SeqEqual DEF IsArray
<1>. QED
  BY <1>4, <1>7 DEF a, a1

LEMMA RotateMoves ==
  ASSUME Ring, Ring', rotate
  PROVE  toArray # <<>> /\ toArray' = Append(Tail(toArray), Head(toArray))
<1>. DEFINE a == toArray
            a1 == toArray'
            s == Append(Tail(a), Head(a))
<1>1. IsArray(a, buffer, capacity, head, size) /\ IsArray(a1, buffer', capacity', head', size')
  BY ContentsNow, ContentsNext DEF Holds
<1>2. size' = size /\ size \in Nat /\ size > 1 /\ size <= capacity /\ capacity' = capacity
  BY DEF Ring, TypeOK, rotate
<1>3. head' = Pos(capacity, head, 1) /\ head' \in 0 .. capacity - 1
  BY Forward DEF Ring, TypeOK, rotate
<1>4. \A i \in 1 .. size : buffer'[Pos(capacity', head', i - 1)] =
                              (IF i = size THEN buffer[head] ELSE buffer[Pos(capacity, head, i)])
  <2>. SUFFICES ASSUME NEW i \in 1 .. size
                PROVE  buffer'[Pos(capacity', head', i - 1)] =
                         (IF i = size THEN buffer[head] ELSE buffer[Pos(capacity, head, i)])
    OBVIOUS
  <2>1. Pos(capacity, head', i - 1) \in 0 .. capacity - 1
    BY <1>2, <1>3 DEF Ring, TypeOK, Pos
  <2>2. CASE i = size
    <3>1. Pos(capacity, head', i - 1) = tail
      BY <1>2, <1>3, <2>2 DEF Ring, TypeOK, Pos
    <3>. QED
      BY <1>2, <2>1, <2>2, <3>1 DEF Ring, TypeOK, rotate
  <2>3. CASE i # size
    <3>1. Pos(capacity, head', i - 1) = Pos(capacity, head, i)
      BY <1>2, <1>3, <2>3 DEF Ring, TypeOK, Pos
    <3>2. Pos(capacity, head, i) # head /\ Pos(capacity, head, i) # tail
      BY <1>2, <2>3 DEF Ring, TypeOK, Pos
    <3>. QED
      BY <1>2, <2>1, <2>3, <3>1, <3>2 DEF Ring, TypeOK, rotate
  <2>. QED
    BY <2>2, <2>3
<1>5. Pos(capacity, head, 0) = head
  BY DEF Ring, TypeOK, Pos
<1>. HIDE DEF a, a1
<1>6. a # <<>> /\ a \in Seq(Element) /\ Len(a) = size
  BY <1>1, <1>2 DEF IsArray
<1>7. /\ Tail(a) \in Seq(Element) /\ Len(Tail(a)) = size - 1 /\ Head(a) \in Element /\ Head(a) = a[1]
      /\ \A i \in 1 .. size - 1 : Tail(a)[i] = a[i + 1]
  BY <1>6, HeadTailProperties
<1>8. /\ s \in Seq(Element) /\ Len(s) = size
      /\ \A i \in 1 .. size : s[i] = IF i = size THEN a[1] ELSE a[i + 1]
  BY <1>2, <1>7
<1>9. \A i \in 1 .. size : a1[i] = s[i]
  <2>. SUFFICES ASSUME NEW i \in 1 .. size PROVE a1[i] = s[i]
    OBVIOUS
  <2>0. a1[i] = buffer'[Pos(capacity', head', i - 1)]
    BY <1>1, <1>2 DEF IsArray
  <2>1. CASE i = size
    <3>1. a[1] = buffer[head]
      <4>1. 1 \in 1 .. size /\ 1 - 1 = 0
        BY <1>2
      <4>. QED
        BY <1>1, <1>5, <4>1 DEF IsArray
    <3>2. a1[i] = buffer[head]
      BY <1>4, <2>0, <2>1
    <3>3. s[i] = a[1]
      BY <1>8, <2>1
    <3>. QED
      BY <3>1, <3>2, <3>3
  <2>2. CASE i # size
    <3>1. i + 1 \in 1 .. size /\ (i + 1) - 1 = i
      BY <1>2, <2>2
    <3>2. a[i + 1] = buffer[Pos(capacity, head, i)]
      BY <1>1, <3>1 DEF IsArray
    <3>3. s[i] = a[i + 1]
      BY <1>8, <2>2
    <3>. QED
      BY <1>4, <2>0, <2>2, <3>2, <3>3
  <2>. QED
    BY <2>1, <2>2
<1>10. a1 = s
  <2>. HIDE DEF s
  <2>. QED
    BY <1>1, <1>2, <1>8, <1>9, SeqEqual DEF IsArray
<1>. QED
  BY <1>6, <1>10 DEF a, a1

\* The ring implements the queue: every operation of the ring is the same
\* operation of a sequence, wherever the head is and whenever it grows.
THEOREM RingImplementsDeque == Spec => ImplementsDeque
<1>1. Init => Contents!Init
  BY DEF Init, toArray, Contents!Init
<1>2. Ring /\ Ring' /\ [Next]_vars => [Contents!Next]_toArray
  <2>. SUFFICES ASSUME Ring, Ring', [Next]_vars PROVE [Contents!Next]_toArray
    OBVIOUS
  <2>1. ASSUME NEW v \in Element, EnqueueRoom(v) \/ EnqueueGrown(v) PROVE Contents!Next
    BY <2>1, EnqueueAppends DEF Contents!Next, Contents!Enqueue
  <2>2. CASE UNCHANGED vars
    BY <2>2 DEF vars, toArray, Slot
  <2>3. ASSUME NEW v \in Element, EnqueueRefused(v) PROVE UNCHANGED toArray
    BY <2>2, <2>3 DEF EnqueueRefused, vars, toArray, Slot
  <2>4. CASE dequeue
    BY <2>4, DequeueRemoves DEF Contents!Next, Contents!Dequeue
  <2>5. CASE dequeueTail
    BY <2>5, DequeueTailRemoves DEF Contents!Next, Contents!DequeueTail, Contents!Front1
  <2>6. CASE rotate
    BY <2>6, RotateMoves DEF Contents!Next, Contents!Rotate
  <2>7. CASE clear
    BY <2>7 DEF clear, toArray, Contents!Next, Contents!Clear
  <2>. QED
    BY <2>1, <2>2, <2>3, <2>4, <2>5, <2>6, <2>7 DEF Next
<1>. QED
  BY <1>1, <1>2, InitRing, NextRing, PTL DEF Spec, ImplementsDeque, Contents!Spec

-----------------------------------------------------------------------------
(* The file store does what the store contract promises, as long as        *)
(* operations wait for each other and the process does not end between two *)
(* files of a transaction.  The reason is the chain of promises: whoever   *)
(* is past the first file of an operation is first in it (Alone), so what  *)
(* he has read stays what the files hold until he is through (CallOK).     *)

\* What the callers may ask for.
TxnsTyped == \A t \in Txns : t.reads \in Seq(Keys) /\ t.writes \in SUBSET Keys

FileEntry == [val : SUBSET Writes, ver : Nat \ {Null}, ttl : {"none", "running", "over"}]
Call == [op : {"idle", "get", "rm", "set", "put", "read", "write"},
         k : Keys \cup {"none"}, ttl : BOOLEAN, w : Writes \cup {"none"},
         seen : [val : SUBSET Writes, ver : Nat],
         reads : Seq(Keys), readSet : Seq(Keys \X Nat), deferred : SUBSET Keys]

Typed == /\ file \in [Keys -> {<<>>} \cup FileEntry]
         /\ \A k \in Keys : CurrentVersion(k) <= versions
         /\ versions \in Nat
         /\ lock \in Seq(Clients)
         /\ p \in [Clients -> Call]

\* What an operation has seen is what the files hold: for a key, as long as the
\* version is the one it saw; for a removal, a write or a transaction that has
\* begun, without any condition.
CallOK(q) ==
  /\ q.op \in {"get", "rm", "set", "put"} => q.k \in Keys
  /\ q.op \in {"set", "put", "read", "write"} => q.w \in Writes
  /\ q.op \notin {"read", "write"} =>
       /\ q.seen.ver = Null => q.seen.val = {}
       /\ q.seen.ver <= versions
       /\ q.k \in Keys /\ q.seen.ver = CurrentVersion(q.k) => q.seen.val = ContentsOf(q.k)
  /\ q.op = "rm" => file[q.k] # <<>> /\ file[q.k].ttl = "over"
  /\ q.op = "put" => q.seen.ver = CurrentVersion(q.k)
  /\ q.op = "read" => q.seen.val = UNION {ContentsOf(q.readSet[i][1]) : i \in DOMAIN q.readSet}

Midway(q) == q.op \in {"rm", "put", "write"} \/ (q.op = "read" /\ q.readSet # <<>>)
Alone == \A c \in Clients : Midway(p[c]) => MayRun(c)

FileInv == Typed /\ Alone /\ \A c \in Clients : CallOK(p[c])

-----------------------------------------------------------------------------
LEMMA EntryIsFile ==
  ASSUME NEW e \in FileEntry
  PROVE  e # <<>>
<1>1. DOMAIN e = {"val", "ver", "ttl"} /\ DOMAIN <<>> = {}
  BY DEF FileEntry
<1>. QED
  BY <1>1

LEMMA IdleTyped ==
  ASSUME NEW c
  PROVE  /\ Idle(c) \in Call
         /\ Idle(c).op = "idle" /\ Idle(c).k = "none" /\ Idle(c).ttl = FALSE
         /\ Idle(c).seen = Missing /\ Idle(c).w = "none"
         /\ Idle(c).reads = <<>> /\ Idle(c).readSet = <<>> /\ Idle(c).deferred = {}
         /\ Missing \in [val : SUBSET Writes, ver : Nat]
BY DEF Idle, Call, Missing, Null

LEMMA MissingOK ==
  ASSUME Typed, NEW q \in Call, q.seen = Missing, q.op \in {"idle", "get"},
         q.op = "get" => q.k \in Keys
  PROVE  CallOK(q)
<1>1. \A k \in Keys : CurrentVersion(k) = Null => ContentsOf(k) = {}
  BY DEF Typed, CurrentVersion, ContentsOf, FileEntry, Null
<1>. QED
  BY <1>1 DEF CallOK, Missing, Typed, Null

\* How a step moves the lock, for the caller c whose call becomes q.
LockMoves(c, q) ==
  \/ lock' = Append(lock, c) /\ p[c].op = "idle" /\ ~Midway(q)
  \/ lock' = lock /\ MayRun(c)
  \/ lock' = Tail(lock) /\ MayRun(c) /\ ~Midway(q)

\* The lock stays in order whatever files are written.
LEMMA LockKept ==
  ASSUME Serialised, FileInv, NEW c \in Clients, NEW q \in Call,
         p' = [p EXCEPT ![c] = q], LockMoves(c, q)
  PROVE  Alone' /\ lock' \in Seq(Clients) /\ p' \in [Clients -> Call]
<1>1. p' \in [Clients -> Call] /\ p'[c] = q /\ \A d \in Clients \ {c} : p'[d] = p[d]
  BY DEF FileInv, Typed
<1>2. lock \in Seq(Clients)
  BY DEF FileInv, Typed
<1>3. \A d \in Clients \ {c} : MayRun(c) => ~Midway(p[d])
  BY DEF FileInv, Alone, MayRun
<1>4. CASE lock' = Append(lock, c) /\ p[c].op = "idle" /\ ~Midway(q)
  <2>1. lock' \in Seq(Clients) /\ (lock # <<>> => lock' # <<>> /\ Head(lock') = Head(lock))
    BY <1>2, <1>4
  <2>2. \A d \in Clients : Midway(p'[d]) => d # c /\ MayRun(d)
    BY <1>1, <1>4 DEF FileInv, Alone
  <2>. QED
    BY <1>1, <2>1, <2>2 DEF Alone, MayRun, Midway
<1>5. CASE lock' = lock /\ MayRun(c)
  BY <1>1, <1>2, <1>3, <1>5 DEF Alone, MayRun, Midway
<1>6. CASE lock' = Tail(lock) /\ MayRun(c) /\ ~Midway(q)
  <2>1. lock' \in Seq(Clients)
    BY <1>2, <1>6 DEF MayRun
  <2>. QED
    BY <1>1, <1>3, <1>6, <2>1 DEF Alone, Midway
<1>. QED
  BY <1>4, <1>5, <1>6 DEF LockMoves

\* A step of one caller that leaves the files alone.
LEMMA Quiet ==
  ASSUME Serialised, FileInv, NEW c \in Clients, NEW q \in Call, CallOK(q),
         p' = [p EXCEPT ![c] = q], LockMoves(c, q), UNCHANGED <<file, versions>>
  PROVE  FileInv'
<1>1. Alone' /\ lock' \in Seq(Clients) /\ p' \in [Clients -> Call]
  BY LockKept
<1>2. \A k : CurrentVersion(k)' = CurrentVersion(k) /\ ContentsOf(k)' = ContentsOf(k)
  BY DEF CurrentVersion, ContentsOf
<1>3. Typed'
  BY <1>1, <1>2 DEF FileInv, Typed
<1>4. \A r : CallOK(r)' <=> CallOK(r)
  BY <1>2 DEF CallOK
<1>5. \A d \in Clients : CallOK(p'[d])
  BY DEF FileInv, Typed
<1>. QED
  BY <1>1, <1>3, <1>4, <1>5 DEF FileInv

\* What a file holds after it was written or removed.
LEMMA Written ==
  ASSUME Typed, NEW k \in Keys, NEW e \in {<<>>} \cup FileEntry,
         file' = [file EXCEPT ![k] = e],
         \/ e = <<>> /\ versions' = versions
         \/ e \in FileEntry /\ e.ver = versions' /\ versions' = versions + 1
  PROVE  /\ file' \in [Keys -> {<<>>} \cup FileEntry]
         /\ versions' \in Nat /\ versions' >= versions
         /\ \A j \in Keys : CurrentVersion(j)' <= versions'
         /\ \A j \in Keys \ {k} : CurrentVersion(j)' = CurrentVersion(j) /\ ContentsOf(j)' = ContentsOf(j)
         /\ IF e = <<>> THEN CurrentVersion(k)' = Null /\ ContentsOf(k)' = {}
            ELSE CurrentVersion(k)' = versions + 1 /\ ContentsOf(k)' = e.val
<1>1. \A j \in Keys : file'[j] = IF j = k THEN e ELSE file[j]
  BY DEF Typed
<1>2. e \in FileEntry => e # <<>>
  BY EntryIsFile
<1>3. \A j \in Keys \ {k} : CurrentVersion(j)' = CurrentVersion(j) /\ ContentsOf(j)' = ContentsOf(j)
  BY <1>1 DEF CurrentVersion, ContentsOf
<1>4. IF e = <<>> THEN CurrentVersion(k)' = Null /\ ContentsOf(k)' = {}
      ELSE CurrentVersion(k)' = versions + 1 /\ ContentsOf(k)' = e.val
  BY <1>1, <1>2 DEF CurrentVersion, ContentsOf
<1>5. file' \in [Keys -> {<<>>} \cup FileEntry]
  BY DEF Typed
<1>6. versions' \in Nat /\ versions' >= versions
  BY DEF Typed
<1>7. \A j \in Keys : CurrentVersion(j)' <= versions'
  <2>1. \A j \in Keys : CurrentVersion(j) \in Nat
    BY DEF Typed, CurrentVersion, FileEntry, Null
  <2>2. \A j \in Keys \ {k} : CurrentVersion(j) <= versions'
    BY <1>6, <2>1 DEF Typed
  <2>. QED
    BY <1>2, <1>3, <1>4, <1>6, <2>2 DEF Typed, Null
<1>. QED
  BY <1>3, <1>4, <1>5, <1>6, <1>7

\* A step of the caller whose turn it is that writes or removes a file: what
\* the others know of that file is out of date, and they know that.
LEMMA Loud ==
  ASSUME Serialised, FileInv, NEW c \in Clients, NEW q \in Call, CallOK(q)',
         p' = [p EXCEPT ![c] = q], LockMoves(c, q), MayRun(c),
         NEW k \in Keys, NEW e \in {<<>>} \cup FileEntry,
         file' = [file EXCEPT ![k] = e],
         \/ e = <<>> /\ versions' = versions
         \/ e \in FileEntry /\ e.ver = versions' /\ versions' = versions + 1
  PROVE  FileInv'
<1>1. Alone' /\ lock' \in Seq(Clients) /\ p' \in [Clients -> Call]
  BY LockKept
<1>2. Typed
  BY DEF FileInv
<1>3. /\ file' \in [Keys -> {<<>>} \cup FileEntry]
      /\ versions' \in Nat /\ versions' >= versions
      /\ \A j \in Keys : CurrentVersion(j)' <= versions'
      /\ \A j \in Keys \ {k} : CurrentVersion(j)' = CurrentVersion(j) /\ ContentsOf(j)' = ContentsOf(j)
      /\ IF e = <<>> THEN CurrentVersion(k)' = Null /\ ContentsOf(k)' = {}
         ELSE CurrentVersion(k)' = versions + 1 /\ ContentsOf(k)' = e.val
  BY <1>2, Written
<1>4. ASSUME NEW d \in Clients \ {c} PROVE CallOK(p[d])'
  <2>. PICK r : r = p[d]
    OBVIOUS
  <2>1. p'[d] = r /\ r \in Call /\ CallOK(r) /\ ~Midway(r)
    BY DEF FileInv, Typed, Alone, MayRun
  <2>2. r.op \notin {"rm", "put", "write"} /\ (r.op = "read" => r.readSet = <<>>)
    BY <2>1 DEF Midway
  <2>3. r.op = "read" => r.seen.val = {}
    BY <2>1, <2>2 DEF CallOK
  <2>4. r.op # "read" => /\ r.seen.ver = Null => r.seen.val = {}
                         /\ r.seen.ver <= versions'
    BY <1>2, <1>3, <2>1, <2>2 DEF CallOK, Call, Typed
  <2>5. r.op # "read" /\ r.k \in Keys /\ r.seen.ver = CurrentVersion(r.k)'
           => r.seen.val = ContentsOf(r.k)'
    <3>1. CASE r.k # k
      BY <1>3, <2>1, <2>2, <3>1 DEF CallOK
    <3>2. CASE r.k = k /\ r.seen.ver # Null
      BY <1>2, <1>3, <2>1, <2>2, <3>2 DEF CallOK, Call, Typed
    <3>3. CASE r.k = k /\ r.seen.ver = Null
      <4>1. versions \in Nat /\ file'[r.k] = e
        BY <1>2, <3>3 DEF Typed
      <4>2. e # <<>> => e.ver # Null
        BY DEF FileEntry
      <4>. QED
        BY <2>4, <3>3, <4>1, <4>2 DEF CurrentVersion, ContentsOf
    <3>. QED
      BY <3>1, <3>2, <3>3
  <2>6. CallOK(r)'
    BY <2>1, <2>2, <2>3, <2>4, <2>5 DEF CallOK
  <2>. QED
    BY <2>1, <2>6
<1>5. p'[c] = q
  BY <1>2 DEF Typed
<1>6. \A d \in Clients : CallOK(p[d])'
  BY <1>4, <1>5
<1>. QED
  BY <1>1, <1>3, <1>6 DEF FileInv, Typed

-----------------------------------------------------------------------------
LEMMA FileInvInit == FileInit => FileInv
<1>. SUFFICES ASSUME FileInit PROVE FileInv
  OBVIOUS
<1>1. Typed
  <2>1. \A k \in Keys : CurrentVersion(k) = 0
    BY DEF FileInit, CurrentVersion, Null
  <2>2. \A c \in Clients : Idle(c) \in Call
    BY IdleTyped
  <2>3. <<>> \in Seq(Clients)
    OBVIOUS
  <2>. QED
    BY <2>1, <2>2, <2>3 DEF FileInit, Typed
<1>2. \A c \in Clients : CallOK(p[c]) /\ ~Midway(p[c])
  BY <1>1, IdleTyped, MissingOK DEF FileInit, Midway, Typed
<1>. QED
  BY <1>1, <1>2 DEF FileInv, Alone

\* What Append makes of a sequence, position by position.
LEMMA Appended ==
  ASSUME NEW S, NEW z \in Seq(S), NEW e \in S
  PROVE  /\ DOMAIN Append(z, e) = DOMAIN z \cup {Len(z) + 1}
         /\ \A i \in DOMAIN z : Append(z, e)[i] = z[i]
         /\ Append(z, e)[Len(z) + 1] = e
<1>1. /\ Append(z, e) \in Seq(S) /\ Len(Append(z, e)) = Len(z) + 1 /\ Len(z) \in Nat
      /\ DOMAIN z = 1 .. Len(z) /\ DOMAIN Append(z, e) = 1 .. Len(z) + 1
  OBVIOUS
<1>. QED
  BY <1>1

\* The contents of the keys of a read set.
AllRead(readSet) == UNION {ContentsOf(readSet[i][1]) : i \in DOMAIN readSet}

\* What one more read adds to the contents a transaction has seen.
LEMMA ReadMore ==
  ASSUME NEW z \in Seq(Keys \X Nat), NEW k \in Keys, NEW n \in Nat
  PROVE  AllRead(Append(z, <<k, n>>)) = AllRead(z) \cup ContentsOf(k)
<1>. DEFINE S == Keys \X Nat
            e == <<k, n>>
            r == Append(z, e)
<1>1. e[1] = k /\ e \in S /\ z \in Seq(S)
  OBVIOUS
<1>. HIDE DEF S, e
<1>2. /\ DOMAIN r = DOMAIN z \cup {Len(z) + 1}
      /\ \A i \in DOMAIN z : r[i] = z[i]
      /\ r[Len(z) + 1] = e
  BY <1>1, Appended
<1>. HIDE DEF r
<1>3. AllRead(r) = AllRead(z) \cup ContentsOf(k)
  BY <1>1, <1>2 DEF AllRead
<1>. QED
  BY <1>3 DEF r, e

LEMMA FileInvStep ==
  ASSUME Serialised, ~Torn, TxnsTyped
  PROVE  FileInv /\ [FileNext]_fileVars => FileInv'
<1>. SUFFICES ASSUME FileInv, [FileNext]_fileVars PROVE FileInv'
  OBVIOUS
<1>0. Typed /\ \A c \in Clients : p[c] \in Call /\ CallOK(p[c])
  BY DEF FileInv, Typed
<1>1. ASSUME NEW c \in Clients, NEW k \in Keys, CallGet(c, k) PROVE FileInv'
  <2>. DEFINE q == [Idle(c) EXCEPT !.op = "get", !.k = k]
  <2>1. q \in Call /\ q.op = "get" /\ q.k = k /\ q.seen = Missing
    BY IdleTyped DEF Call
  <2>2. p' = [p EXCEPT ![c] = q] /\ lock' = Append(lock, c) /\ p[c].op = "idle" /\ UNCHANGED <<file, versions>>
    BY <1>1 DEF CallGet, Enter
  <2>. HIDE DEF q
  <2>3. CallOK(q) /\ LockMoves(c, q)
    BY <1>0, <2>1, <2>2, MissingOK DEF LockMoves, Midway
  <2>. QED
    BY <2>1, <2>2, <2>3, Quiet
<1>2. ASSUME NEW c \in Clients, NEW w \in Writes, NEW ttl \in BOOLEAN, CallSet(c, w, ttl) PROVE FileInv'
  <2>. DEFINE q == [Idle(c) EXCEPT !.op = "set", !.k = p[c].k, !.seen = p[c].seen, !.ttl = ttl, !.w = w]
  <2>0. p[c].op = "idle" /\ p[c].k \in Keys
    BY <1>0, <1>2 DEF CallSet, Call
  <2>1. q \in Call /\ q.op = "set" /\ q.k = p[c].k /\ q.seen = p[c].seen /\ q.w = w
    BY ZenonT(40), <1>0, <2>0, IdleTyped DEF Call
  <2>2. p' = [p EXCEPT ![c] = q] /\ lock' = Append(lock, c) /\ UNCHANGED <<file, versions>>
    BY <1>2 DEF CallSet, Enter
  <2>. HIDE DEF q
  <2>3. CallOK(q) /\ LockMoves(c, q)
    BY <1>0, <2>0, <2>1, <2>2 DEF LockMoves, Midway, CallOK
  <2>. QED
    BY <2>1, <2>2, <2>3, Quiet
<1>3. ASSUME NEW c \in Clients, NEW w \in Writes, NEW txn \in Txns, CallTransact(c, w, txn) PROVE FileInv'
  <2>. DEFINE q == [Idle(c) EXCEPT !.op = "read", !.w = w, !.reads = txn.reads, !.deferred = txn.writes]
  <2>1. q \in Call /\ q.op = "read" /\ q.w = w /\ q.seen = Missing /\ q.readSet = <<>>
    BY IdleTyped DEF Call, TxnsTyped
  <2>2. p' = [p EXCEPT ![c] = q] /\ lock' = Append(lock, c) /\ p[c].op = "idle" /\ UNCHANGED <<file, versions>>
    BY <1>3 DEF CallTransact, Enter
  <2>. HIDE DEF q
  <2>3. CallOK(q) /\ LockMoves(c, q)
    BY <2>1, <2>2 DEF LockMoves, Midway, CallOK, Missing
  <2>. QED
    BY <2>1, <2>2, <2>3, Quiet
<1>4. ASSUME NEW c \in Clients, GetRead(c) PROVE FileInv'
  <2>0. p[c].op = "get" /\ p[c].k \in Keys /\ MayRun(c) /\ UNCHANGED <<file, versions>>
    BY <1>0, <1>4 DEF GetRead, CallOK
  <2>1. CASE file[p[c].k] # <<>> /\ file[p[c].k].ttl = "over"
    <3>. DEFINE q == [p[c] EXCEPT !.op = "rm"]
    <3>1. q \in Call /\ q.op = "rm" /\ q.k = p[c].k /\ q.seen = p[c].seen
      BY ZenonT(40), <1>0 DEF Call
    <3>2. p' = [p EXCEPT ![c] = q] /\ lock' = lock
      BY <1>4, <2>1 DEF GetRead, Goto
    <3>. HIDE DEF q
    <3>3. CallOK(q) /\ LockMoves(c, q)
      BY <1>0, <2>0, <2>1, <3>1, <3>2 DEF LockMoves, CallOK
    <3>. QED
      BY <2>0, <3>1, <3>2, <3>3, Quiet
  <2>2. CASE ~(file[p[c].k] # <<>> /\ file[p[c].k].ttl = "over")
    <3>. DEFINE s == IF ContentsOf(p[c].k) = {} THEN Missing
                     ELSE [val |-> file[p[c].k].val, ver |-> file[p[c].k].ver]
                q == [Idle(c) EXCEPT !.k = p[c].k, !.seen = s]
    <3>1. /\ s.val = ContentsOf(p[c].k)
          /\ s.ver = Null => s.val = {}
          /\ s.ver = Null \/ s.ver = CurrentVersion(p[c].k)
          /\ s \in [val : SUBSET Writes, ver : Nat]
      BY <1>0, <2>0 DEF ContentsOf, CurrentVersion, Missing, Typed, FileEntry, Null
    <3>2. p' = [p EXCEPT ![c] = q] /\ lock' = Tail(lock)
      BY <1>4, <2>2 DEF GetRead, Leave
    <3>. HIDE DEF s
    <3>3. q \in Call /\ q.op = "idle" /\ q.k = p[c].k /\ q.seen = s
      BY ZenonT(40), <1>0, <2>0, <3>1, IdleTyped DEF Call
    <3>. HIDE DEF q
    <3>4. s.ver <= versions
      BY <1>0, <2>0, <3>1 DEF Typed, Null
    <3>5. CallOK(q) /\ LockMoves(c, q)
      BY <1>0, <2>0, <3>1, <3>2, <3>3, <3>4 DEF LockMoves, CallOK, Midway
    <3>. QED
      BY <2>0, <3>2, <3>3, <3>5, Quiet
  <2>. QED
    BY <2>1, <2>2
<1>5. ASSUME NEW c \in Clients, GetRemove(c) PROVE FileInv'
  <2>. PICK k, q : k = p[c].k /\ q = [Idle(c) EXCEPT !.k = p[c].k]
    OBVIOUS
  <2>0. p[c].op = "rm" /\ k \in Keys /\ MayRun(c) /\ versions' = versions
    BY <1>0, <1>5 DEF GetRemove, CallOK
  <2>1. q \in Call /\ q.op = "idle" /\ q.k = k /\ q.seen = Missing
    BY ZenonT(40), <1>0, <2>0, IdleTyped DEF Call
  <2>2. /\ p' = [p EXCEPT ![c] = q] /\ lock' = Tail(lock)
        /\ file' = [file EXCEPT ![k] = <<>>]
    BY <1>5 DEF GetRemove, Leave
  <2>3. file'[q.k] = <<>>
    BY <1>0, <2>0, <2>1, <2>2 DEF Typed
  <2>4. CallOK(q)' /\ LockMoves(c, q)
    <3>1. versions' \in Nat /\ q.seen.ver = 0 /\ q.seen.val = {}
      BY <1>0, <2>0, <2>1 DEF Missing, Typed, Null
    <3>2. CallOK(q)'
      BY <2>0, <2>1, <2>3, <3>1 DEF CallOK, ContentsOf
    <3>. QED
      BY <2>0, <2>1, <2>2, <3>2 DEF LockMoves, Midway
  <2>. QED
    BY <2>0, <2>1, <2>2, <2>4, Loud
<1>6. ASSUME NEW c \in Clients, SetRead(c) PROVE FileInv'
  <2>0. p[c].op = "set" /\ p[c].k \in Keys /\ MayRun(c) /\ UNCHANGED <<file, versions>>
    BY <1>0, <1>6 DEF SetRead, CallOK
  <2>1. CASE CurrentVersion(p[c].k) = p[c].seen.ver
    <3>. DEFINE q == [p[c] EXCEPT !.op = "put"]
    <3>1. q \in Call /\ q.op = "put" /\ q.k = p[c].k /\ q.seen = p[c].seen /\ q.w = p[c].w
      BY <1>0 DEF Call
    <3>2. p' = [p EXCEPT ![c] = q] /\ lock' = lock
      BY <1>6, <2>1 DEF SetRead, Goto
    <3>. HIDE DEF q
    <3>3. CallOK(q) /\ LockMoves(c, q)
      BY <1>0, <2>0, <2>1, <3>1, <3>2 DEF LockMoves, CallOK
    <3>. QED
      BY <2>0, <3>1, <3>2, <3>3, Quiet
  <2>2. CASE CurrentVersion(p[c].k) # p[c].seen.ver
    <3>. DEFINE q == [Idle(c) EXCEPT !.k = p[c].k, !.seen = p[c].seen]
    <3>1. q \in Call /\ q.op = "idle" /\ q.k = p[c].k /\ q.seen = p[c].seen
      BY ZenonT(40), <1>0, <2>0, IdleTyped DEF Call
    <3>2. p' = [p EXCEPT ![c] = q] /\ lock' = Tail(lock)
      BY <1>6, <2>2 DEF SetRead, Forget, Leave
    <3>. HIDE DEF q
    <3>3. CallOK(q) /\ LockMoves(c, q)
      BY <1>0, <2>0, <3>1, <3>2 DEF LockMoves, CallOK, Midway
    <3>. QED
      BY <2>0, <3>1, <3>2, <3>3, Quiet
  <2>. QED
    BY <2>1, <2>2
<1>7. ASSUME NEW c \in Clients, SetWrite(c) PROVE FileInv'
  <2>. PICK k, e, q : /\ k = p[c].k
                      /\ e = Entry(p[c].seen.val \cup {p[c].w}, p[c].ttl)
                      /\ q = [Idle(c) EXCEPT !.k = p[c].k, !.seen = p[c].seen]
    OBVIOUS
  <2>0. /\ p[c].op = "put" /\ k \in Keys /\ p[c].w \in Writes /\ MayRun(c)
        /\ versions' = versions + 1 /\ file' = [file EXCEPT ![k] = e]
    BY <1>0, <1>7 DEF SetWrite, CallOK
  <2>1. q \in Call /\ q.op = "idle" /\ q.k = k /\ q.seen = p[c].seen
    BY ZenonT(40), <1>0, <2>0, IdleTyped DEF Call
  <2>2. p' = [p EXCEPT ![c] = q] /\ lock' = Tail(lock)
    BY <1>7 DEF SetWrite, Forget, Leave
  <2>3. e \in FileEntry /\ e.ver = versions + 1
    BY <1>0, <2>0 DEF Entry, FileEntry, Call, Typed, Null
  <2>4. CurrentVersion(k)' = versions + 1
    BY <1>0, <2>0, <2>3, EntryIsFile DEF CurrentVersion, Typed
  <2>5. p[c].seen.ver <= versions /\ (p[c].seen.ver = Null => p[c].seen.val = {}) /\ p[c].seen.ver \in Nat
    BY <1>0, <2>0 DEF CallOK, Call
  <2>6. q.seen.ver # CurrentVersion(k)' /\ q.seen.ver <= versions'
    BY <1>0, <2>0, <2>1, <2>4, <2>5 DEF Typed
  <2>7. CallOK(q)'
    BY <2>1, <2>5, <2>6 DEF CallOK
  <2>8. LockMoves(c, q)
    BY <2>0, <2>1, <2>2 DEF LockMoves, Midway
  <2>. QED
    BY <2>0, <2>1, <2>2, <2>3, <2>7, <2>8, Loud
<1>8. ASSUME NEW c \in Clients, TxnRead(c) PROVE FileInv'
  <2>. DEFINE k == Head(p[c].reads)
              q == [p[c] EXCEPT !.reads = Tail(@), !.readSet = Append(@, <<k, CurrentVersion(k)>>),
                                !.seen = [val |-> p[c].seen.val \cup ContentsOf(k), ver |-> Null]]
  <2>0. p[c].op = "read" /\ p[c].reads # <<>> /\ MayRun(c) /\ UNCHANGED <<file, versions>>
    BY <1>8 DEF TxnRead
  <2>1. p' = [p EXCEPT ![c] = q] /\ lock' = lock
    BY <1>8 DEF TxnRead, Goto
  <2>2. p[c].reads \in Seq(Keys) /\ p[c].readSet \in Seq(Keys \X Nat) /\ k \in Keys /\ Tail(p[c].reads) \in Seq(Keys)
    BY <1>0, <2>0 DEF Call
  <2>3. CurrentVersion(k) \in Nat /\ ContentsOf(k) \in SUBSET Writes
    BY <1>0, <2>2 DEF CurrentVersion, ContentsOf, Typed, FileEntry, Null
  <2>. HIDE DEF k
  <2>4. <<k, CurrentVersion(k)>> \in Keys \X Nat
    BY <2>2, <2>3
  <2>5. Append(p[c].readSet, <<k, CurrentVersion(k)>>) \in Seq(Keys \X Nat)
    BY <2>2, <2>4
  <2>6. /\ q.op = "read" /\ q.w = p[c].w /\ q.reads = Tail(p[c].reads)
        /\ q.readSet = Append(p[c].readSet, <<k, CurrentVersion(k)>>)
        /\ q.seen = [val |-> p[c].seen.val \cup ContentsOf(k), ver |-> Null]
    BY <1>0, <2>0 DEF Call
  <2>7. q \in Call
    BY ZenonT(40), <1>0, <2>2, <2>3, <2>5 DEF Call, Null
  <2>. HIDE DEF q
  <2>8. q.seen.val = UNION {ContentsOf(q.readSet[i][1]) : i \in DOMAIN q.readSet}
    <3>1. p[c].seen.val = AllRead(p[c].readSet)
      BY <1>0, <2>0 DEF CallOK, AllRead
    <3>2. AllRead(Append(p[c].readSet, <<k, CurrentVersion(k)>>)) = AllRead(p[c].readSet) \cup ContentsOf(k)
      BY <2>2, <2>3, ReadMore, Zenon
    <3>3. AllRead(q.readSet) = AllRead(p[c].readSet) \cup ContentsOf(k)
      BY <2>6, <3>2, Zenon
    <3>4. q.seen.val = AllRead(q.readSet)
      BY <2>6, <3>1, <3>3
    <3>. QED
      BY <3>4 DEF AllRead
  <2>9. CallOK(q) /\ LockMoves(c, q)
    BY <1>0, <2>0, <2>1, <2>6, <2>8 DEF LockMoves, CallOK
  <2>. QED
    BY <2>0, <2>1, <2>7, <2>9, Quiet
<1>9. ASSUME NEW c \in Clients, TxnVerify(c) PROVE FileInv'
  <2>0. p[c].op = "read" /\ MayRun(c) /\ UNCHANGED <<file, versions>>
    BY <1>9 DEF TxnVerify
  <2>1. CASE Unchanged(p[c]) /\ p[c].deferred # {}
    <3>. DEFINE q == [p[c] EXCEPT !.op = "write"]
    <3>1. q \in Call /\ q.op = "write" /\ q.w = p[c].w
      BY <1>0 DEF Call
    <3>2. p' = [p EXCEPT ![c] = q] /\ lock' = lock
      BY <1>9, <2>1 DEF TxnVerify, Goto
    <3>. HIDE DEF q
    <3>3. CallOK(q) /\ LockMoves(c, q)
      BY <1>0, <2>0, <3>1, <3>2 DEF LockMoves, CallOK
    <3>. QED
      BY <2>0, <3>1, <3>2, <3>3, Quiet
  <2>2. CASE ~(Unchanged(p[c]) /\ p[c].deferred # {})
    <3>1. p' = [p EXCEPT ![c] = Idle(c)] /\ lock' = Tail(lock)
      BY <1>9, <2>2 DEF TxnVerify, Leave
    <3>2. CallOK(Idle(c)) /\ LockMoves(c, Idle(c))
      BY <1>0, <2>0, <3>1, IdleTyped, MissingOK DEF LockMoves, Midway
    <3>. QED
      BY <2>0, <3>1, <3>2, IdleTyped, Quiet
  <2>. QED
    BY <2>1, <2>2
<1>10. ASSUME NEW c \in Clients, TxnWrite(c) PROVE FileInv'
  <2>0. p[c].op = "write" /\ MayRun(c) /\ versions' = versions + 1
    BY <1>10 DEF TxnWrite
  <2>1. PICK k \in p[c].deferred :
          /\ file' = [file EXCEPT ![k] = Entry(p[c].seen.val \cup {p[c].w}, FALSE)]
          /\ IF p[c].deferred = {k} THEN Leave(c, Idle(c))
             ELSE Goto(c, [p[c] EXCEPT !.deferred = @ \ {k}])
    BY <1>10 DEF TxnWrite
  <2>. PICK e : e = Entry(p[c].seen.val \cup {p[c].w}, FALSE)
    OBVIOUS
  <2>2. e \in FileEntry /\ e.ver = versions + 1 /\ k \in Keys
    BY <1>0, <2>0 DEF Entry, FileEntry, Call, Typed, Null, CallOK
  <2>3. CurrentVersion(k)' = versions + 1
    BY <1>0, <2>1, <2>2, EntryIsFile DEF CurrentVersion, Typed
  <2>4. CASE p[c].deferred = {k}
    <3>1. p' = [p EXCEPT ![c] = Idle(c)] /\ lock' = Tail(lock)
      BY <2>1, <2>4 DEF Leave
    <3>. PICK q : q = Idle(c)
      OBVIOUS
    <3>0. q \in Call /\ q.op = "idle" /\ q.seen = Missing /\ q.k = "none"
      BY IdleTyped
    <3>2. CallOK(q)' /\ LockMoves(c, q)
      <4>3. Missing.ver <= versions'
        BY <1>0, <2>0 DEF Typed, Missing, Null
      <4>4. \A j \in Keys : CurrentVersion(j)' = Null => ContentsOf(j)' = {}
        <5>1. file' \in [Keys -> {<<>>} \cup FileEntry]
          BY <1>0, <2>1, <2>2 DEF Typed
        <5>. QED
          BY <5>1 DEF CurrentVersion, ContentsOf, FileEntry, Null
      <4>5. CallOK(q)'
        BY <3>0, <4>3, <4>4 DEF CallOK, Missing
      <4>. QED
        BY <2>0, <3>0, <3>1, <4>5 DEF LockMoves, Midway
    <3>. QED
      BY <2>0, <2>1, <2>2, <3>0, <3>1, <3>2, Loud
  <2>5. CASE p[c].deferred # {k}
    <3>. PICK q : q = [p[c] EXCEPT !.deferred = @ \ {k}]
      OBVIOUS
    <3>1. q \in Call /\ q.op = "write" /\ q.w = p[c].w
      BY <1>0, <2>0 DEF Call
    <3>2. p' = [p EXCEPT ![c] = q] /\ lock' = lock
      BY <2>1, <2>5 DEF Goto
    <3>3. CallOK(q)' /\ LockMoves(c, q)
      BY <1>0, <2>0, <3>1, <3>2 DEF LockMoves, CallOK
    <3>. QED
      BY <2>0, <2>1, <2>2, <3>1, <3>2, <3>3, Loud
  <2>. QED
    BY <2>4, <2>5
<1>11. ASSUME NEW k \in Keys, TtlOver(k) PROVE FileInv'
  <2>1. file[k] \in FileEntry /\ file[k].ttl = "running" /\ file[k] # <<>>
    BY <1>0, <1>11 DEF TtlOver, Typed
  <2>. DEFINE e == [file[k] EXCEPT !.ttl = "over"]
  <2>2. e \in FileEntry /\ e.val = file[k].val /\ e.ver = file[k].ver
    BY <2>1 DEF FileEntry
  <2>3. file' = [file EXCEPT ![k] = e] /\ UNCHANGED <<lock, p, versions>>
    BY <1>11 DEF TtlOver
  <2>. HIDE DEF e
  <2>4. e # <<>>
    BY <2>2, EntryIsFile
  <2>5. file' \in [Keys -> {<<>>} \cup FileEntry] /\ \A j \in Keys : file'[j] = IF j = k THEN e ELSE file[j]
    BY <1>0, <2>2, <2>3 DEF Typed
  <2>6. \A j \in Keys : CurrentVersion(j)' = CurrentVersion(j) /\ ContentsOf(j)' = ContentsOf(j)
    BY <2>1, <2>2, <2>4, <2>5 DEF CurrentVersion, ContentsOf
  <2>7. Typed'
    BY <1>0, <2>3, <2>5, <2>6 DEF Typed
  <2>8. Alone'
    BY <2>3 DEF FileInv, Alone, MayRun
  <2>9. ASSUME NEW c \in Clients PROVE CallOK(p[c])'
    <3>. PICK q : q = p[c]
      OBVIOUS
    <3>1. p'[c] = q /\ q \in Call /\ CallOK(q)
      BY <1>0, <2>3
    <3>2. q.op = "read" => \A i \in DOMAIN q.readSet : q.readSet[i][1] \in Keys
      <4>1. q.readSet \in Seq(Keys \X Nat)
        BY <3>1 DEF Call
      <4>. QED
        BY <4>1
    <3>3. q.op = "read" => {ContentsOf(q.readSet[i][1])' : i \in DOMAIN q.readSet}
                             = {ContentsOf(q.readSet[i][1]) : i \in DOMAIN q.readSet}
      BY <2>6, <3>1, <3>2
    <3>4. q.op = "rm" => file'[q.k] # <<>> /\ file'[q.k].ttl = "over"
      BY <2>1, <2>3, <2>5, <3>1 DEF CallOK
    <3>5. CallOK(q)'
      BY <2>3, <2>6, <3>1, <3>3, <3>4 DEF CallOK
    <3>. QED
      BY <3>1, <3>5
  <2>. QED
    BY <2>7, <2>8, <2>9 DEF FileInv
<1>12. CASE Restart
  <2>1. lock' = <<>> /\ p' = [c \in Clients |-> Idle(c)] /\ UNCHANGED <<file, versions>>
    BY <1>12 DEF Restart
  <2>2. \A c \in Clients : p'[c] = Idle(c)
    BY <2>1
  <2>3. \A k : CurrentVersion(k)' = CurrentVersion(k) /\ ContentsOf(k)' = ContentsOf(k)
    BY <2>1 DEF CurrentVersion, ContentsOf
  <2>4. Typed'
    <3>1. \A c \in Clients : Idle(c) \in Call
      BY IdleTyped
    <3>2. <<>> \in Seq(Clients)
      OBVIOUS
    <3>. QED
      BY <1>0, <2>1, <2>3, <3>1, <3>2 DEF Typed
  <2>5. \A c \in Clients : ~Midway(p'[c])
    BY <2>2, IdleTyped DEF Midway
  <2>6. \A c \in Clients : CallOK(Idle(c))
    BY <1>0, IdleTyped, MissingOK
  <2>7. \A c \in Clients : CallOK(p[c])'
    BY <2>1, <2>2, <2>3, <2>6 DEF CallOK
  <2>. QED
    BY <2>4, <2>5, <2>7 DEF FileInv, Alone
<1>13. CASE UNCHANGED fileVars
  <2>1. \A k : CurrentVersion(k)' = CurrentVersion(k) /\ ContentsOf(k)' = ContentsOf(k)
    BY <1>13 DEF fileVars, CurrentVersion, ContentsOf
  <2>. QED
    BY <1>13, <2>1 DEF fileVars, FileInv, Typed, Alone, CallOK, MayRun
<1>. QED
  BY <1>1, <1>2, <1>3, <1>4, <1>5, <1>6, <1>7, <1>8, <1>9, <1>10, <1>11, <1>12, <1>13 DEF FileNext

\* The calls and the files stay in the order described above (`#serialise').
THEOREM FilesInOrder ==
  ASSUME Serialised, ~Torn, TxnsTyped
  PROVE  FileSpec => []FileInv
<1>1. FileInit => FileInv
  BY FileInvInit
<1>2. FileInv /\ [FileNext]_fileVars => FileInv'
  BY FileInvStep
<1>. QED
  BY <1>1, <1>2, PTL DEF FileSpec

-----------------------------------------------------------------------------
(* The step of AtomicStore that each step is.                              *)

\* While nobody writes the files of a transaction, the store holds what they hold.
LEMMA Settled ==
  ASSUME \A c \in Clients : p[c].op # "write"
  PROVE  /\ AbstractContents = [k \in Keys |-> ContentsOf(k)]
         /\ AbstractExpirable = [k \in Keys |-> file[k] # <<>> /\ file[k].ttl # "none"]
<1>1. \A k : Committing(k) = {}
  BY DEF Committing
<1>. QED
  BY <1>1 DEF AbstractContents, AbstractExpirable

\* While one caller does, it holds what he writes under the keys he has left.
LEMMA Committed ==
  ASSUME NEW c \in Clients, p[c].op = "write", \A d \in Clients \ {c} : p[d].op # "write"
  PROVE  /\ AbstractContents = [k \in Keys |-> IF k \in p[c].deferred THEN p[c].seen.val \cup {p[c].w}
                                               ELSE ContentsOf(k)]
         /\ AbstractExpirable = [k \in Keys |-> k \notin p[c].deferred
                                                /\ file[k] # <<>> /\ file[k].ttl # "none"]
<1>1. \A k : Committing(k) = IF k \in p[c].deferred THEN {c} ELSE {}
  BY DEF Committing
<1>. QED
  BY <1>1 DEF AbstractContents, AbstractExpirable

LEMMA OneWriter ==
  ASSUME Serialised, FileInv, NEW c \in Clients, MayRun(c)
  PROVE  \A d \in Clients \ {c} : p[d].op # "write"
BY DEF FileInv, Alone, Midway, MayRun

\* A caller that neither begins, goes on with nor ends the files of a transaction
\* changes nothing as long as he leaves the files alone.
LEMMA Unseen ==
  ASSUME Typed, NEW c \in Clients, NEW q \in Call, p' = [p EXCEPT ![c] = q], file' = file,
         p[c].op # "write", q.op # "write"
  PROVE  UNCHANGED <<AbstractContents, AbstractExpirable>>
<1>1. p'[c] = q /\ \A d \in Clients \ {c} : p'[d] = p[d]
  BY DEF Typed
<1>2. \A k : Committing(k)' = Committing(k)
  BY <1>1 DEF Committing
<1>3. \A k : \A d \in Committing(k) : p'[d] = p[d]
  BY <1>1 DEF Committing
<1>4. \A k : ContentsOf(k)' = ContentsOf(k)
  BY DEF ContentsOf
<1>5. ASSUME NEW k \in Keys
      PROVE  AbstractContents'[k] = AbstractContents[k] /\ AbstractExpirable'[k] = AbstractExpirable[k]
  <2>1. CASE Committing(k) = {}
    BY <1>2, <1>4, <2>1 DEF AbstractContents, AbstractExpirable
  <2>2. CASE Committing(k) # {}
    <3>. PICK d : d = CHOOSE e \in Committing(k) : TRUE
      OBVIOUS
    <3>1. d \in Committing(k)
      BY <2>2
    <3>2. d = (CHOOSE e \in Committing(k) : TRUE)'
      BY <1>2
    <3>. QED
      BY ZenonT(40), <1>2, <1>3, <2>2, <3>1, <3>2 DEF AbstractContents, AbstractExpirable
  <2>. QED
    BY <2>1, <2>2
<1>. QED
  BY <1>5 DEF AbstractContents, AbstractExpirable

\* The accesses to the files of FileKVAtomicStore add up to writes in one step each,
\* computed from what the keys hold in that step: its store is an AtomicStore.
THEOREM FilesSerialized ==
  ASSUME Serialised, ~Torn, TxnsTyped
  PROVE  FileSpec => FilesSerial
<1>. USE DEF Abstract!vars
<1>1. FileInit => Abstract!Init
  <2>. SUFFICES ASSUME FileInit PROVE Abstract!Init
    OBVIOUS
  <2>1. \A c \in Clients : p[c].op # "write"
    BY IdleTyped DEF FileInit
  <2>2. \A k \in Keys : file[k] = <<>> /\ ContentsOf(k) = {}
    BY DEF FileInit, ContentsOf
  <2>3. /\ AbstractContents = [k \in Keys |-> {}]
        /\ AbstractExpirable = [k \in Keys |-> FALSE]
    BY <2>1, <2>2, Settled
  <2>. QED
    BY <2>3 DEF Abstract!Init
<1>2. FileInv /\ [FileNext]_fileVars => [Abstract!Next]_Abstract!vars
  <2>. SUFFICES ASSUME FileInv, [FileNext]_fileVars PROVE [Abstract!Next]_Abstract!vars
    OBVIOUS
  <2>0. Typed /\ \A c \in Clients : p[c] \in Call /\ CallOK(p[c])
    BY DEF FileInv, Typed
  <2>1. ASSUME NEW c \in Clients, NEW k \in Keys, CallGet(c, k) PROVE UNCHANGED Abstract!vars
    <3>1. LET q == [Idle(c) EXCEPT !.op = "get", !.k = k]
          IN  q \in Call /\ q.op = "get" /\ p' = [p EXCEPT ![c] = q]
      BY <2>1, IdleTyped DEF Call, CallGet, Enter
    <3>. QED
      BY <2>0, <2>1, <3>1, Unseen DEF CallGet
  <2>2. ASSUME NEW c \in Clients, NEW w \in Writes, NEW ttl \in BOOLEAN, CallSet(c, w, ttl)
        PROVE  UNCHANGED Abstract!vars
    <3>1. LET q == [Idle(c) EXCEPT !.op = "set", !.k = p[c].k, !.seen = p[c].seen, !.ttl = ttl, !.w = w]
          IN  q \in Call /\ q.op = "set" /\ p' = [p EXCEPT ![c] = q]
      BY ZenonT(40), <2>0, <2>2, IdleTyped DEF Call, CallSet, Enter
    <3>. QED
      BY <2>0, <2>2, <3>1, Unseen DEF CallSet
  <2>3. ASSUME NEW c \in Clients, NEW w \in Writes, NEW txn \in Txns, CallTransact(c, w, txn)
        PROVE  UNCHANGED Abstract!vars
    <3>1. LET q == [Idle(c) EXCEPT !.op = "read", !.w = w, !.reads = txn.reads, !.deferred = txn.writes]
          IN  q \in Call /\ q.op = "read" /\ p' = [p EXCEPT ![c] = q]
      BY <2>3, IdleTyped DEF Call, CallTransact, Enter, TxnsTyped
    <3>. QED
      BY <2>0, <2>3, <3>1, Unseen DEF CallTransact
  <2>4. ASSUME NEW c \in Clients, GetRead(c) PROVE UNCHANGED Abstract!vars
    <3>1. PICK q \in Call : p' = [p EXCEPT ![c] = q] /\ q.op # "write"
      <4>1. CASE file[p[c].k] # <<>> /\ file[p[c].k].ttl = "over"
        <5>1. [p[c] EXCEPT !.op = "rm"] \in Call /\ [p[c] EXCEPT !.op = "rm"].op = "rm"
          BY <2>0 DEF Call
        <5>. QED
          BY <2>4, <4>1, <5>1 DEF GetRead, Goto
      <4>2. CASE ~(file[p[c].k] # <<>> /\ file[p[c].k].ttl = "over")
        <5>. DEFINE s == IF ContentsOf(p[c].k) = {} THEN Missing
                         ELSE [val |-> file[p[c].k].val, ver |-> file[p[c].k].ver]
                    r == [Idle(c) EXCEPT !.k = p[c].k, !.seen = s]
        <5>1. p[c].k \in Keys
          BY <2>0, <2>4 DEF GetRead, CallOK
        <5>2. s \in [val : SUBSET Writes, ver : Nat]
          BY <2>0, <5>1 DEF ContentsOf, Missing, Typed, FileEntry, Null
        <5>3. p' = [p EXCEPT ![c] = r]
          BY <2>4, <4>2 DEF GetRead, Leave
        <5>. HIDE DEF s
        <5>4. r \in Call /\ r.op = "idle"
          BY <5>1, <5>2, IdleTyped DEF Call
        <5>. QED
          BY <5>3, <5>4
      <4>. QED
        BY <4>1, <4>2
    <3>. QED
      BY <2>0, <2>4, <3>1, Unseen DEF GetRead
  <2>5. ASSUME NEW c \in Clients, GetRemove(c) PROVE Abstract!Next
    <3>. PICK k : k = p[c].k
      OBVIOUS
    <3>1. k \in Keys /\ file[k] # <<>> /\ file[k].ttl = "over" /\ MayRun(c) /\ p[c].op = "rm"
      BY <2>0, <2>5 DEF GetRemove, CallOK
    <3>2. /\ \A d \in Clients : p[d].op # "write" /\ p'[d].op # "write"
          /\ file' = [file EXCEPT ![k] = <<>>]
      <4>1. p' = [p EXCEPT ![c] = [Idle(c) EXCEPT !.k = k]] /\ [Idle(c) EXCEPT !.k = k].op = "idle"
        BY <2>5, IdleTyped DEF GetRemove, Leave, Call
      <4>. QED
        BY <2>0, <2>5, <3>1, <4>1, OneWriter DEF GetRemove, Typed
    <3>3. /\ AbstractContents = [j \in Keys |-> ContentsOf(j)]
          /\ AbstractExpirable = [j \in Keys |-> file[j] # <<>> /\ file[j].ttl # "none"]
      BY <3>2, Settled
    <3>4. /\ AbstractContents' = [j \in Keys |-> ContentsOf(j)']
          /\ AbstractExpirable' = [j \in Keys |-> file'[j] # <<>> /\ file'[j].ttl # "none"]
      BY <3>2 DEF AbstractContents, AbstractExpirable, Committing
    <3>5. \A j \in Keys : file'[j] = IF j = k THEN <<>> ELSE file[j]
      BY <2>0, <3>2 DEF Typed
    <3>6. Abstract!Expire({k})
      BY <3>1, <3>3, <3>4, <3>5 DEF Abstract!Expire, ContentsOf
    <3>. QED
      BY <3>1, <3>6 DEF Abstract!Next
  <2>6. ASSUME NEW c \in Clients, SetRead(c) PROVE UNCHANGED Abstract!vars
    <3>1. PICK q \in Call : p' = [p EXCEPT ![c] = q] /\ q.op # "write"
      <4>0. p[c].k \in Keys
        BY <2>0, <2>6 DEF SetRead, CallOK
      <4>1. [p[c] EXCEPT !.op = "put"] \in Call /\ [p[c] EXCEPT !.op = "put"].op = "put"
        BY <2>0 DEF Call
      <4>2. LET r == [Idle(c) EXCEPT !.k = p[c].k, !.seen = p[c].seen] IN r \in Call /\ r.op = "idle"
        BY ZenonT(40), <2>0, <4>0, IdleTyped DEF Call
      <4>. QED
        BY <2>6, <4>1, <4>2 DEF SetRead, Goto, Forget, Leave
    <3>. QED
      BY <2>0, <2>6, <3>1, Unseen DEF SetRead
  <2>7. ASSUME NEW c \in Clients, SetWrite(c) PROVE Abstract!Next
    <3>. PICK k, w, ttl, e : /\ k = p[c].k /\ w = p[c].w /\ ttl = p[c].ttl
                             /\ e = Entry(p[c].seen.val \cup {p[c].w}, p[c].ttl)
      OBVIOUS
    <3>1. /\ k \in Keys /\ w \in Writes /\ ttl \in BOOLEAN /\ MayRun(c) /\ p[c].op = "put"
          /\ p[c].seen.val = ContentsOf(k)
      BY <2>0, <2>7 DEF SetWrite, CallOK, Call
    <3>2. /\ \A d \in Clients : p[d].op # "write" /\ p'[d].op # "write"
          /\ file' = [file EXCEPT ![k] = e]
      <4>1. LET r == [Idle(c) EXCEPT !.k = p[c].k, !.seen = p[c].seen]
            IN  p' = [p EXCEPT ![c] = r] /\ r.op = "idle"
        BY <2>7, IdleTyped DEF SetWrite, Forget, Leave, Call
      <4>. QED
        BY <2>0, <2>7, <3>1, <4>1, OneWriter DEF SetWrite, Typed
    <3>3. /\ AbstractContents = [j \in Keys |-> ContentsOf(j)]
          /\ AbstractExpirable = [j \in Keys |-> file[j] # <<>> /\ file[j].ttl # "none"]
      BY <3>2, Settled
    <3>4. /\ AbstractContents' = [j \in Keys |-> ContentsOf(j)']
          /\ AbstractExpirable' = [j \in Keys |-> file'[j] # <<>> /\ file'[j].ttl # "none"]
      BY <3>2 DEF AbstractContents, AbstractExpirable, Committing
    <3>5. \A j \in Keys : file'[j] = IF j = k THEN e ELSE file[j]
      BY <2>0, <3>2 DEF Typed
    <3>6. /\ e # <<>> /\ e.val = ContentsOf(k) \cup {w} /\ e.ttl = IF ttl THEN "running" ELSE "none"
      <4>1. e \in FileEntry
        BY <2>0, <3>1 DEF Entry, FileEntry, Call, Typed, Null
      <4>. QED
        BY <3>1, <4>1, EntryIsFile DEF Entry
    <3>7. AbstractContents' = [AbstractContents EXCEPT ![k] = @ \cup {w}]
      BY <3>1, <3>3, <3>4, <3>5, <3>6 DEF ContentsOf
    <3>8. AbstractExpirable' = [AbstractExpirable EXCEPT ![k] = ttl]
      BY <3>1, <3>3, <3>4, <3>5, <3>6
    <3>. QED
      BY <3>1, <3>7, <3>8 DEF Abstract!Next, Abstract!Set
  <2>8. ASSUME NEW c \in Clients, TxnRead(c) PROVE UNCHANGED Abstract!vars
    <3>. DEFINE k == Head(p[c].reads)
    <3>0. p[c].op = "read" /\ p[c].reads # <<>> /\ file' = file
      BY <2>8 DEF TxnRead
    <3>1. /\ k \in Keys /\ Tail(p[c].reads) \in Seq(Keys)
          /\ CurrentVersion(k) \in Nat /\ ContentsOf(k) \in SUBSET Writes
      <4>1. k \in Keys /\ Tail(p[c].reads) \in Seq(Keys)
        BY <2>0, <3>0 DEF Call
      <4>. QED
        BY <2>0, <4>1 DEF CurrentVersion, ContentsOf, Typed, FileEntry, Null
    <3>. HIDE DEF k
    <3>2. Append(p[c].readSet, <<k, CurrentVersion(k)>>) \in Seq(Keys \X Nat)
      BY <2>0, <3>1 DEF Call
    <3>3. PICK q \in Call : p' = [p EXCEPT ![c] = q] /\ q.op = "read"
      <4>. DEFINE r == [p[c] EXCEPT !.reads = Tail(@), !.readSet = Append(@, <<k, CurrentVersion(k)>>),
                                    !.seen = [val |-> p[c].seen.val \cup ContentsOf(k), ver |-> Null]]
      <4>1. r \in Call /\ r.op = "read"
        BY ZenonT(40), <2>0, <3>0, <3>1, <3>2 DEF Call, Null
      <4>2. p' = [p EXCEPT ![c] = r]
        BY <2>8 DEF TxnRead, Goto, k
      <4>. QED
        BY <4>1, <4>2
    <3>. QED
      BY <2>0, <3>0, <3>3, Unseen
  <2>9. ASSUME NEW c \in Clients, TxnVerify(c) PROVE [Abstract!Next]_Abstract!vars
    <3>0. p[c].op = "read" /\ file' = file /\ MayRun(c)
      BY <2>9 DEF TxnVerify
    <3>1. CASE ~(Unchanged(p[c]) /\ p[c].deferred # {})
      <4>1. p' = [p EXCEPT ![c] = Idle(c)]
        BY <2>9, <3>1 DEF TxnVerify, Leave
      <4>. QED
        BY <2>0, <3>0, <4>1, IdleTyped, Unseen
    <3>2. CASE Unchanged(p[c]) /\ p[c].deferred # {}
      <4>. PICK w, W, R, val : /\ w = p[c].w /\ W = p[c].deferred /\ val = p[c].seen.val
                               /\ R = {p[c].readSet[i][1] : i \in DOMAIN p[c].readSet}
        OBVIOUS
      <4>1. p' = [p EXCEPT ![c] = [p[c] EXCEPT !.op = "write"]]
        BY <2>9, <3>2 DEF TxnVerify, Goto
      <4>2. /\ p'[c].op = "write" /\ p'[c].deferred = W /\ p'[c].seen.val = val /\ p'[c].w = w
            /\ \A d \in Clients \ {c} : p'[d] = p[d] /\ p[d].op # "write"
        BY <2>0, <3>0, <4>1, OneWriter DEF Typed, Call
      <4>3. w \in Writes /\ W \in SUBSET Keys /\ R \in SUBSET Keys
        <5>1. \A i \in DOMAIN p[c].readSet : p[c].readSet[i][1] \in Keys
          <6>1. p[c].readSet \in Seq(Keys \X Nat)
            BY <2>0 DEF Call
          <6>. QED
            BY <6>1
        <5>. QED
          BY <2>0, <3>0, <5>1 DEF CallOK, Call
      <4>4. val = UNION {ContentsOf(j) : j \in R}
        <5>1. val = UNION {ContentsOf(p[c].readSet[i][1]) : i \in DOMAIN p[c].readSet}
          BY <2>0, <3>0 DEF CallOK
        <5>. QED
          BY <5>1
      <4>5. /\ AbstractContents = [k \in Keys |-> ContentsOf(k)]
            /\ AbstractExpirable = [k \in Keys |-> file[k] # <<>> /\ file[k].ttl # "none"]
        BY <3>0, <4>2, Settled
      <4>6. \A k : Committing(k)' = IF k \in W THEN {c} ELSE {}
        BY <4>2 DEF Committing
      <4>7. /\ AbstractContents' = [k \in Keys |-> IF k \in W THEN val \cup {w} ELSE ContentsOf(k)]
            /\ AbstractExpirable' = [k \in Keys |-> k \notin W /\ file[k] # <<>> /\ file[k].ttl # "none"]
        BY <3>0, <4>2, <4>6 DEF AbstractContents, AbstractExpirable, ContentsOf
      <4>8. {AbstractContents[j] : j \in R} = {ContentsOf(j) : j \in R}
        BY <4>3, <4>5
      <4>9. Abstract!Transact(w, R, W, {})
        BY <4>4, <4>5, <4>7, <4>8 DEF Abstract!Transact
      <4>. QED
        BY <4>3, <4>9 DEF Abstract!Next
    <3>. QED
      BY <3>1, <3>2
  <2>10. ASSUME NEW c \in Clients, TxnWrite(c) PROVE UNCHANGED Abstract!vars
    <3>1. PICK k \in p[c].deferred :
            /\ file' = [file EXCEPT ![k] = Entry(p[c].seen.val \cup {p[c].w}, FALSE)]
            /\ IF p[c].deferred = {k} THEN Leave(c, Idle(c))
               ELSE Goto(c, [p[c] EXCEPT !.deferred = @ \ {k}])
      BY <2>10 DEF TxnWrite
    <3>. PICK w, W, val, e : /\ w = p[c].w /\ W = p[c].deferred /\ val = p[c].seen.val
                             /\ e = Entry(p[c].seen.val \cup {p[c].w}, FALSE)
      OBVIOUS
    <3>2. p[c].op = "write" /\ MayRun(c) /\ W \in SUBSET Keys /\ k \in W
      BY <2>0, <2>10, <3>1 DEF TxnWrite, Call
    <3>3. e # <<>> /\ e.val = val \cup {w} /\ e.ttl = "none"
      <4>1. e \in FileEntry
        BY <2>0, <3>2 DEF Entry, FileEntry, Call, CallOK, Typed, Null
      <4>. QED
        BY <4>1, EntryIsFile DEF Entry
    <3>4. \A d \in Clients \ {c} : p[d].op # "write" /\ p'[d] = p[d]
      BY <2>0, <3>1, <3>2, OneWriter DEF Leave, Goto, Typed
    <3>5. /\ AbstractContents = [j \in Keys |-> IF j \in W THEN val \cup {w} ELSE ContentsOf(j)]
          /\ AbstractExpirable = [j \in Keys |-> j \notin W /\ file[j] # <<>> /\ file[j].ttl # "none"]
      BY <3>2, <3>4, Committed
    <3>6. \A j \in Keys : file'[j] = IF j = k THEN e ELSE file[j]
      BY <2>0, <3>1 DEF Typed
    <3>7. CASE W = {k}
      <4>1. p' = [p EXCEPT ![c] = Idle(c)]
        BY <3>1, <3>7 DEF Leave
      <4>2. \A d \in Clients : p'[d].op # "write"
        BY <2>0, <3>4, <4>1, IdleTyped DEF Typed
      <4>3. /\ AbstractContents' = [j \in Keys |-> ContentsOf(j)']
            /\ AbstractExpirable' = [j \in Keys |-> file'[j] # <<>> /\ file'[j].ttl # "none"]
        BY <4>2 DEF AbstractContents, AbstractExpirable, Committing
      <4>. QED
        BY <3>3, <3>5, <3>6, <3>7, <4>3 DEF ContentsOf
    <3>8. CASE W # {k}
      <4>1. p' = [p EXCEPT ![c] = [p[c] EXCEPT !.deferred = @ \ {k}]]
        BY <3>1, <3>8 DEF Goto
      <4>2. p'[c].op = "write" /\ p'[c].deferred = W \ {k} /\ p'[c].seen.val = val /\ p'[c].w = w
        BY <2>0, <3>2, <4>1 DEF Typed, Call
      <4>3. \A j : Committing(j)' = IF j \in W \ {k} THEN {c} ELSE {}
        BY <3>4, <4>2 DEF Committing
      <4>4. /\ AbstractContents' = [j \in Keys |-> IF j \in W \ {k} THEN val \cup {w} ELSE ContentsOf(j)']
            /\ AbstractExpirable' = [j \in Keys |-> j \notin W \ {k} /\ file'[j] # <<>> /\ file'[j].ttl # "none"]
        BY <4>2, <4>3 DEF AbstractContents, AbstractExpirable
      <4>. QED
        BY <3>2, <3>3, <3>5, <3>6, <4>4 DEF ContentsOf
    <3>. QED
      BY <3>7, <3>8
  <2>11. ASSUME NEW k \in Keys, TtlOver(k) PROVE UNCHANGED Abstract!vars
    <3>1. file[k] \in FileEntry /\ file[k].ttl = "running" /\ p' = p
      BY <2>0, <2>11 DEF TtlOver, Typed
    <3>. PICK e : e = [file[k] EXCEPT !.ttl = "over"]
      OBVIOUS
    <3>2. e \in FileEntry /\ e.val = file[k].val /\ e.ttl = "over"
      BY <3>1 DEF FileEntry
    <3>3. \A j \in Keys : file'[j] = IF j = k THEN e ELSE file[j]
      BY <2>0, <2>11 DEF TtlOver, Typed
    <3>4. \A j \in Keys : /\ ContentsOf(j)' = ContentsOf(j)
                          /\ (file'[j] # <<>> /\ file'[j].ttl # "none") <=> (file[j] # <<>> /\ file[j].ttl # "none")
      BY <3>1, <3>2, <3>3, EntryIsFile DEF ContentsOf
    <3>5. \A j : Committing(j)' = Committing(j)
      BY <3>1 DEF Committing
    <3>. QED
      BY <3>1, <3>4, <3>5 DEF AbstractContents, AbstractExpirable
  <2>12. CASE Restart
    <3>1. \A c \in Clients : p[c].op # "write" /\ p'[c].op # "write"
      BY <2>12, IdleTyped DEF Restart
    <3>2. \A k : Committing(k) = {} /\ Committing(k)' = {}
      BY <3>1 DEF Committing
    <3>. QED
      BY <2>12, <3>2 DEF AbstractContents, AbstractExpirable, ContentsOf, Restart
  <2>13. CASE UNCHANGED fileVars
    BY <2>13 DEF fileVars, AbstractContents, AbstractExpirable, Committing, ContentsOf
  <2>. QED
    BY <2>1, <2>2, <2>3, <2>4, <2>5, <2>6, <2>7, <2>8, <2>9, <2>10, <2>11, <2>12, <2>13 DEF FileNext
<1>3. FileInit => FileInv
  BY FileInvInit
<1>4. FileInv /\ [FileNext]_fileVars => FileInv'
  BY FileInvStep
<1>. QED
  BY <1>1, <1>2, <1>3, <1>4, PTL DEF FileSpec, FilesSerial, Abstract!Spec

-----------------------------------------------------------------------------
(* The timer: an alarm of a running object is not due before the tick it is  *)
(* for, and it is set until the object is stopped or evicted.                *)

TimerInv ==
    /\ now \in Nat /\ firstAlarmAt \in Nat /\ tickCount \in Nat
    /\ alarm \subseteq Nat
    /\ running => /\ firstAlarmAt <= now
                  /\ \A a \in alarm : NextAt <= a
                  /\ TimerSound

LEMMA OneMore ==
  ASSUME NEW n \in Nat
  PROVE  n * Interval \in Nat /\ (n + 1) * Interval = n * Interval + Interval
         /\ 0 * Interval = 0 /\ Interval \in Nat
BY IntervalAssumption

LEMMA TimerStep == TimerInv /\ [TimerNext]_timerVars => TimerInv'
<1>. SUFFICES ASSUME TimerInv, [TimerNext]_timerVars PROVE TimerInv'
  OBVIOUS
<1>. USE DEF TimerSound, TicksBounded, StillArmed, NextAt
<1>t. /\ now \in Nat /\ firstAlarmAt \in Nat /\ tickCount \in Nat /\ alarm \subseteq Nat
      /\ tickCount * Interval \in Nat /\ Interval \in Nat
  BY OneMore DEF TimerInv
\* What a running object promises, before the step.
<1>r. running => /\ firstAlarmAt <= now
                 /\ \A a \in alarm : NextAt <= a
                 /\ tickCount * Interval <= now - firstAlarmAt + Interval
                 /\ calling \/ alarm # {}
  BY DEF TimerInv
<1>1. CASE UNCHANGED <<now, running, tickCount, firstAlarmAt, alarm, calling>>
  BY <1>t, <1>r, <1>1 DEF TimerInv
<1>2. ASSUME NEW r \in asked, ServeStart(r), UNCHANGED <<now, calling>> PROVE TimerInv'
  <2>1. running' = TRUE /\ tickCount' = 0 /\ firstAlarmAt' = now /\ alarm' = {now + Interval}
    BY <1>2 DEF ServeStart
  <2>2. 0 * Interval = 0
    BY OneMore
  <2>3. now' = now /\ calling' = calling
    BY <1>2
  <2>. QED
    BY <1>t, <2>1, <2>2, <2>3 DEF TimerInv
<1>3. ASSUME NEW r \in asked, ServeStop(r), UNCHANGED <<now, calling>> PROVE TimerInv'
  BY <1>t, <1>3 DEF ServeStop, TimerInv
<1>4. CASE AlarmFires
  <2>. PICK a \in alarm : a <= now
    BY <1>4 DEF AlarmFires
  <2>1. alarm' = {} /\ now' = now /\ running' = running /\ firstAlarmAt' = firstAlarmAt
    BY <1>4 DEF AlarmFires
  <2>2. CASE running
    <3>1. calling' = TRUE /\ tickCount' = tickCount + 1
      BY <1>4, <2>2 DEF AlarmFires
    <3>2. firstAlarmAt + tickCount * Interval <= now
      BY <1>t, <1>r, <2>2
    <3>3. (tickCount + 1) * Interval = tickCount * Interval + Interval
      BY <1>t, OneMore
    <3>4. tickCount' * Interval <= now' - firstAlarmAt' + Interval
      BY <1>t, <2>1, <3>1, <3>2, <3>3
    <3>. QED
      BY <1>t, <1>r, <2>1, <2>2, <3>1, <3>4 DEF TimerInv
  <2>3. CASE ~running
    BY <1>4, <1>t, <2>1, <2>3 DEF AlarmFires, TimerInv
  <2>. QED
    BY <2>2, <2>3
<1>5. CASE AlarmEnds
  <2>1. /\ alarm' = {firstAlarmAt + tickCount * Interval}
        /\ UNCHANGED <<now, running, tickCount, firstAlarmAt>>
    BY <1>5 DEF AlarmEnds
  <2>2. firstAlarmAt + tickCount * Interval \in Nat
    BY <1>t
  <2>. QED
    BY <1>t, <1>r, <2>1, <2>2 DEF TimerInv
<1>6. CASE Evict
  BY <1>t, <1>6 DEF Evict, TimerInv
<1>7. CASE Pass
  <2>1. now' = now + 1 /\ UNCHANGED <<running, tickCount, firstAlarmAt, alarm, calling>>
    BY <1>7 DEF Pass
  <2>. QED
    BY <1>t, <1>r, <2>1 DEF TimerInv
<1>. QED
  BY <1>1, <1>2, <1>3, <1>4, <1>5, <1>6, <1>7 DEF TimerNext, timerVars, Serve, Start, Clear

\* The object ticks at most once per interval and once more since it was started,
\* and unless it was stopped or evicted it has its alarm or is about to set it,
\* although requests come while alarm() awaits the callback (alarm-timer-do.ts).
THEOREM TimerKept == TimerSpec => []TimerSound
<1>1. TimerInit => TimerInv
  BY DEF TimerInit, TimerInv
<1>2. TimerInv => TimerSound
  BY DEF TimerInv, TimerSound, TicksBounded, StillArmed
<1>. QED
  BY <1>1, <1>2, TimerStep, PTL DEF TimerSpec
=============================================================================
