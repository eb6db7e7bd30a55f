------------------------------ MODULE RingQueue ------------------------------
(* core/circular-queue/queue.ts: the ring buffer under the event loop's phase *)
(* queues. Positions wrap around; a queue without a fixed capacity doubles    *)
(* when it is full and unrolls its contents on the way.                       *)
EXTENDS Integers, Sequences

CONSTANTS Element, Undefined,
          Capacities,    \* the capacities a queue may start with
          MaxCapacity    \* bound: a growing queue stops being offered values here

ASSUME RingAssumption == /\ Undefined \notin Element
                         /\ Capacities \subseteq Nat \ {0}
                         /\ MaxCapacity \in Nat

VARIABLES buffer,      \* slot |-> value or Undefined
          capacity, size, head, tail,
          fixed        \* BOOLEAN: the capacity was given

vars == <<buffer, capacity, size, head, tail, fixed>>

Empty(c) == [i \in 0 .. c - 1 |-> Undefined]

Init == /\ capacity \in Capacities /\ fixed \in BOOLEAN
        /\ buffer = Empty(capacity)
        /\ size = 0 /\ head = 0 /\ tail = 0

\* The slot of the i-th element, counted from the head.
Slot(i) == (head + i) % capacity
toArray == [i \in 1 .. size |-> buffer[Slot(i - 1)]]

\* Negative positions count from the tail; Undefined is out of range.
at(index) == LET i == IF index < 0 THEN size + index ELSE index IN
             IF i \in 0 .. size - 1 THEN buffer[Slot(i)] ELSE Undefined

----------------------------------------------------------------------------
\* Mutant: the contents are copied as they lie.
resizeRolled == [i \in 0 .. 2 * capacity - 1 |-> IF i < size THEN buffer[i] ELSE Undefined]

\* The contents move to the front of twice the room.
resize == [i \in 0 .. 2 * capacity - 1 |-> IF i < size THEN buffer[Slot(i)] ELSE Undefined]

Place(b, h, t, c, v) == /\ buffer' = [b EXCEPT ![t] = v]
                        /\ head' = h /\ tail' = (t + 1) % c
                        /\ capacity' = c /\ size' = size + 1
                        /\ UNCHANGED fixed

EnqueueRoom(v) == size < capacity /\ Place(buffer, head, tail, capacity, v)
EnqueueRefused(v) == size = capacity /\ fixed /\ UNCHANGED vars
EnqueueGrown(v) == /\ size = capacity /\ ~fixed
                   /\ 2 * capacity <= MaxCapacity
                   /\ Place(resize, 0, size, 2 * capacity, v)

dequeue == /\ size > 0
           /\ buffer' = [buffer EXCEPT ![head] = Undefined]
           /\ head' = (head + 1) % capacity /\ size' = size - 1
           /\ UNCHANGED <<capacity, tail, fixed>>

LastSlot == (tail - 1 + capacity) % capacity
dequeueTail == /\ size > 0
               /\ tail' = LastSlot
               /\ buffer' = [buffer EXCEPT ![LastSlot] = Undefined]
               /\ size' = size - 1
               /\ UNCHANGED <<capacity, head, fixed>>

\* dequeue() and then enqueue() of what it returned: the slot just freed may
\* be the one that is filled.
rotate == /\ size > 1
          /\ buffer' = [[buffer EXCEPT ![head] = Undefined] EXCEPT ![tail] = buffer[head]]
          /\ head' = (head + 1) % capacity /\ tail' = (tail + 1) % capacity
          /\ UNCHANGED <<capacity, size, fixed>>

clear == /\ buffer' = Empty(capacity)
         /\ head' = 0 /\ tail' = 0 /\ size' = 0
         /\ UNCHANGED <<capacity, fixed>>

Next == \/ \E v \in Element : EnqueueRoom(v) \/ EnqueueRefused(v) \/ EnqueueGrown(v)
        \/ dequeue \/ dequeueTail \/ rotate \/ clear

Spec == Init /\ [][Next]_vars

----------------------------------------------------------------------------
\* Type invariant: the positions are slots of the buffer.
TypeOK == /\ capacity \in Nat \ {0} /\ fixed \in BOOLEAN
          /\ size \in 0 .. capacity
          /\ head \in 0 .. capacity - 1 /\ tail \in 0 .. capacity - 1
          /\ buffer \in [0 .. capacity - 1 -> Element \cup {Undefined}]

\* The tail is `size` places after the head and the slots between them, and
\* only those, hold values: enqueue() never overwrites a queued value.
WellFormed == /\ TypeOK
              /\ tail = Slot(size)
              /\ \A i \in 0 .. capacity - 1 : (buffer[Slot(i)] \in Element) <=> (i < size)
              /\ \A i \in 1 .. size : at(-i) = at(size - i) /\ at(i - 1) # Undefined

\* The ring is the queue it promises to be, whatever mixture of operations
\* wraps it around, grows it and empties it from either end.
Contents == INSTANCE Deque WITH items <- toArray
ImplementsDeque == Contents!Spec
=============================================================================
