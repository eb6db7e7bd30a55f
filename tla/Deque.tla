-------------------------------- MODULE Deque --------------------------------
(* What a queue promises: a sequence that grows at one end, shrinks at both,  *)
(* and can be rotated by one place.                                           *)
EXTENDS Integers, Sequences

CONSTANT Element
VARIABLE items

Front1 == SubSeq(items, 1, Len(items) - 1)

Init == items = <<>>

Enqueue(v) == items' = Append(items, v)
Dequeue == items # <<>> /\ items' = Tail(items)
DequeueTail == items # <<>> /\ items' = Front1
Rotate == items # <<>> /\ items' = Append(Tail(items), Head(items))
Clear == items' = <<>>

Next == (\E v \in Element : Enqueue(v)) \/ Dequeue \/ DequeueTail \/ Rotate \/ Clear

Spec == Init /\ [][Next]_items
=============================================================================
