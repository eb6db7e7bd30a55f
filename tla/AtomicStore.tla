---------------------------- MODULE AtomicStore ----------------------------
(***************************************************************************)
(* What IAtomicStore (src/core/store/interfaces.ts) promises its callers,  *)
(* without versions, requests or time: every write, of one key or of a     *)
(* transaction, happens in one step and is computed from what the keys it  *)
(* read hold in that very step.  A value is the set of writes it reflects: *)
(* a write that lost another one is a step this specification lacks.       *)
(***************************************************************************)
CONSTANTS Keys,      \* keys of one store shard
          TxnKeys,   \* keys that callers use in transact()
          Writes     \* identities of the writes

VARIABLES contents,  \* contents[k]: writes the value under k reflects, {} for none
          expirable  \* expirable[k]: the value was written with ttlSeconds

vars == <<contents, expirable>>

Init == /\ contents = [k \in Keys |-> {}]
        /\ expirable = [k \in Keys |-> FALSE]

\* set(): write w adds to what the key holds, or sets it to null.
Set(w, k, ttl) ==
  /\ \/ contents' = [contents EXCEPT ![k] = @ \cup {w}]
     \/ contents' = [contents EXCEPT ![k] = {}]
  /\ expirable' = [expirable EXCEPT ![k] = ttl]

\* transact(): write w read R, gives every key of W a value that reflects all it
\* read and w itself, and sets the keys of D to null.
Transact(w, R, W, D) ==
  /\ contents' = [k \in Keys |-> IF k \in W THEN (UNION {contents[j] : j \in R}) \cup {w}
                                 ELSE IF k \in D THEN {} ELSE contents[k]]
  /\ expirable' = [k \in Keys |-> IF k \in W \cup D THEN FALSE ELSE expirable[k]]

\* Values written with a TTL go away; nothing else does.
Expire(K) ==
  /\ \A k \in K : expirable[k]
  /\ contents' = [k \in Keys |-> IF k \in K THEN {} ELSE contents[k]]
  /\ expirable' = [k \in Keys |-> IF k \in K THEN FALSE ELSE expirable[k]]

Next == \/ \E w \in Writes, k \in Keys, ttl \in BOOLEAN : Set(w, k, ttl)
        \/ \E w \in Writes, R \in SUBSET Keys, W, D \in SUBSET TxnKeys : Transact(w, R, W, D)
        \/ \E K \in SUBSET Keys : Expire(K)

Spec == Init /\ [][Next]_vars
=============================================================================
