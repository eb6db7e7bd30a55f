------------------------------- MODULE Cells -------------------------------
(* One key of the atomic store as the services above it use it: get() returns *)
(* the value with its version, set(key, value, version) is a compare-and-set  *)
(* whose null version means "only if absent" and whose null value deletes.    *)
(* DurableStore and CachedStore model how the adapters provide this.          *)
EXTENDS Naturals, Sequences

Null == 0                                     \* the version null

\* val holds the value, if any; ver is the version stored with it; n counts the
\* versions given so far, so that none is given twice.
Empty == [val |-> <<>>, ver |-> Null, n |-> 0]       \* a key never written
Holding(v) == [val |-> <<v>>, ver |-> 1, n |-> 1]    \* a key written once

Present(c) == c.val # <<>>
Value(c) == c.val[1]

\* get() of a missing key, and of a stored null, is null.
Version(c) == IF Present(c) THEN c.ver ELSE Null

\* set() compares with the stored version: a key set to null keeps one, so a
\* create-only write of it is refused.
Accepts(c, version) == c.ver = version

Stored(c, version, val) ==
    IF Accepts(c, version) THEN [val |-> val, ver |-> c.n + 1, n |-> c.n + 1] ELSE c

Put(c, version, v) == Stored(c, version, <<v>>)      \* set(key, v, version)
Erase(c, version) == Stored(c, version, <<>>)        \* set(key, null, version)
PutTxn(c, v) == Put(c, c.ver, v)                     \* txn.set(key, v)
EraseTxn(c) == Erase(c, c.ver)                       \* txn.set(key, null)
Expire(c) == [c EXCEPT !.val = <<>>, !.ver = Null]   \* the TTL is over
=============================================================================
