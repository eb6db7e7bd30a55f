----------------------------- MODULE SubnetPool -----------------------------
(***************************************************************************)
(* The subnet pool of src/core/network: tenants get the first free block of *)
(* a supernet.  A block has a record, created only when absent, and a place *)
(* in one index; each call of the store below is a step of its own.        *)
(*                                                                         *)
(* Addresses have Width bits instead of 32; a block is [ip, bits], and its *)
(* text form stands for it.                                                *)
(***************************************************************************)
EXTENDS Integers, Sequences, FiniteSets, Cells

CONSTANTS
    Tenants,        \* callers, each with one call at a time
    Width,          \* bits of an address
    SuperBits,      \* prefix length of the supernet, whose address is 0
    PrefixLen,      \* prefix length of the blocks
    MaxCalls        \* bound: calls in a behaviour

VARIABLES
    records,    \* net:alloc:<cidr>, per block: the tenant
    poolIndex,  \* net:pool:index: the sequence of blocks
    caller,     \* the call of each tenant
    held,       \* blocks whose allocate() answered, per tenant
    calls

poolVars == <<records, poolIndex, caller, held, calls>>

-----------------------------------------------------------------------------
\* cidr.ts
Cidrs == {c \in [ip : 0..2^Width - 1, bits : 1..Width] : c.ip % (2^(Width - c.bits)) = 0}

Masked(ip, bits) == ip - (ip % (2^(Width - bits)))           \* ip & mask
broadcast(c) == c.ip + 2^(Width - c.bits) - 1           \* ip | ~mask

contains(outer, inner) ==
    outer.bits <= inner.bits
        /\ Masked(outer.ip, outer.bits) = Masked(inner.ip, outer.bits)

subnets(parent, bits) ==
    {[ip |-> a, bits |-> bits] :
        a \in {parent.ip + k * 2^(Width - bits) : k \in 0..2^Width}
                 \cap 0..broadcast(parent)}

nextSubnet(parent, c) ==
    LET next == [ip |-> (c.ip + 2^(Width - c.bits)) % (2^Width), bits |-> c.bits]
    IN  IF contains(parent, next) THEN {next} ELSE {}

supernet == [ip |-> 0, bits |-> SuperBits]
Blocks == {c.ip : c \in subnets(supernet, PrefixLen)}
Step == 2^(Width - PrefixLen)

NoCall == [step |-> "idle", op |-> "none", block |-> 0, left |-> <<>>, used |-> {},
         entry |-> Empty]
Listed(entry) == IF Present(entry) THEN Value(entry) ELSE <<>>

Becomes(t, c) == caller' = [caller EXCEPT ![t] = c]

\* allocate() and status() list the allocations first.
Enquire(t, op) ==
    /\ caller[t].step = "idle" /\ calls < MaxCalls
    /\ calls' = calls + 1
    /\ Becomes(t, [NoCall EXCEPT !.step = "index", !.op = op])
    /\ UNCHANGED <<records, poolIndex, held>>

ListIndex(t) ==
    /\ caller[t].step = "index"
    /\ Becomes(t, [caller[t] EXCEPT !.step = "records", !.left = Listed(poolIndex)])
    /\ UNCHANGED <<records, poolIndex, held, calls>>

ListRecord(t) ==
    /\ caller[t].step = "records" /\ caller[t].left # <<>>
    /\ LET b == Head(caller[t].left)
       IN  Becomes(t, [caller[t] EXCEPT
               !.left = Tail(@),
               !.used = IF Present(records[b]) THEN @ \cup {b} ELSE @])
    /\ UNCHANGED <<records, poolIndex, held, calls>>

ListEnds(t) ==
    /\ caller[t].step = "records" /\ caller[t].left = <<>>
    /\ Becomes(t, IF caller[t].op = "status" THEN NoCall
                  ELSE [caller[t] EXCEPT !.step = "claim", !.block = supernet.ip])
    /\ UNCHANGED <<records, poolIndex, held, calls>>

\* Mutant: the record is set whatever the store holds.
ClaimedBlind(b, t) == PutTxn(records[b], t)

\* The record is created only if the key was never written.
Claimed(b, t) == Put(records[b], Null, t)

\* First fit: a block listed as used is passed over, one that cannot be
\* claimed as well; none left is an error.
Candidate(t) ==
    /\ caller[t].step = "claim"
    /\ LET b == caller[t].block
       IN  IF b \notin Blocks
           THEN Becomes(t, NoCall) /\ UNCHANGED records
           ELSE IF b \in caller[t].used \/ Claimed(b, t) = records[b]
           THEN Becomes(t, [caller[t] EXCEPT !.block = @ + Step]) /\ UNCHANGED records
           ELSE /\ records' = [records EXCEPT ![b] = Claimed(b, t)]
                /\ Becomes(t, [caller[t] EXCEPT !.step = "getIndex"])
    /\ UNCHANGED <<poolIndex, held, calls>>

GetIndex(t) ==
    /\ caller[t].step = "getIndex"
    /\ Becomes(t, [caller[t] EXCEPT !.step = "setIndex", !.entry = poolIndex])
    /\ UNCHANGED <<records, poolIndex, held, calls>>

\* One attempt, whose result is not looked at.
SetIndex(t) ==
    /\ caller[t].step = "setIndex"
    /\ LET entry == caller[t].entry
           b == caller[t].block
       IN  IF caller[t].op = "allocate"
           THEN /\ poolIndex' = Put(poolIndex, Version(entry), Append(Listed(entry), b))
                /\ held' = [held EXCEPT ![t] = @ \cup {b}]
           ELSE /\ poolIndex' = IF Present(entry)
                            THEN Put(poolIndex, Version(entry),
                                     SelectSeq(Listed(entry), LAMBDA x : x # b))
                            ELSE poolIndex
                /\ UNCHANGED held
    /\ Becomes(t, NoCall)
    /\ UNCHANGED <<records, calls>>

\* release() of a block the tenant was given.
Release(t) ==
    /\ caller[t].step = "idle" /\ calls < MaxCalls
    /\ calls' = calls + 1
    /\ \E b \in held[t] :
          /\ held' = [held EXCEPT ![t] = @ \ {b}]
          /\ Becomes(t, IF Present(records[b])
                        THEN [NoCall EXCEPT !.step = "erase", !.op = "release",
                                          !.block = b, !.entry = records[b]]
                        ELSE NoCall)
    /\ UNCHANGED <<records, poolIndex>>

EraseRecord(t) ==
    /\ caller[t].step = "erase"
    /\ LET b == caller[t].block
       IN  records' = [records EXCEPT ![b] = Erase(@, Version(caller[t].entry))]
    /\ Becomes(t, [caller[t] EXCEPT !.step = "getIndex"])
    /\ UNCHANGED <<poolIndex, held, calls>>

PoolInit ==
    /\ records = [b \in Blocks |-> Empty]
    /\ poolIndex = Empty
    /\ caller = [t \in Tenants |-> NoCall]
    /\ held = [t \in Tenants |-> {}]
    /\ calls = 0

PoolNext ==
    \E t \in Tenants :
        \/ Enquire(t, "allocate") \/ Enquire(t, "status")
        \/ ListIndex(t) \/ ListRecord(t) \/ ListEnds(t) \/ Candidate(t)
        \/ GetIndex(t) \/ SetIndex(t) \/ Release(t) \/ EraseRecord(t)

PoolSpec == PoolInit /\ [][PoolNext]_poolVars

-----------------------------------------------------------------------------
\* A block answered to a tenant is its own, and recorded as such, although the
\* index that allocate() looks at loses entries (pool.ts:84).
OneTenant ==
    \A t \in Tenants : \A b \in held[t] :
        Present(records[b]) /\ Value(records[b]) = t

\* contains() is inclusion of addresses, and the subnets of a block part it,
\* whichever way they are enumerated (cidr.ts:57).
CidrSound ==
    \A p \in Cidrs :
        LET Addresses(c) == c.ip..broadcast(c)
        IN  /\ \A c \in Cidrs :
                  contains(p, c) <=> Addresses(c) \subseteq Addresses(p)
            /\ \A bits \in p.bits + 1..Width :
                  LET parts == subnets(p, bits)
                  IN  /\ Addresses(p) = UNION {Addresses(c) : c \in parts}
                      /\ \A c, d \in parts :
                            c # d => Addresses(c) \cap Addresses(d) = {}
                      /\ parts = {[ip |-> p.ip, bits |-> bits]}
                                    \cup UNION {nextSubnet(p, c) : c \in parts}
=============================================================================
