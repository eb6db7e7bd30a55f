----------------------------- MODULE FileStore -----------------------------
(* The file store of development (FileKVAtomicStore): one JSON file per key,  *)
(* every operation a sequence of file accesses, all of them serialised by a   *)
(* chain of promises.  The transaction of CloudflareKVAtomicStore is the same *)
(* code over KV without that chain: Serialised = FALSE.  (FileInit, FileNext   *)
(* and so on: MCPlatform extends this module together with RingQueue.)        *)
EXTENDS Naturals, Sequences, FiniteSets

CONSTANTS Clients, Keys,
          Writes,      \* bound: identities of the writes
          Txns,        \* the transactions: [reads, writes: keys]
          Gets,        \* bound: get() calls of a client
          Serialised,  \* #serialise(): TRUE for files, FALSE for KV
          Crashes,     \* bound: process restarts
          Torn         \* whether one may come between two files of a transaction

VARIABLES file,     \* what the file of a key holds: [val, ver, ttl], <<>> for no file
          lock,     \* the promise chain: callers in the order they came
          p,        \* the operation of a client
          used,     \* the writes issued
          versions, \* versions generated so far
          gets, crashes

fileVars == <<file, lock, p, used, versions, gets, crashes>>

Null == 0
Missing == [val |-> {}, ver |-> Null]
Idle(c) == [op |-> "idle", k |-> "none", ttl |-> FALSE, w |-> "none", seen |-> Missing,
            reads |-> <<>>, readSet |-> <<>>, deferred |-> {}]

\* A null value is an entry all the same; the file of a key that expired stays
\* until a get() finds it.
Entry(val, ttl) == [val |-> val, ver |-> versions + 1, ttl |-> IF ttl THEN "running" ELSE "none"]
CurrentVersion(k) == IF file[k] = <<>> THEN Null ELSE file[k].ver
ContentsOf(k) == IF file[k] = <<>> THEN {} ELSE file[k].val

FileInit == /\ file = [k \in Keys |-> <<>>]
            /\ lock = <<>>
            /\ p = [c \in Clients |-> Idle(c)]
            /\ used = {} /\ versions = 0
            /\ gets = [c \in Clients |-> Gets] /\ crashes = 0

----------------------------------------------------------------------------
(* Callers                                                                    *)

\* Mutant: calls do not wait for each other.
MayRunAtOnce(c) == TRUE

MayRun(c) == Serialised => lock # <<>> /\ Head(lock) = c
Enter(c, q) == p' = [p EXCEPT ![c] = q] /\ lock' = IF Serialised THEN Append(lock, c) ELSE lock
Leave(c, q) == p' = [p EXCEPT ![c] = q] /\ lock' = IF Serialised THEN Tail(lock) ELSE lock
Goto(c, q) == p' = [p EXCEPT ![c] = q] /\ UNCHANGED lock
Forget(c) == Leave(c, [Idle(c) EXCEPT !.k = p[c].k, !.seen = p[c].seen])

CallGet(c, k) ==
    /\ p[c].op = "idle" /\ gets[c] > 0
    /\ gets' = [gets EXCEPT ![c] = @ - 1]
    /\ Enter(c, [Idle(c) EXCEPT !.op = "get", !.k = k])
    /\ UNCHANGED <<file, used, versions, crashes>>

\* What is set was computed from the last get(), with the version it returned.
CallSet(c, w, ttl) ==
    /\ p[c].op = "idle" /\ p[c].k # "none" /\ w \notin used
    /\ used' = used \cup {w}
    /\ Enter(c, [Idle(c) EXCEPT !.op = "set", !.k = p[c].k, !.seen = p[c].seen, !.ttl = ttl, !.w = w])
    /\ UNCHANGED <<file, versions, gets, crashes>>

CallTransact(c, w, txn) ==
    /\ p[c].op = "idle" /\ w \notin used
    /\ used' = used \cup {w}
    /\ Enter(c, [Idle(c) EXCEPT !.op = "read", !.w = w, !.reads = txn.reads,
                                !.deferred = txn.writes])
    /\ UNCHANGED <<file, versions, gets, crashes>>

----------------------------------------------------------------------------
(* get() and set()                                                            *)

GetRead(c) ==
    LET k == p[c].k IN
    /\ p[c].op = "get" /\ MayRun(c)
    /\ IF file[k] # <<>> /\ file[k].ttl = "over" THEN Goto(c, [p[c] EXCEPT !.op = "rm"])
       ELSE Leave(c, [Idle(c) EXCEPT !.k = k, !.seen = IF ContentsOf(k) = {} THEN Missing
                                                       ELSE [val |-> file[k].val, ver |-> file[k].ver]])
    /\ UNCHANGED <<file, used, versions, gets, crashes>>

GetRemove(c) ==
    /\ p[c].op = "rm" /\ MayRun(c)
    /\ file' = [file EXCEPT ![p[c].k] = <<>>]
    /\ Leave(c, [Idle(c) EXCEPT !.k = p[c].k])
    /\ UNCHANGED <<used, versions, gets, crashes>>

SetRead(c) ==
    /\ p[c].op = "set" /\ MayRun(c)
    /\ IF CurrentVersion(p[c].k) = p[c].seen.ver THEN Goto(c, [p[c] EXCEPT !.op = "put"])
       ELSE Forget(c)
    /\ UNCHANGED <<file, used, versions, gets, crashes>>

SetWrite(c) ==
    /\ p[c].op = "put" /\ MayRun(c)
    /\ file' = [file EXCEPT ![p[c].k] = Entry(p[c].seen.val \cup {p[c].w}, p[c].ttl)]
    /\ versions' = versions + 1
    /\ Forget(c)
    /\ UNCHANGED <<used, gets, crashes>>

----------------------------------------------------------------------------
(* transact(): reads as it goes, verifies what it read and does not write,    *)
(* then writes file after file.                                               *)

\* The value an expired entry had is still read.
TxnRead(c) ==
    LET q == p[c] k == Head(q.reads) IN
    /\ q.op = "read" /\ q.reads # <<>> /\ MayRun(c)
    /\ Goto(c, [q EXCEPT !.reads = Tail(@), !.readSet = Append(@, <<k, CurrentVersion(k)>>),
                         !.seen = [val |-> q.seen.val \cup ContentsOf(k), ver |-> Null]])
    /\ UNCHANGED <<file, used, versions, gets, crashes>>

Unchanged(q) == \A i \in DOMAIN q.readSet :
    q.readSet[i][1] \notin q.deferred => CurrentVersion(q.readSet[i][1]) = q.readSet[i][2]

TxnVerify(c) ==
    /\ p[c].op = "read" /\ p[c].reads = <<>> /\ MayRun(c)
    /\ IF Unchanged(p[c]) /\ p[c].deferred # {} THEN Goto(c, [p[c] EXCEPT !.op = "write"])
       ELSE Leave(c, Idle(c))
    /\ UNCHANGED <<file, used, versions, gets, crashes>>

TxnWrite(c) ==
    LET q == p[c] IN
    /\ q.op = "write" /\ MayRun(c)
    /\ \E k \in q.deferred :
         /\ file' = [file EXCEPT ![k] = Entry(q.seen.val \cup {q.w}, FALSE)]
         /\ IF q.deferred = {k} THEN Leave(c, Idle(c)) ELSE Goto(c, [q EXCEPT !.deferred = @ \ {k}])
    /\ versions' = versions + 1
    /\ UNCHANGED <<used, gets, crashes>>

----------------------------------------------------------------------------
(* Time, and a restart of the process: the files stay                          *)

TtlOver(k) ==
    /\ file[k] # <<>> /\ file[k].ttl = "running"
    /\ file' = [file EXCEPT ![k].ttl = "over"]
    /\ UNCHANGED <<lock, p, used, versions, gets, crashes>>

Restart ==
    /\ crashes < Crashes
    /\ Torn \/ \A c \in Clients : p[c].op # "write"
    /\ crashes' = crashes + 1
    /\ lock' = <<>> /\ p' = [c \in Clients |-> Idle(c)]
    /\ UNCHANGED <<file, used, versions, gets>>

FileNext == \/ \E c \in Clients, k \in Keys : CallGet(c, k)
            \/ \E c \in Clients, w \in Writes, ttl \in BOOLEAN : CallSet(c, w, ttl)
            \/ \E c \in Clients, w \in Writes, txn \in Txns : CallTransact(c, w, txn)
            \/ \E c \in Clients : \/ GetRead(c) \/ GetRemove(c) \/ SetRead(c) \/ SetWrite(c)
                                  \/ TxnRead(c) \/ TxnVerify(c) \/ TxnWrite(c)
            \/ \E k \in Keys : TtlOver(k)
            \/ Restart
FileSpec == FileInit /\ [][FileNext]_fileVars

----------------------------------------------------------------------------
(* Properties                                                                 *)

\* The transaction whose files are being written counts as done: nobody else can
\* look before the last of them.
Committing(k) == {c \in Clients : p[c].op = "write" /\ k \in p[c].deferred}
AbstractContents == [k \in Keys |->
    IF Committing(k) # {} THEN (LET c == CHOOSE c \in Committing(k) : TRUE
                                IN p[c].seen.val \cup {p[c].w}) ELSE ContentsOf(k)]
AbstractExpirable == [k \in Keys |->
    Committing(k) = {} /\ file[k] # <<>> /\ file[k].ttl # "none"]
Abstract == INSTANCE AtomicStore WITH TxnKeys <- Keys, contents <- AbstractContents,
                                      expirable <- AbstractExpirable

\* "Execute operations inside a serialized atomic transaction": the accesses to
\* the files add up to writes that happen in one step each, computed from what
\* the keys hold in that step, and nothing but what was given a TTL goes away.
FilesSerial == Abstract!Spec
=============================================================================
