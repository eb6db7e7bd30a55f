----------------------------- MODULE Templates -----------------------------
(* Pod templates: the generated ones of the build, overridden or masked by    *)
(* records of the store, and those users create.  Requests interleave at      *)
(* every await.                                                               *)
EXTENDS Cells, FiniteSets

CONSTANTS Clients, Generated, Created,     \* template ids
          Calls                            \* bound: requests per client

VARIABLES tpl,       \* tpl:<id>, cells of records
          index,     \* tpl:ids, a cell of a set
          pods,      \* the live pods, each with its template
          lock,      \* tpl:lock:<hash>, cells of counts
          bind,      \* tpl:bind:<domain>:<port>, a cell: every template wants this one
          left, p

vars == <<tpl, index, pods, lock, bind, left, p>>
store == <<tpl, index, pods, lock, bind>>

TplIds == Generated \cup Created
Record(creator, limit) == [deleted |-> FALSE, creator |-> creator, limit |-> limit, legacy |-> FALSE]
Tombstone == [deleted |-> TRUE, creator |-> "none", limit |-> "none", legacy |-> FALSE]
Limits == {"none", "singleton", "perUser"}
Idle == [todo |-> <<>>, id |-> "none", got |-> <<>>, source |-> "none", seen |-> Empty,
         count |-> 0, todoIds |-> {}, live |-> {}]

Init == /\ tpl = [i \in TplIds |-> Empty]
        /\ index = Empty /\ pods = {} /\ bind = Empty
        /\ lock = [i \in TplIds |-> Empty]
        /\ left = Calls
        /\ p = [c \in Clients |-> Idle]

At(c, step) == p[c].todo # <<>> /\ Head(p[c].todo) = step
Go(c, q) == p' = [p EXCEPT ![c] = IF Len(q.todo) = 1 THEN Idle ELSE [q EXCEPT !.todo = Tail(@)]]
Throw(c) == p' = [p EXCEPT ![c] = Idle]

CreateSteps == <<"insert", "readIndex", "enlist">>
UpdateSteps == <<"resolve", "authorize", "version", "save", "readIndex", "enlistOverride">>
DeleteSteps == <<"resolve", "authorizeDelete", "mask", "again", "blank", "readIndex", "unlist">>
ResolvedSteps == <<"readIndex", "readListed", "live", "pick">>
ApplySteps == ResolvedSteps \o <<"count", "slot", "readLock", "writeLock", "readBind", "writeBind", "provision">>
MigrateSteps == <<"readIndex", "each">>

Call(c) ==
    /\ p[c].todo = <<>> /\ left[c] > 0
    /\ left' = [left EXCEPT ![c] = @ - 1]
    /\ \/ \E i \in Created : /\ tpl[i].n = 0 /\ \A d \in Clients : p[d].id # i
                             /\ p' = [p EXCEPT ![c] = [Idle EXCEPT !.todo = CreateSteps, !.id = i]]
       \/ \E i \in TplIds, steps \in {UpdateSteps, DeleteSteps, ResolvedSteps, ApplySteps} :
            p' = [p EXCEPT ![c] = [Idle EXCEPT !.todo = steps, !.id = i]]
       \/ p' = [p EXCEPT ![c] = [Idle EXCEPT !.todo = MigrateSteps]]
    /\ UNCHANGED store

\* A record stored by an earlier release may still be of the old kind.
Insert(c) ==
    /\ At(c, "insert")
    /\ \E creator \in {"none", c}, limit \in Limits, old \in BOOLEAN :
         tpl' = [tpl EXCEPT ![p[c].id] = Put(@, Null, [Record(creator, limit) EXCEPT !.legacy = old])]
    /\ Go(c, p[c])
    /\ UNCHANGED <<index, pods, lock, bind, left>>

SeenIds(c) == IF Present(p[c].seen) THEN Value(p[c].seen) ELSE {}

ReadIndex(c) ==
    /\ At(c, "readIndex")
    /\ Go(c, [p[c] EXCEPT !.seen = index])
    /\ UNCHANGED <<store, left>>

\* Nobody looks at the answers of these writes.
WriteIndex(c, ids) == index' = Put(index, Version(p[c].seen), ids)

Enlist(c) ==
    /\ At(c, "enlist")
    /\ WriteIndex(c, SeenIds(c) \cup {p[c].id}) /\ Go(c, p[c])
    /\ UNCHANGED <<tpl, pods, lock, bind, left>>

EnlistOverride(c) ==
    /\ At(c, "enlistOverride")
    /\ IF p[c].source = "generated" /\ p[c].id \notin SeenIds(c)
       THEN WriteIndex(c, SeenIds(c) \cup {p[c].id}) ELSE UNCHANGED index
    /\ Go(c, p[c])
    /\ UNCHANGED <<tpl, pods, lock, bind, left>>

Unlist(c) ==
    /\ At(c, "unlist")
    /\ IF Present(p[c].seen) THEN WriteIndex(c, SeenIds(c) \ {p[c].id}) ELSE UNCHANGED index
    /\ Go(c, p[c])
    /\ UNCHANGED <<tpl, pods, lock, bind, left>>

\* resolveTemplateSource: the store's record, a tombstone, or the build's.
Resolve(c) ==
    LET i == p[c].id IN
    /\ At(c, "resolve")
    /\ CASE Present(tpl[i]) /\ ~Value(tpl[i]).deleted ->
              Go(c, [p[c] EXCEPT !.got = <<Value(tpl[i])>>, !.source = "store"])
         [] ~Present(tpl[i]) /\ i \in Generated ->
              Go(c, [p[c] EXCEPT !.got = <<Record("none", "none")>>, !.source = "generated"])
         [] OTHER -> Throw(c)
    /\ UNCHANGED <<store, left>>

\* Only root may change what the build provides, only its owner what is stored.
Authorize(c) ==
    /\ At(c, "authorize")
    /\ Throw(c) \/ Go(c, p[c])
    /\ UNCHANGED <<store, left>>

\* The version to write under is read now, the record was read before.
ReadVersion(c) ==
    /\ At(c, "version")
    /\ Go(c, [p[c] EXCEPT !.seen = IF p[c].source = "store" THEN tpl[p[c].id] ELSE Empty])
    /\ UNCHANGED <<store, left>>

SaveVersion(c) == Version(p[c].seen)

Save(c) ==
    /\ At(c, "save")
    /\ \E limit \in Limits :
         tpl' = [tpl EXCEPT ![p[c].id] = Put(@, SaveVersion(c), [p[c].got[1] EXCEPT !.limit = limit])]
    /\ IF p[c].source = "generated" THEN Go(c, p[c]) ELSE Throw(c)
    /\ UNCHANGED <<index, pods, lock, bind, left>>

AuthorizeDelete(c) ==
    /\ At(c, "authorizeDelete")
    /\ \/ Throw(c)
       \/ /\ p[c].source = "generated" /\ Go(c, p[c])
       \/ /\ p[c].source = "store"
          /\ p' = [p EXCEPT ![c].todo = SubSeq(@, 3, Len(@))]
    /\ UNCHANGED <<store, left>>

Mask(c) ==
    /\ At(c, "mask")
    /\ tpl' = [tpl EXCEPT ![p[c].id] = Put(@, Null, Tombstone)]
    /\ Throw(c)
    /\ UNCHANGED <<index, pods, lock, bind, left>>

\* A record without a creator is protected: an override of the build's, too.
Again(c) ==
    LET cell == tpl[p[c].id] IN
    /\ At(c, "again")
    /\ IF Present(cell) /\ Value(cell).creator # "none"
       THEN Go(c, [p[c] EXCEPT !.seen = cell]) ELSE Throw(c)
    /\ UNCHANGED <<store, left>>

Blank(c) ==
    /\ At(c, "blank")
    /\ tpl' = [tpl EXCEPT ![p[c].id] = Erase(@, Version(p[c].seen))]
    /\ Go(c, p[c])
    /\ UNCHANGED <<index, pods, lock, bind, left>>

----------------------------------------------------------------------------
(* GET /:id/resolved and POST /:id/apply                                      *)

\* listAllLive: the build's and the listed ones, then each once more.
ReadListed(c) ==
    /\ At(c, "readListed")
    /\ Go(c, [p[c] EXCEPT !.todoIds = Generated \cup {i \in SeenIds(c) : Present(tpl[i])}])
    /\ UNCHANGED <<store, left>>

Live(c) ==
    /\ At(c, "live")
    /\ \/ \E i \in p[c].todoIds :
            p' = [p EXCEPT ![c].todoIds = @ \ {i},
                           ![c].live = IF Present(tpl[i]) /\ Value(tpl[i]).deleted THEN @ ELSE @ \cup {i}]
       \/ p[c].todoIds = {} /\ Go(c, p[c])
    /\ UNCHANGED <<store, left>>

\* The chain of dependencies is resolved over the live ones (DagResolver).
Pick(c) ==
    /\ At(c, "pick")
    /\ IF p[c].id \in p[c].live
       THEN \E limit \in Limits : Go(c, [p[c] EXCEPT !.source = limit])
       ELSE Throw(c)
    /\ UNCHANGED <<store, left>>

\* claimInstanceSlot: a count of the live pods, then a lock nobody consults.
Count(c) ==
    /\ At(c, "count")
    /\ p' = [p EXCEPT ![c].todo = IF p[c].source = "none" THEN SubSeq(@, 5, Len(@)) ELSE Tail(@),
                      ![c].count = Cardinality({x \in pods : x[2] = p[c].id
                                                  /\ (p[c].source = "perUser" => x[1][1] = c)})]
    /\ UNCHANGED <<store, left>>

Slot(c) ==
    /\ At(c, "slot")
    /\ IF p[c].count >= 1 THEN Throw(c) ELSE Go(c, p[c])
    /\ UNCHANGED <<store, left>>

ReadLock(c) ==
    /\ At(c, "readLock")
    /\ Go(c, [p[c] EXCEPT !.seen = lock[p[c].id]])
    /\ UNCHANGED <<store, left>>

WriteLock(c) ==
    /\ At(c, "writeLock")
    /\ lock' = [lock EXCEPT ![p[c].id] =
           Put(@, Version(p[c].seen), (IF Present(p[c].seen) THEN Value(p[c].seen) ELSE 0) + 1)]
    /\ Go(c, p[c])
    /\ UNCHANGED <<tpl, index, pods, bind, left>>

\* claimResourceBinding
ReadBind(c) ==
    /\ At(c, "readBind")
    /\ IF Present(bind) THEN Throw(c) ELSE Go(c, p[c])
    /\ UNCHANGED <<store, left>>

WriteBind(c) ==
    /\ At(c, "writeBind")
    /\ bind' = Put(bind, Null, p[c].id)
    /\ Go(c, p[c])
    /\ UNCHANGED <<tpl, index, pods, lock, left>>

\* PodService.provision, or its failure.
Provision(c) ==
    /\ At(c, "provision")
    /\ pods' = pods \cup {<<<<c, left[c]>>, p[c].id>>} \/ UNCHANGED pods
    /\ Throw(c)
    /\ UNCHANGED <<tpl, index, lock, bind, left>>

\* POST /api/admin/migrate-templates: each listed record of an old kind.
MigrateRead(c) ==
    /\ At(c, "each")
    /\ \/ \E i \in SeenIds(c) :
            /\ Present(tpl[i]) /\ Value(tpl[i]).legacy
            /\ p' = [p EXCEPT ![c].todo = <<"migrate">>, ![c].id = i, ![c].seen = tpl[i]]
       \/ Throw(c)
    /\ UNCHANGED <<store, left>>

MigrateWrite(c) ==
    /\ At(c, "migrate")
    /\ tpl' = [tpl EXCEPT ![p[c].id] =
           Put(@, Version(p[c].seen), [Value(p[c].seen) EXCEPT !.legacy = FALSE])]
    /\ p' = [p EXCEPT ![c].todo = <<"each">>, ![c].seen = index, ![c].id = "none"]
    /\ UNCHANGED <<index, pods, lock, bind, left>>

Next == \E c \in Clients :
    \/ Call(c) \/ Insert(c) \/ ReadIndex(c) \/ Enlist(c) \/ EnlistOverride(c) \/ Unlist(c)
    \/ Resolve(c) \/ Authorize(c) \/ ReadVersion(c) \/ Save(c)
    \/ AuthorizeDelete(c) \/ Mask(c) \/ Again(c) \/ Blank(c)
    \/ ReadListed(c) \/ Live(c) \/ Pick(c) \/ Count(c) \/ Slot(c) \/ ReadLock(c) \/ WriteLock(c)
    \/ ReadBind(c) \/ WriteBind(c) \/ Provision(c) \/ MigrateRead(c) \/ MigrateWrite(c)

Spec == Init /\ [][Next]_vars

----------------------------------------------------------------------------
\* What root masked, and what its owner deleted, stays so: no update or
\* migration that read the template before brings it back.
Gone(i) == tpl[i].n > 0 /\ (~Present(tpl[i]) \/ Value(tpl[i]).deleted)
GoneStays == \A i \in TplIds : Gone(i) => Gone(i)'
=============================================================================
