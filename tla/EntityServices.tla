--------------------------- MODULE EntityServices ---------------------------
(* The services that keep one kind of entity each: a record under its id and  *)
(* an index of the ids.  All are written from the same few store calls, so a  *)
(* method is a script of them; clients run scripts at once and interleave at  *)
(* every await.                                                               *)
EXTENDS Cells, FiniteSets, TLC

CONSTANTS Clients, Ids,
          Services,      \* which of the services below are tried, one per behaviour
          Calls          \* bound: how many calls each client makes

----------------------------------------------------------------------------
(* What the methods do, call by call.  An insert is create-only; save,        *)
(* saveLax and saveRetry write under the version that load read: on a         *)
(* conflict the first throws, the second carries on, the third loads again,   *)
(* three times in all.  blank deletes under that version and carries on.      *)
(* refer reads another entity, check looks at what was loaded: both may throw. *)

NetworkCreate == <<"refer", "provision", "insert", "enlist">>
NetworkUpdate == <<"load", "save">>
NetworkDelete == <<"load", "unprovision", "blank", "unlist">>

SubnetCreate == <<"refer", "insert", "enlist">>
SubnetUpdate == <<"load", "save">>
SubnetDelete == <<"load", "blank", "unlist">>

InstanceCreate == <<"insert", "enlist">>
InstanceUpdate == <<"load", "save">>
InstanceHeartbeat == <<"load", "saveRetry">>
InstanceDelete == <<"load", "refer", "blank", "unlist">>

BucketCreate == <<"refer", "insert", "enlist">>
BucketUpdate == <<"load", "save">>
BucketDelete == <<"load", "blank", "unlist">>

ImageCreate == <<"refer", "insert", "enlist">>
ImageUpdate == <<"load", "save">>
ImageDelete == <<"load", "blank", "unlist">>

CredentialCreate == <<"insert", "enlist">>
CredentialUpdate == <<"load", "save">>
CredentialDelete == <<"load", "blank", "unlist">>

ContainerSecretCreate == <<"insert", "enlist">>
ContainerSecretUpdate == <<"load", "save">>
ContainerSecretUpload == <<"load", "provision", "save">>          \* the blob, then the entity
ContainerSecretDelete == <<"load", "unprovision", "blank", "unlist">>
ContainerSecretSync == <<"load", "refer">> \o ContainerSecretUpdate   \* to the platform's store

S3PolicyCreate == <<"insert", "enlist">>
S3PolicyUpdate == <<"load", "save">>
S3PolicyDelete == <<"load", "blank", "unlist">>

SecurityProvision == <<"insert", "enlist">>
SecurityMarkExpired == <<"load", "saveRetry">>
SecurityRevoke == <<"load", "saveRetry">>
SecurityDelete == <<"load", "blank", "unlist">>

SysGroupCreate == <<"number", "insert", "mapNumber", "enlist", "countUp">>
SysGroupUpdate == <<"load", "save">>
SysGroupDelete == <<"load", "blank", "unlist", "countDown">>

VolumeCreate == <<"refer", "txnInsert">>
VolumeUpdate == <<"load", "txnUpdate">>
VolumeDelete == <<"txnDelete">>

\* The policies, groups and templates of the permission service go through
\* CrudStore, whose update loads the version anew but merges what the caller read
\* before, and whose listing is a transaction.  A permission group is created from
\* a template if there is one; one that was seeded is not deleted.
CrudInsert == <<"txnInsert">>
CrudUpdate == <<"load", "reload", "saveStale">>
CrudDelete == <<"load", "load", "txnDelete">>
CrudListing == <<"snapshot">>
PermGroupFromTemplate == <<"check">> \o CrudInsert
PermGroupDelete == <<"load", "check", "load", "txnDelete">>

RunnerRegister == <<"insert", "enlist">>      \* and a token, that nothing asks for
RunnerUpdate == <<"load", "save">>
RunnerHeartbeat == <<"load", "saveLax">>
RunnerMarkStale == <<"listed", "load", "saveLax">>      \* for each runner listed
RunnerDelete == <<"load", "blank", "unlist">>
RunnerGroupCreate == <<"insert", "enlist">>
RunnerGroupDelete == <<"load", "blank", "unlist">>

\* The registry of the actions feature looks for a runner by its name, through the
\* index, and writes a known one under the version it keeps inside the record,
\* which is none the store has given; so do the secrets of workflows.
RegistryHeartbeatNew == <<"insert", "enlist">>
RegistryHeartbeatKnown == <<"listed", "load", "saveForeign">>
RegistryMarkStale == <<"listed", "load", "saveLax">>
RegistryDrain == <<"load", "saveLax">>

WorkflowSecretSetNew == <<"refer", "insert", "enlist">>
WorkflowSecretSetKnown == <<"refer", "listed", "load", "saveForeign">>
WorkflowSecretDelete == <<"load", "blank", "unlist">>

ActionRegister == <<"insert", "enlistOnce">>

SharedLinkCreate == <<"insert", "enlist">>
SharedLinkRecordUse == <<"load", "saveRetry">>
SharedLinkLaunch == <<"load", "check", "refer">> \o SharedLinkRecordUse
SharedLinkDisable == <<"load", "check", "save">>      \* by its owner

OrgCreate == <<"insert", "enlist">>
OrgAddMember == <<"load", "saveLax">>
OrgAddProject == <<"load", "saveLax">>
ProjectCreate == <<"refer", "insert", "enlist">>      \* between the two, OrgAddProject
ApprovalRequest == <<"insert", "enlist">>
ApprovalDecide == <<"load", "pending", "saveLax">>

WorkflowCreate == <<"insert", "enlistOnce">>
WorkflowPatch == <<"load", "save">>
WorkflowDelete == <<"load", "blank", "unlistOnce">>

PullTaskCreate == <<"refer", "insert", "enlistOnce">>

\* Listings, and whatever looks for an entity by something but its id: the index
\* and then every entity it names, at once.  The groups of the system look at
\* their counter first and answer with nothing when it is zero.
Listing == <<"list", "fetch">>
Lookup == <<"load">>
SysGroupPage == <<"counted">> \o Listing
SecurityIssueToken == Listing
InstancePick == Listing
S3PolicyResolve == Listing
RegistryFind == Listing
ActionResolve == Listing

NetworkReads == {Lookup, Listing}
SubnetReads == {Lookup, Listing}
VolumeReads == {Lookup, Listing}
ContainerSecretReads == {Lookup, Listing}
SysGroupReads == {Lookup, Listing, SysGroupPage}
SecurityReads == {Lookup, Listing}
InstanceReads == {Lookup, Listing}
BucketReads == {Lookup, Listing}
ImageReads == {Lookup, Listing}
CredentialReads == {Lookup, Listing}
S3PolicyReads == {Lookup, Listing}
RunnerReads == {Lookup, Listing}
RunnerGroupReads == {Lookup, Listing}
RegistryReads == {Lookup, Listing}
WorkflowSecretReads == {Listing}
ActionReads == {Lookup, Listing}
OrgReads == {Lookup, Listing}
ProjectReads == {Lookup, Listing}
ApprovalReads == {Listing}
PullTaskReads == {Lookup, Listing}
SharedLinkReads == {Lookup, Listing}

----------------------------------------------------------------------------
(* What the routers offer over HTTP.  A route may ask for an administrator     *)
(* first (root, Operator or wheel), or for wheel alone, and refuse a body that *)
(* lacks what the method needs; both before anything is read.                  *)

Guards == {"root", "wheel", "valid"}
Has(m, op) == \E k \in DOMAIN m : m[k] = op
Valid(m) == <<"valid">> \o m
ForRoot(ms) == {<<"root">> \o m : m \in ms}       \* requireRoot, isRoot
ForWheel(ms) == {<<"wheel">> \o m : m \in ms}     \* requireWheel: root is refused
Admits(m, role) == /\ Has(m, "root") => role \in {"root", "wheel"}
                   /\ Has(m, "wheel") => role = "wheel"

\* The guard of mkTopoCrud is passed by none of its callers.
TopoCrud(create, update, delete, reads) == {Valid(create), update, delete} \cup reads
SubCrud(insert, update, delete) == {Valid(insert), Valid(update), delete}
CrudReads == {Lookup, CrudListing}

NetworkRouter == ForRoot({Valid(NetworkCreate), NetworkUpdate, NetworkDelete}) \cup NetworkReads
SubnetRouter == {Valid(SubnetCreate), SubnetUpdate, SubnetDelete} \cup SubnetReads
VolumeRouter == ForRoot({Valid(VolumeCreate), Valid(VolumeUpdate), VolumeDelete}) \cup VolumeReads
ContainerSecretRouter ==
    {Valid(ContainerSecretCreate), Valid(ContainerSecretUpdate), Valid(ContainerSecretUpload),
     ContainerSecretDelete, ContainerSecretSync} \cup ContainerSecretReads
SystemGroupRouter == ForRoot({Valid(SysGroupCreate), Valid(SysGroupUpdate), SysGroupDelete}
                             \cup SysGroupReads)
SecurityRouter == ForRoot({Valid(SecurityProvision), SecurityRevoke, SecurityDelete})
                  \cup {SecurityMarkExpired, SecurityIssueToken} \cup SecurityReads
InstanceRouter == TopoCrud(InstanceCreate, InstanceUpdate, InstanceDelete, InstanceReads)
                  \cup {InstanceHeartbeat, InstancePick}
BucketRouter == TopoCrud(BucketCreate, BucketUpdate, BucketDelete, BucketReads)
ImageRouter == TopoCrud(ImageCreate, ImageUpdate, ImageDelete, ImageReads)
CredentialRouter == TopoCrud(CredentialCreate, CredentialUpdate, CredentialDelete, CredentialReads)
S3PolicyRouter == ForRoot({Valid(S3PolicyCreate), Valid(S3PolicyUpdate), S3PolicyDelete})
                  \cup {S3PolicyResolve} \cup S3PolicyReads
PolicyManager == SubCrud(CrudInsert, CrudUpdate, CrudDelete)
UserGroupManager == SubCrud(CrudInsert, CrudUpdate, CrudDelete)
PermGroupManager == SubCrud(CrudInsert, CrudUpdate, PermGroupDelete) \cup {Valid(PermGroupFromTemplate)}
UserTemplateManager == SubCrud(CrudInsert, CrudUpdate, CrudDelete)
PermissionRouter == [policy |-> ForRoot(PolicyManager) \cup CrudReads,
                     usergroup |-> ForWheel(UserGroupManager) \cup CrudReads,
                     permgroup |-> ForRoot(PermGroupManager) \cup CrudReads,
                     usertpl |-> ForRoot(UserTemplateManager) \cup CrudReads]
RunnerRouter == {Valid(RunnerRegister), RunnerHeartbeat} \cup RunnerReads
                \cup ForRoot({Valid(RunnerUpdate), RunnerDelete, RunnerMarkStale})
RunnerGroupRouter == ForRoot({Valid(RunnerGroupCreate), RunnerGroupDelete}) \cup RunnerGroupReads
RegistryRouter == {RegistryHeartbeatNew, RegistryHeartbeatKnown, RegistryMarkStale, RegistryDrain,
                   RegistryFind} \cup RegistryReads
\* Whether the caller may is asked of the permission service, where there is one.
WorkflowRouter == {<<"refer">> \o Valid(WorkflowCreate), <<"refer">> \o Valid(WorkflowPatch),
                   <<"refer">> \o WorkflowDelete, Lookup, Listing}
OrgRouter == {OrgCreate, Valid(OrgAddMember), OrgAddProject} \cup OrgReads
ProjectRouter == {ProjectCreate} \cup ProjectReads
ApprovalRouter == {Valid(ApprovalRequest), Valid(ApprovalDecide)} \cup ApprovalReads
WorkflowSecretRouter == {Valid(WorkflowSecretSetNew), Valid(WorkflowSecretSetKnown),
                         WorkflowSecretDelete} \cup WorkflowSecretReads
SharedLinkRouter == {Valid(SharedLinkCreate), SharedLinkLaunch, SharedLinkDisable}
                    \cup SharedLinkReads

Api == [
    network |-> NetworkRouter, subnet |-> SubnetRouter, volume |-> VolumeRouter,
    ctsecret |-> ContainerSecretRouter, sysgroup |-> SystemGroupRouter,
    security |-> SecurityRouter, instance |-> InstanceRouter, bucket |-> BucketRouter,
    image |-> ImageRouter, credential |-> CredentialRouter, s3policy |-> S3PolicyRouter,
    pulltask |-> {PullTaskCreate} \cup PullTaskReads,
    runner |-> RunnerRouter, runnergroup |-> RunnerGroupRouter, registry |-> RegistryRouter,
    workflow |-> WorkflowRouter, action |-> {ActionRegister, ActionResolve} \cup ActionReads,
    org |-> OrgRouter, project |-> ProjectRouter,
    approval |-> ApprovalRouter, workflowsecret |-> WorkflowSecretRouter,
    sharedlink |-> SharedLinkRouter] @@ PermissionRouter

----------------------------------------------------------------------------
VARIABLES service,     \* the service at work
          entity,      \* <prefix>:<id>, a cell of entities
          index,       \* <prefix>:ids, a cell of the set of ids
          count,       \* the counter of entities, of the services that keep one
          counter,     \* the counter numbers are taken from
          numbered,    \* the ids stored under their numbers, as pairs
          remote,      \* the ids whose network the provider has, or whose blob is stored
          astray,      \* history: ids whose listing gave up or whose deletion was lost
          left,        \* how many calls each client has left
          p            \* what each client's call has still to do, with its locals

vars == <<service, entity, index, count, counter, numbered, remote, astray, left, p>>

Unread == <<>>
Idle == [todo |-> <<>>, id |-> CHOOSE i \in Ids : TRUE, role |-> "user", seen |-> Empty, aux |-> Unread,
         number |-> 0, tries |-> 0]
Busy(c) == p[c].todo # <<>>
At(c, op) == Busy(c) /\ Head(p[c].todo) = op
Contended(c) == \E d \in Clients \ {c} : Busy(d)

Existing == {i \in Ids : Present(entity[i])}
Listed == IF Present(index) THEN Value(index) ELSE {}
Total(cell) == IF Present(cell) THEN Value(cell) ELSE 0

Init == /\ service \in Services
        /\ entity = [i \in Ids |-> Empty] /\ index = Empty
        /\ count = Empty /\ counter = Empty
        /\ numbered = {} /\ remote = {} /\ astray = {}
        /\ left = Calls
        /\ p = [c \in Clients |-> Idle]

Onward(q) == [q EXCEPT !.todo = Tail(@), !.aux = Unread, !.tries = 0]
Proceed(c) == p' = [p EXCEPT ![c] = IF Len(@.todo) = 1 THEN Idle ELSE Onward(@)]
Throw(c) == p' = [p EXCEPT ![c] = Idle]

\* A method is called on a fresh id if it creates, else on one the caller knows:
\* from a listing or from the creation, once it is over.
Creates(m) == Has(m, "insert") \/ Has(m, "txnInsert")
Fresh == {i \in Ids : entity[i] = Empty /\ \A c \in Clients : ~(Busy(c) /\ p[c].id = i)}
Creating(c, i) == p[c].id = i /\ (Has(p[c].todo, "enlist") \/ Has(p[c].todo, "enlistOnce"))
Known == {i \in Ids : entity[i] # Empty /\ (i \in Listed \/ \A c \in Clients : ~Creating(c, i))}

\* A listing is about no entity in particular.
Lists(m) == Has(m, "list") \/ Has(m, "snapshot")
Subjects(m) == IF Creates(m) THEN Fresh ELSE IF Lists(m) THEN {"all"} ELSE Known

\* A request that its route refuses ends with it: 403, or 400.  Nothing after the
\* guard depends on who asks, so it is asked by one who passes and one who does not.
Askers(m) == IF Has(m, "wheel") THEN {"wheel", "root"}
             ELSE IF Has(m, "root") THEN {"root", "user"} ELSE {"user"}
Steps(m) == SelectSeq(m, LAMBDA op : op \notin Guards)

Call(c) ==
    /\ ~Busy(c) /\ left[c] > 0
    /\ \E m \in Api[service] : \E i \in Subjects(m) :
       \E role \in Askers(m) :
         \/ /\ Admits(m, role)
            /\ p' = [p EXCEPT ![c] = [Idle EXCEPT !.todo = Steps(m), !.id = i, !.role = role]]
         \/ /\ Admits(m, role) => Has(m, "valid")
            /\ UNCHANGED p
    /\ left' = [left EXCEPT ![c] = @ - 1]
    /\ UNCHANGED <<service, entity, index, count, counter, numbered, remote, astray>>

\* The entity referred to (an instance, a workflow) is read; without it: 400, or
\* 409.  What was loaded is looked at: a seeded group, a link that expired or is
\* another's, an approver: 403.  A listing in one transaction may conflict.
Refer(c) ==
    /\ At(c, "refer") \/ At(c, "check") \/ At(c, "snapshot")
    /\ Proceed(c) \/ Throw(c)
    /\ UNCHANGED <<service, entity, index, count, counter, numbered, remote, astray, left>>

\* A network, or a blob: put() may fail as well.
Provision(c) ==
    /\ At(c, "provision")
    /\ \/ remote' = remote \cup {p[c].id} /\ Proceed(c)
       \/ remote' \in {remote, remote \cup {p[c].id}} /\ Throw(c)   \* PROVIDER_ERROR, also of its rules
    /\ UNCHANGED <<service, entity, index, count, counter, numbered, astray, left>>

\* Best effort: a provider that fails keeps the network, a bucket its blob.
Unprovision(c) ==
    /\ At(c, "unprovision")
    /\ remote' \in {remote, remote \ {p[c].id}}
    /\ Proceed(c)
    /\ UNCHANGED <<service, entity, index, count, counter, numbered, astray, left>>

\* The searches for a known name go through the index, and make a new entity of
\* a name that no entity listed has: another call.
Search(c) ==
    /\ At(c, "listed")
    /\ IF p[c].id \in Listed THEN Proceed(c) ELSE Throw(c)
    /\ UNCHANGED <<service, entity, index, count, counter, numbered, remote, astray, left>>

\* decide(): not one of the approvers, or decided already: 403, 409.
Pending(c) ==
    /\ At(c, "pending")
    /\ \/ Cardinality(Value(p[c].seen).by) = 1 /\ p' = [p EXCEPT ![c].todo = Tail(@)]
       \/ Throw(c)
    /\ UNCHANGED <<service, entity, index, count, counter, numbered, remote, astray, left>>

\* The mark a call leaves in what it writes.
Mark(c) == <<c, left[c], p[c].role>>
New(c) == [number |-> p[c].number, by |-> {Mark(c)}]

Insert(c) ==
    /\ At(c, "insert")
    /\ entity' = [entity EXCEPT ![p[c].id] = Put(@, Null, New(c))]
    /\ Proceed(c)
    /\ UNCHANGED <<service, index, count, counter, numbered, remote, astray, left>>

\* sysgroup:gid:<number>, create-only.
MapNumber(c) ==
    /\ At(c, "mapNumber")
    /\ numbered' = IF \E e \in numbered : e[1] = p[c].number THEN numbered
                   ELSE numbered \cup {<<p[c].number, p[c].id>>}
    /\ Proceed(c)
    /\ UNCHANGED <<service, entity, index, count, counter, remote, astray, left>>

Load(c) ==
    LET e == entity[p[c].id] IN
    /\ At(c, "load")
    /\ IF Present(e) THEN p' = [p EXCEPT ![c].seen = e, ![c].todo = Tail(@)]
                     ELSE Throw(c)                        \* 404
    /\ UNCHANGED <<service, entity, index, count, counter, numbered, remote, astray, left>>

\* CrudStore.commitUpdate: the version is of now, the value of before.
Reload(c) ==
    LET e == entity[p[c].id] IN
    /\ At(c, "reload")
    /\ IF Present(e) THEN p' = [p EXCEPT ![c].seen.ver = e.ver, ![c].todo = Tail(@)]
                     ELSE Throw(c)
    /\ UNCHANGED <<service, entity, index, count, counter, numbered, remote, astray, left>>

\* Mutant: a save compares with the version of the moment.
SavedBlind(c) == entity[p[c].id].ver

\* The version a save compares with; 0 is none the store gave to an entity.
Saved(c) == IF At(c, "saveForeign") THEN Null ELSE Version(p[c].seen)

Again == [saveRetry |-> "load", saveStale |-> "reload"]

Save(c) ==
    LET q == p[c]
        op == Head(q.todo)
        v == [Value(q.seen) EXCEPT !.by = @ \cup {Mark(c)}]
    IN  /\ Busy(c) /\ op \in {"save", "saveLax", "saveRetry", "saveForeign", "saveStale"}
        /\ entity' = [entity EXCEPT ![q.id] = Put(@, Saved(c), v)]
        /\ IF entity' = entity /\ op \in DOMAIN Again /\ q.tries < 2
           THEN p' = [p EXCEPT ![c].todo = <<Again[op]>> \o @, ![c].tries = @ + 1]
           ELSE Proceed(c)
        /\ UNCHANGED <<service, index, count, counter, numbered, remote, astray, left>>

\* delete() does not look whether its write was accepted.
Blank(c) ==
    LET i == p[c].id IN
    /\ At(c, "blank")
    /\ entity' = [entity EXCEPT ![i] = Erase(@, Version(p[c].seen))]
    /\ astray' = IF Present(entity'[i]) THEN astray \cup {i} ELSE astray
    /\ Proceed(c)
    /\ UNCHANGED <<service, index, count, counter, numbered, remote, left>>

----------------------------------------------------------------------------
(* #addToIndex, #removeFromIndex, the counters: read, write back, three times *)

Unlisting == {"unlist", "unlistOnce"}
Tallies == Unlisting \cup {"enlist", "enlistOnce", "countUp", "countDown", "number"}
Shared(op) == IF op \in {"countUp", "countDown"} THEN count
              ELSE IF op = "number" THEN counter ELSE index
Attempts(op) == IF op \in {"enlistOnce", "unlistOnce"} THEN 1 ELSE 3

TallyRead(c) ==
    LET op == Head(p[c].todo) IN
    /\ Busy(c) /\ op \in Tallies /\ p[c].aux = Unread
    /\ IF (op \in Unlisting /\ ~Present(index)) \/ (op = "countDown" /\ Total(count) = 0)
       THEN Proceed(c)
       ELSE p' = [p EXCEPT ![c].aux = <<Shared(op)>>]
    /\ UNCHANGED <<service, entity, index, count, counter, numbered, remote, astray, left>>

Tallied(op, cell, i) ==
    LET ids == IF Present(cell) THEN Value(cell) ELSE {} IN
    CASE op \in {"enlist", "enlistOnce"} -> ids \cup {i}
      [] op \in Unlisting -> ids \ {i}
      [] op \in {"countUp", "number"} -> Total(cell) + 1
      [] op = "countDown" -> Total(cell) - 1

Compared(op, cell) == Version(cell)

TallyWrite(c) ==
    LET q == p[c]
        op == Head(q.todo)
        cell == Put(Shared(op), Compared(op, q.aux[1]), Tallied(op, q.aux[1], q.id))
        done == cell # Shared(op)
    IN  /\ Busy(c) /\ op \in Tallies /\ q.aux # Unread
        /\ index' = IF op \in {"enlist", "enlistOnce"} \cup Unlisting THEN cell ELSE index
        /\ count' = IF op \in {"countUp", "countDown"} THEN cell ELSE count
        /\ counter' = IF op = "number" THEN cell ELSE counter
        /\ IF done
           THEN /\ p' = [p EXCEPT ![c] = IF Len(@.todo) = 1 THEN Idle
                         ELSE [Onward(@) EXCEPT !.number = IF op = "number" THEN Total(q.aux[1]) + 1 ELSE @]]
                /\ UNCHANGED astray
           ELSE IF q.tries + 1 < Attempts(op)
           THEN /\ p' = [p EXCEPT ![c].tries = @ + 1, ![c].aux = Unread]
                /\ UNCHANGED astray
           ELSE /\ IF op = "number" THEN Throw(c) ELSE Proceed(c)
                /\ astray' = astray \cup IF op \in {"countUp", "countDown", "number"} THEN {} ELSE {q.id}
        /\ UNCHANGED <<service, entity, numbered, remote, left>>

----------------------------------------------------------------------------
(* Listings: the index is read, then every entity it names, in any order.     *)

Counted(c) ==
    /\ At(c, "counted")
    /\ IF Total(count) = 0 THEN Throw(c) ELSE Proceed(c)
    /\ UNCHANGED <<service, entity, index, count, counter, numbered, remote, astray, left>>

ListIndex(c) ==
    /\ At(c, "list")
    /\ p' = [p EXCEPT ![c].todo = Tail(@),
                     ![c].aux = <<[unread |-> Listed, read |-> {}, found |-> {}]>>]
    /\ UNCHANGED <<service, entity, index, count, counter, numbered, remote, astray, left>>

Fetch(c) ==
    LET l == p[c].aux[1] IN
    /\ At(c, "fetch")
    /\ IF l.unread = {} THEN Proceed(c)
       ELSE \E i \in l.unread :
              p' = [p EXCEPT ![c].aux = <<[unread |-> l.unread \ {i}, read |-> l.read \cup {i},
                                           found |-> l.found \cup ({i} \cap Existing)]>>]
    /\ UNCHANGED <<service, entity, index, count, counter, numbered, remote, astray, left>>

----------------------------------------------------------------------------
(* Transactions read the entity and the index and write both, or conflict     *)
(* three times and throw.                                                     *)

Transact(c) ==
    LET i == p[c].id
        op == Head(p[c].todo)
        e == entity[i]
    IN  /\ Busy(c) /\ op \in {"txnInsert", "txnUpdate", "txnDelete"}
        /\ \/ /\ Contended(c) \/ (op # "txnInsert" /\ ~Present(e))
              /\ UNCHANGED <<entity, index>> /\ Throw(c)
           \/ /\ Present(e) <=> op # "txnInsert"
              /\ entity' = [entity EXCEPT ![i] =
                              CASE op = "txnInsert" -> PutTxn(@, New(c))
                                [] op = "txnUpdate" -> PutTxn(@, [Value(@) EXCEPT !.by = @ \cup {Mark(c)}])
                                [] op = "txnDelete" -> EraseTxn(@)]
              /\ index' = CASE op = "txnInsert" -> PutTxn(index, Listed \cup {i})
                            [] op = "txnUpdate" -> index
                            [] op = "txnDelete" -> IF Present(index) THEN PutTxn(index, Listed \ {i}) ELSE index
              /\ Proceed(c)
        /\ UNCHANGED <<service, count, counter, numbered, remote, astray, left>>

Next == \E c \in Clients :
    \/ Call(c) \/ Refer(c) \/ Search(c) \/ Pending(c) \/ MapNumber(c) \/ Provision(c) \/ Unprovision(c)
    \/ Insert(c) \/ Load(c) \/ Reload(c) \/ Save(c) \/ Blank(c)
    \/ TallyRead(c) \/ TallyWrite(c) \/ Transact(c)
    \/ Counted(c) \/ ListIndex(c) \/ Fetch(c)

Spec == Init /\ [][Next]_vars

----------------------------------------------------------------------------
Transacting == DOMAIN PermissionRouter

\* A listing shows what there is: an entity is listed from the end of its
\* creation to its deletion and no longer, and (but for the network of a
\* security group whose removal failed) has what was provisioned for it, while
\* no call on it is under way.  The exceptions are those the code accepts: a
\* listing that lost its three tries, a deletion that lost to an update; the
\* services that use transactions have neither.  Numbers are given once, and lead
\* to their group.  And a
\* listing misses no entity that was there when it began and still is: an entity
\* is stored before its id is listed.
ListingAgrees ==
    /\ \A i \in Ids : i \notin astray /\ (\A c \in Clients : Busy(c) => p[c].id # i) =>
         (i \in Existing <=> i \in Listed)
    /\ \A i \in Existing \ astray : (\A c \in Clients : Busy(c) => p[c].id # i) =>
         (service = "network" => i \in remote)
    /\ service \in {"volume"} \cup Transacting => Existing = Listed
    /\ \A i, j \in Existing : i # j /\ service = "sysgroup" =>
         Value(entity[i]).number # Value(entity[j]).number
    /\ \A i \in Existing : service = "sysgroup" /\ (\A c \in Clients : Busy(c) => p[c].id # i) =>
         <<Value(entity[i]).number, i>> \in numbered
    /\ \A c \in Clients : At(c, "fetch") =>
         \A i \in p[c].aux[1].read \cap Existing : i \in p[c].aux[1].found

\* What is for administrators to write was written by them, and user groups by wheel
\* alone: no route of these services lacks its guard.
WrittenByRole ==
    \A i \in Existing : \A w \in Value(entity[i]).by :
      /\ service \in {"network", "volume", "sysgroup", "s3policy", "runnergroup"}
                      \cup Transacting => w[3] # "user"
      /\ service = "usergroup" => w[3] = "wheel"

\* No change is overwritten by one that did not see it, nor is a deleted entity
\* brought back: a stored entity keeps what earlier calls did to it (but for
\* the updates of CrudStore), an approval one decision at most, and the index
\* changes by one id at a time.
OverwritesNothing ==
       /\ \A i \in Ids : Present(entity[i])' =>
            /\ Present(entity[i]) => (service \in Transacting
                                      \/ Value(entity[i]).by \subseteq Value(entity[i]').by)
            /\ Present(entity[i]) \/ entity[i] = Empty
            /\ service = "approval" => Cardinality(Value(entity[i]').by) <= 2
       /\ LET now == IF Present(index') THEN Value(index') ELSE {}
          IN  Cardinality((now \ Listed) \cup (Listed \ now)) <= 1
=============================================================================
