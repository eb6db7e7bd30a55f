----------------------------- MODULE Placement -----------------------------
(* From a request to a provider: the lazy registry of an isolate makes one    *)
(* InstanceProviderResolver, which reads the compute instance (the one named, *)
(* or the first online one that is able) and, for platforms that need them,   *)
(* the keys of the credential the instance refers to.  Instances and          *)
(* credentials change meanwhile; every read is a step of its own.             *)
EXTENDS Integers, SequencesExt

CONSTANTS Clients, Instances, Creds, Names,
          Platform,      \* [Instances -> {"podman", "alibaba", "stub"}]
          Caps,          \* [Instances -> SUBSET Kinds]
          Encrypted,     \* a master key is configured
          EnvKeys,       \* the environment holds keys
          Kinds,         \* of requests
          Asks,          \* [Clients -> SUBSET Kinds]: what each client tries
          Keyless,       \* credentials without access keys (of a registry, say)
          None,          \* nothing: undefined, null
          MaxChanges     \* bound: changes of instances and credentials

VARIABLES inst, ids,         \* instance:<id>, instance:ids
          cred, credIds,     \* cred:<id>, cred:ids
          loading, resolvers,\* _initResolver() calls under way and ended
          call,              \* [Clients -> record]
          changes
store == <<inst, ids, cred, credIds>>
vars == <<store, loading, resolvers, call, changes>>

----------------------------------------------------------------------------
(* CredentialService                                                          *)

\* A secret is the key under so many layers of encryption; decrypt() lets what
\* is not encrypted pass.
Encrypt(s) == IF Encrypted THEN [s EXCEPT !.layers = @ + 1] ELSE s
Decrypt(s) == IF Encrypted /\ s.layers > 0 THEN [s EXCEPT !.layers = @ - 1] ELSE s
EncryptFields(c) == [c EXCEPT !.secret = IF @.key = None THEN @ ELSE Encrypt(@)]
DecryptFields(c) == [c EXCEPT !.secret = IF @.key = None THEN @ ELSE Decrypt(@)]

Existing(S, f) == SelectSeq(S, LAMBDA x : f[x] # None)

First(S, Test(_)) == IF SelectSeq(S, Test) = <<>> THEN None ELSE Head(SelectSeq(S, Test))

\* Mutant: the instance is not looked at.
FindUnbound(listed, name, i) == First(listed, LAMBDA c : cred[c].name = name)

\* findByName() over what listAll() read: the one of that name that is bound to
\* the instance, else the first of that name.
FindByName(listed, name, i) ==
    LET bound == First(listed, LAMBDA c : cred[c].name = name /\ cred[c].owner = i)
    IN  IF i # None /\ bound # None THEN bound ELSE First(listed, LAMBDA c : cred[c].name = name)

----------------------------------------------------------------------------
(* InstanceService                                                            *)

ResolveStatus(ref) == IF ref = None THEN "offline" ELSE "online"
Able(i, kind) == inst[i].status = "online" /\ kind \in Caps[i]

----------------------------------------------------------------------------
(* What a call saw of the store while it ran: it is part of the property.     *)

Refers(i) == inst[i] # None /\ inst[i].ref # None
Listed(c) == cred[c] # None /\ c \in ToSet(credIds)
OwnNow == {p \in Instances \X Creds :
             /\ Refers(p[1]) /\ Listed(p[2])
             /\ cred[p[2]].name = inst[p[1]].ref /\ cred[p[2]].owner = p[1]}
MatchNow == {p \in Instances \X Creds :
               Refers(p[1]) /\ cred[p[2]] # None /\ inst[p[1]].ref \in {p[2], cred[p[2]].name}}
OnlineNow == {i \in Instances : inst[i] # None /\ inst[i].status = "online"}
BareNow == {i \in Instances : ~Refers(i)}

Idle == [pc |-> "idle"]
Running == {c \in Clients : call[c].pc \notin {"idle", "done"}}
Witness == call' = [c \in Clients |->
    IF c \notin Running THEN call[c]
    ELSE [call[c] EXCEPT !.own = @ \cap OwnNow', !.match = @ \cup MatchNow',
                         !.online = @ \cup OnlineNow', !.bare = @ \cup BareNow']]

Begin(c) ==
    /\ call[c].pc = "idle"
    /\ \E kind \in Asks[c], target \in Instances \cup {None} :
         /\ target = None => kind \in {"container", "image", "group"}
         /\ call' = [call EXCEPT ![c] =
              [pc |-> "ensure", kind |-> kind, target |-> target, at |-> None, ref |-> None, listed |-> <<>>,
               own |-> OwnNow, match |-> MatchNow, online |-> OnlineNow, bare |-> BareNow,
               answer |-> None, cred |-> None, owner |-> None, secret |-> None]]
    /\ UNCHANGED <<store, loading, resolvers, changes>>

----------------------------------------------------------------------------
(* LazyProviderRegistry                                                       *)

MustInit == resolvers = 0 /\ loading = 0
EnsureResolver(c) ==
    /\ call[c].pc = "ensure"
    /\ loading' = loading + (IF MustInit THEN 1 ELSE 0)
    /\ call' = [call EXCEPT ![c].pc = "resolver"]
    /\ UNCHANGED <<store, resolvers, changes>>
InitResolver ==
    /\ loading > 0
    /\ loading' = loading - 1 /\ resolvers' = resolvers + 1
    /\ UNCHANGED <<store, call, changes>>

----------------------------------------------------------------------------
(* InstanceProviderResolver                                                   *)

Answered(c, answer, i, k, secret) ==
    call' = [call EXCEPT ![c].pc = "done", ![c].answer = answer, ![c].at = i, ![c].cred = k, ![c].secret = secret,
                         ![c].owner = IF k \in Creds THEN cred[k].owner ELSE None]
Refused(c) == Answered(c, "refused", None, None, None)
Nothing(c) == Answered(c, "undefined", None, None, None)
Stub(c) == Answered(c, "stub", None, None, None)

\* create*Provider(): what the platform of the instance needs.
NeedsKeys(kind, i) == kind = "s3" \/ (Platform[i] = "alibaba" /\ kind # "network")
Unsupported(kind, i) ==
    \/ kind \in {"group", "s3"} /\ Platform[i] = "stub"
    \/ kind = "network" /\ Platform[i] # "podman"
    \/ kind = "raw" /\ Platform[i] # "alibaba"
Provider(c, i, k, secret) ==
    IF Unsupported(call[c].kind, i) THEN Nothing(c) ELSE Answered(c, "provider", i, k, secret)
Create(c, i) ==
    IF NeedsKeys(call[c].kind, i)
    THEN call' = [call EXCEPT ![c].pc = IF inst[i].ref = None THEN "env" ELSE "byId", ![c].at = i, ![c].ref = inst[i].ref]
    ELSE Provider(c, i, None, None)

Missing(c) == IF call[c].kind \in {"container", "image", "group"} THEN Refused(c) ELSE Nothing(c)
ReadInstance(c) ==
    /\ call[c].pc = "resolver" /\ resolvers > 0 /\ call[c].target # None
    /\ LET i == call[c].target
           unchecked == call[c].kind \in {"container", "raw"}
       IN  IF inst[i] # None /\ (unchecked \/ call[c].kind \in Caps[i]) THEN Create(c, i) ELSE Missing(c)
    /\ UNCHANGED <<store, loading, resolvers, changes>>

ReadIds(c) ==
    /\ call[c].pc = "resolver" /\ resolvers > 0 /\ call[c].target = None
    /\ call' = [call EXCEPT ![c].pc = "listed", ![c].listed = ids]
    /\ UNCHANGED <<store, loading, resolvers, changes>>
Candidates(c) == SelectSeq(Existing(call[c].listed, inst), LAMBDA i : Able(i, call[c].kind))
PickFirst(c) ==
    /\ call[c].pc = "listed"
    /\ IF Candidates(c) # <<>> THEN Create(c, Head(Candidates(c)))
       ELSE CASE call[c].kind = "container" -> Refused(c)
              [] call[c].kind = "image" -> Stub(c)
              [] call[c].kind = "group" -> Nothing(c)
    /\ UNCHANGED <<store, loading, resolvers, changes>>

\* resolveCredential(): by id, else by name.  The raw API clients leave the
\* instance out of the second.
Keyed(c, k) ==
    LET opened == DecryptFields(cred[k]) IN
    IF opened.secret.key = None THEN Refused(c) ELSE Provider(c, call[c].at, k, opened.secret)
ReadById(c) ==
    /\ call[c].pc = "byId"
    /\ IF call[c].ref \in Creds /\ cred[call[c].ref] # None THEN Keyed(c, call[c].ref)
       ELSE call' = [call EXCEPT ![c].pc = "credIds"]
    /\ UNCHANGED <<store, loading, resolvers, changes>>
ReadCredIds(c) ==
    /\ call[c].pc = "credIds"
    /\ call' = [call EXCEPT ![c].pc = "byName", ![c].listed = credIds]
    /\ UNCHANGED <<store, loading, resolvers, changes>>
ReadByName(c) ==
    /\ call[c].pc = "byName"
    /\ LET i == IF call[c].kind = "raw" THEN None ELSE call[c].at
           k == FindByName(Existing(call[c].listed, cred), call[c].ref, i)
       IN  IF k = None THEN Refused(c) ELSE Keyed(c, k)
    /\ UNCHANGED <<store, loading, resolvers, changes>>
UseEnv(c) ==
    /\ call[c].pc = "env"
    /\ IF ~EnvKeys /\ call[c].kind \in {"s3", "raw"} THEN Nothing(c)
       ELSE Provider(c, call[c].at, "env", None)
    /\ UNCHANGED <<store, loading, resolvers, changes>>

----------------------------------------------------------------------------
(* The instances and the credentials, as their services write them            *)

Change == changes < MaxChanges /\ changes' = changes + 1
Refs == Names \cup Creds \cup {None}

\* Instances and credentials as their create() leaves them.
Key(k) == IF k \in Keyless THEN None ELSE k
Created(k) == {EncryptFields([name |-> n, owner |-> o, secret |-> [key |-> Key(k), layers |-> 0]]) :
                 n \in Names, o \in Instances \cup {None}}

UpdateInstance(i) ==
    /\ inst[i] # None
    /\ \/ \E ref \in Refs : inst' = [inst EXCEPT ![i] = [ref |-> ref, status |-> ResolveStatus(ref)]]
       \/ \E status \in {"online", "offline"} : inst' = [inst EXCEPT ![i].status = status]   \* update() and heartbeat()
    /\ UNCHANGED <<ids, cred, credIds>>
CreateInstance(i) ==
    /\ inst[i] = None /\ i \notin ToSet(ids)
    /\ \E ref \in Refs : inst' = [inst EXCEPT ![i] = [ref |-> ref, status |-> ResolveStatus(ref)]]
    /\ UNCHANGED <<ids, cred, credIds>>
DeleteInstance(i) ==
    /\ inst[i] # None
    /\ inst' = [inst EXCEPT ![i] = None]
    /\ UNCHANGED <<ids, cred, credIds>>
CreateCredential(k) ==
    /\ cred[k] = None /\ ~Listed(k)
    /\ \E new \in Created(k) : cred' = [cred EXCEPT ![k] = new]
    /\ UNCHANGED <<inst, ids, credIds>>
Updated(k, edited) == EncryptFields([DecryptFields(cred[k]) EXCEPT !.name = edited.name, !.owner = edited.owner])
UpdateCredential(k) ==
    /\ cred[k] # None
    /\ \E name \in Names, owner \in Instances \cup {None} :
         cred' = [cred EXCEPT ![k] = Updated(k, [name |-> name, owner |-> owner])]
    /\ UNCHANGED <<inst, ids, credIds>>
DeleteCredential(k) ==
    /\ cred[k] # None
    /\ cred' = [cred EXCEPT ![k] = None]
    /\ UNCHANGED <<inst, ids, credIds>>

\* The second write of a create() and of a delete(): the index.
Enlist ==
    \/ \E i \in Instances : inst[i] # None /\ i \notin ToSet(ids) /\ ids' = Append(ids, i) /\ credIds' = credIds
    \/ \E k \in Creds : cred[k] # None /\ k \notin ToSet(credIds) /\ credIds' = Append(credIds, k) /\ ids' = ids
Unlist ==
    \/ \E i \in ToSet(ids) : inst[i] = None /\ ids' = SelectSeq(ids, LAMBDA x : x # i) /\ credIds' = credIds
    \/ \E k \in ToSet(credIds) : cred[k] = None /\ credIds' = SelectSeq(credIds, LAMBDA x : x # k) /\ ids' = ids
Write ==
    /\ \/ Change /\ \E i \in Instances : CreateInstance(i) \/ UpdateInstance(i) \/ DeleteInstance(i)
       \/ Change /\ \E k \in Creds : CreateCredential(k) \/ UpdateCredential(k) \/ DeleteCredential(k)
       \/ (Enlist \/ Unlist) /\ UNCHANGED <<inst, cred, changes>>
    /\ Witness
    /\ UNCHANGED <<loading, resolvers>>

----------------------------------------------------------------------------
Init == /\ inst \in [Instances -> {[ref |-> r, status |-> ResolveStatus(r)] : r \in Names \cup {None}}]
        /\ ids = SetToSeq(Instances)
        /\ cred \in {f \in [Creds -> UNION {Created(k) : k \in Creds}] : \A k \in Creds : f[k] \in Created(k)}
        /\ credIds \in SetToSeqs(Creds)
        /\ loading = 0 /\ resolvers = 0
        /\ call = [c \in Clients |-> Idle]
        /\ changes = 0
Next == \/ \E c \in Clients : \/ Begin(c) \/ EnsureResolver(c)
                              \/ ReadInstance(c) \/ ReadIds(c) \/ PickFirst(c)
                              \/ ReadById(c) \/ ReadCredIds(c) \/ ReadByName(c) \/ UseEnv(c)
        \/ InitResolver
        \/ Write
Spec == Init /\ [][Next]_vars

----------------------------------------------------------------------------
(* Properties                                                                 *)

Served(c) == call[c].pc = "done" /\ call[c].answer = "provider"

\* A provider is for the instance that was named, or for one that was online at
\* some moment of the call; its keys are readable and belong to a credential the
\* instance referred to at some moment, never to the environment when the instance
\* referred to one all along; and while the instance has a credential of that
\* name of its own, it is not given another one's.
OwnKeys(c) == (call[c].cred \in Creds /\ \E p \in call[c].own : p[1] = call[c].at) =>
                 (call[c].owner = call[c].at \/ call[c].ref \in Creds)
ResolvedRight == \A c \in Clients : Served(c) =>
    /\ IF call[c].target = None THEN call[c].at \in call[c].online ELSE call[c].at = call[c].target
    /\ call[c].cred = "env" => call[c].at \in call[c].bare
    /\ call[c].cred \in Creds => <<call[c].at, call[c].cred>> \in call[c].match /\ call[c].secret.layers = 0
    /\ call[c].kind # "raw" => OwnKeys(c)

\* However many requests are the first, the registry makes one resolver.
OneResolver == resolvers + loading <= 1
=============================================================================
