----------------------------- MODULE RouteAcls -----------------------------
(* The route rules of RouteAclManager: every Worker keeps a sorted copy and   *)
(* loads it anew when the version key has moved.  A change writes the rule    *)
(* first and the version after it, the version in one try.                    *)
(* Transactions read the store itself.  Other reads, of the version above     *)
(* all, may get a value up to 30 s old where the store is a CachedAtomicStore *)
(* (store/factory.ts, the Workers deployment): readsCached chooses.           *)
EXTENDS Cells, FiniteSets

CONSTANTS Workers, Rules,
          Callers, Home,     \* the callers, and the Worker each one's requests go to
          Requests           \* bound: how many requests each caller makes

ASSUME AclAssumption == Rules # {} /\ Home \in [Callers -> Workers]

VARIABLES readsCached, \* constant: the store is a CachedAtomicStore
          acls,      \* routeacl:<id> and the index, one transaction: rule -> effect and priority
          version,   \* routeacl:version, a cell
          older,     \* earlier cells of the version that reads may still get
          since,     \* the rules as they were since the version was written (history)
          cache,     \* per Worker: #cachedAcls, if any, and #cachedAclsVersion
          togo,      \* per caller: how many requests it may still make
          request,   \* per caller: the one under way
          decided    \* per caller: the last decision, if any

aclVars == <<readsCached, acls, version, older, since, cache, togo, request, decided>>

RuleKinds == [effect : {"allow", "deny"}, priority : {1, 2}]
NoAcls == [r \in {} |-> {}]
Cold == [acls |-> {}, ver |-> 0]       \* acls: the empty set, or the one copy
NoRequest == [at |-> "idle", op |-> "none", rule |-> CHOOSE r \in Rules : TRUE, ver |-> 0,
              seen |-> Empty, ids |-> {}, rules |-> NoAcls]
Number(c) == IF Present(c) THEN Value(c) ELSE 0

AclInit == /\ readsCached \in BOOLEAN
           /\ acls = NoAcls /\ since = {NoAcls}
           /\ version = Empty /\ older = {}
           /\ cache = [w \in Workers |-> Cold]
           /\ togo = Requests
           /\ request = [c \in Callers |-> NoRequest]
           /\ decided = [c \in Callers |-> {}]

Due(c, step) == request[c].at = step
Proceed(c, step) == request' = [request EXCEPT ![c].at = step]
Finish(c) == request' = [request EXCEPT ![c] = NoRequest]     \* also what throws

storedVars == <<readsCached, acls, version, older, since>>

\* What a read of the version may return.
Versions == {version} \cup older

\* The id of a new rule is generated.
New(r) == r \notin DOMAIN acls /\ \A c \in Callers : request[c].op = "create" => request[c].rule # r

Ask(c) ==
    /\ Due(c, "idle") /\ togo[c] > 0
    /\ togo' = [togo EXCEPT ![c] = @ - 1]
    /\ \E r \in Rules, op \in {"create", "update", "delete", "check"} :
         /\ op = "create" => New(r)
         /\ request' = [request EXCEPT ![c] =
              [NoRequest EXCEPT !.at = IF op = "check" THEN "user" ELSE "look", !.op = op, !.rule = r]]
    /\ UNCHANGED <<storedVars, cache, decided>>

Missing(c) == request[c].op # "create" /\ request[c].rule \notin DOMAIN acls
Overlapped(c) == \E d \in Callers \ {c} : ~Due(d, "idle")

\* What duplicates a stored rule is refused; an unknown rule is 404, unless a
\* cache still has it.
Look(c) ==
    /\ Due(c, "look")
    /\ \/ /\ Missing(c) \/ (request[c].op = "create" /\ DOMAIN acls # {})
          /\ Finish(c)
       \/ /\ ~Missing(c) \/ readsCached
          /\ Proceed(c, "write")
    /\ UNCHANGED <<storedVars, cache, togo, decided>>

\* One transaction, or a compare-and-set: the rule is looked up again, and three
\* conflicts in a row, of others or of an old read, end the call.
Write(c) ==
    LET r == request[c].rule IN
    /\ Due(c, "write")
    /\ \/ /\ Missing(c) \/ Overlapped(c) \/ (readsCached /\ request[c].op = "update")
          /\ Finish(c) /\ UNCHANGED <<acls, since>>
       \/ /\ ~Missing(c)
          /\ \E k \in RuleKinds :
               acls' = IF request[c].op = "delete" THEN [s \in DOMAIN acls \ {r} |-> acls[s]]
                       ELSE [s \in DOMAIN acls \cup {r} |-> IF s = r THEN k ELSE acls[s]]
          /\ since' = since \cup {acls'}
          /\ Proceed(c, "bumpRead")
    /\ UNCHANGED <<readsCached, version, older, cache, togo, decided>>

\* #bumpVersion
BumpRead(c) ==
    /\ Due(c, "bumpRead")
    /\ cache' = [cache EXCEPT ![Home[c]].acls = {}]
    /\ \E v \in Versions :
         request' = [request EXCEPT ![c].at = "bumpWrite", ![c].seen = v]
    /\ UNCHANGED <<storedVars, togo, decided>>

\* Mutant: the number that was read is written back.
BumpedNot(n) == n

Bumped(n) == n + 1

\* A version that a cache serves was stored.
BumpWrite(c) ==
    /\ Due(c, "bumpWrite")
    /\ version' = Put(version, Version(request[c].seen), Bumped(Number(request[c].seen)))
    /\ IF version' = version THEN UNCHANGED <<older, since>>
       ELSE /\ older' = IF readsCached /\ Present(version) THEN older \cup {version} ELSE older
            /\ since' = {acls}
    /\ Finish(c)
    /\ UNCHANGED <<readsCached, acls, cache, togo, decided>>

ExpireVersions ==
    /\ older # {} /\ older' = {}
    /\ UNCHANGED <<readsCached, acls, version, since, cache, togo, request, decided>>

\* checkRouteAccess: no user is refused, root is let through.
CheckUser(c) ==
    /\ Due(c, "user")
    /\ Finish(c) \/ Proceed(c, "groups")
    /\ UNCHANGED <<storedVars, cache, togo, decided>>

CheckGroups(c) ==
    /\ Due(c, "groups") /\ Proceed(c, "version")
    /\ UNCHANGED <<storedVars, cache, togo, decided>>

\* The first rule that matches, by priority, decides; none denies.
Decisions(rules) ==
    LET top == {r \in DOMAIN rules : \A s \in DOMAIN rules : rules[r].priority >= rules[s].priority}
    IN  IF top = {} THEN {"deny"} ELSE {rules[r].effect : r \in top}

Decide(c, rules) ==
    /\ \E d \in Decisions(rules) : decided' = [decided EXCEPT ![c] = {d}]
    /\ Finish(c)

\* #loadCachedAcls
CheckVersion(c) ==
    /\ Due(c, "version")
    /\ \E v \in Versions :
         IF cache[Home[c]].acls # {} /\ cache[Home[c]].ver = Number(v)
         THEN Decide(c, CHOOSE rules \in cache[Home[c]].acls : TRUE)
         ELSE /\ request' = [request EXCEPT ![c].at = "ids", ![c].ver = Number(v)]
              /\ UNCHANGED decided
    /\ UNCHANGED <<storedVars, cache, togo>>

\* list(): the index, then the rules that it names.
CheckIds(c) ==
    /\ Due(c, "ids")
    /\ request' = [request EXCEPT ![c].at = "load", ![c].ids = DOMAIN acls]
    /\ UNCHANGED <<storedVars, cache, togo, decided>>

RecordsOf(ids) == [r \in ids \cap DOMAIN acls |-> acls[r]]

CheckLoad(c) ==
    /\ Due(c, "load")
    /\ request' = [request EXCEPT ![c].at = "keep", ![c].rules = RecordsOf(request[c].ids)]
    /\ UNCHANGED <<storedVars, cache, togo, decided>>

CheckKeep(c) ==
    /\ Due(c, "keep")
    /\ cache' = [cache EXCEPT ![Home[c]] = [acls |-> {request[c].rules}, ver |-> request[c].ver]]
    /\ Decide(c, request[c].rules)
    /\ UNCHANGED <<storedVars, togo>>

AclStep(c) ==
    \/ Ask(c) \/ Look(c) \/ Write(c) \/ BumpRead(c) \/ BumpWrite(c)
    \/ CheckUser(c) \/ CheckGroups(c) \/ CheckVersion(c) \/ CheckIds(c) \/ CheckLoad(c) \/ CheckKeep(c)

AclNext == ExpireVersions \/ \E c \in Callers : AclStep(c)

AclSpec == AclInit /\ [][AclNext]_aclVars

----------------------------------------------------------------------------
\* Each rule, or its absence, is as it was in one of these states.
Mixed(rules, states) ==
    \A r \in Rules : \E s \in states :
        IF r \in DOMAIN rules THEN r \in DOMAIN s /\ s[r] = rules[r] ELSE r \notin DOMAIN s

\* A copy of the version that counts holds no rule from before this version was
\* written.  Where reads are not cached, it is a copy of the rules that count once
\* the changes under way have bumped the version, or lost their one try to another
\* that did; where they are, a change whose bump was refused goes without.
RulesCurrent ==
    \A w \in Workers : \A rules \in cache[w].acls :
        cache[w].ver = Number(version) =>
            /\ Mixed(rules, since)
            /\ ~readsCached /\ (\A c \in Callers : request[c].op \in {"none", "check"}) => rules = acls
=============================================================================
