-------------------------- MODULE PermissionChecks --------------------------
(* PermissionChecker: the three layers of a decision (user, capabilities,     *)
(* rules) over lists that every Worker caches for TTL, while changes of the   *)
(* lists and of the capability masks commit and clear the cache of the Worker *)
(* that made them.  The mandatory rules, held in memory and never changed,    *)
(* count among the policies.                                                  *)
EXTENDS Cells, FiniteSets

CONSTANTS Workers, Clients, Home,   \* the requests, and the Worker each goes to
          Calls, MaxTime,           \* bounds: requests per client, ticks of the clock
          TTL,                      \* #CACHE_TTL
          Choices,                  \* per list: the contents it may be given
          Asks,                     \* what is asked: user, action, resource, owner
          Supplementary             \* groups by way of the supplementary gids

VARIABLES now,
          stored,      \* per list, what the store holds
          caps,        \* user:cap:<id> and group:cap:<id>, cells of capability sets
          cache,       \* per Worker and list: the copy, if any, and its stamp
          past,        \* history: per list, what it held and until when
          left, p,     \* per client: requests left, and the one under way
          decided      \* per client: the last decision, if any

vars == <<now, stored, caps, cache, past, left, p, decided>>

Lists == {"userGroups", "permGroups", "policies"}
Holders == DOMAIN caps
Nothing == [data |-> {}, ts |-> 0]        \* data: empty, or the one copy
NoAsk == CHOOSE a \in Asks : TRUE
Idle == [todo |-> <<>>, ask |-> NoAsk, got |-> [l \in Lists |-> {}], ts |-> 0,
         gids |-> {}, mask |-> {}, what |-> "none", seen |-> Empty, uses |-> {}]

----------------------------------------------------------------------------
(* The pure parts.  A pattern is the set of names it matches; a mask is the   *)
(* set of its bits.                                                           *)

actionToCapability(action) ==
    CASE action = "create" -> {"POD_CREATE"} [] action = "delete" -> {"POD_DELETE"}
      [] action = "update" -> {"POD_UPDATE"} [] action = "execute" -> {"POD_EXEC"}
      [] action \in {"admin", "*"} -> {"POD_ADMIN"}
      [] action = "pull" -> {"IMAGE_PULL"} [] action = "commit" -> {"IMAGE_COMMIT"}
      [] action = "mount" -> {"VOLUME_MOUNT"} [] action = "bind" -> {"NETWORK_BIND"}
      [] OTHER -> {}

hasCapability(mask, required) == required \subseteq mask
addCapability(mask, add) == mask \cup add

\* The groups a user is a member of, and those they depend on, however far.
resolveDagGroupIds(groups, user) ==
    LET direct == {g.id : g \in {x \in groups : user \in x.memberIds}}
        Dependencies(S) == UNION {g.dependsOn : g \in {x \in groups : x.id \in S}}
        reach[n \in Nat] == IF n = 0 THEN direct
                            ELSE reach[n - 1] \cup Dependencies(reach[n - 1])
    IN  reach[Cardinality(groups)]

expandSelf(resources, owner) ==
    IF "self" \in resources THEN (resources \ {"self"}) \cup {owner} ELSE resources

Matches(rule, ask) ==
    /\ rule.actions = {} \/ ask.action \in rule.actions
    /\ rule.resources = {} \/ ask.resource \in expandSelf(rule.resources, ask.owner)

\* PermissionDag.evaluate: a deny that matches overrides, no match denies.
evaluate(rules, ask) ==
    LET hit == {r \in rules : Matches(r, ask)}
    IN  hit # {} /\ \A r \in hit : r.effect = "allow"

checkMac(groups, permGroups, policies, ask) ==
    LET mine == resolveDagGroupIds(groups, ask.user)
        matched == {g \in permGroups : g.userGroupIds \cap mine # {} \/ ask.user \in g.userIds}
    IN  evaluate(UNION {g.rules : g \in matched} \cup {q.rule : q \in {x \in policies : x.enabled}}, ask)

----------------------------------------------------------------------------
Init == /\ now = 0
        /\ stored = [l \in Lists |-> CHOOSE list \in Choices[l] : list # {}]
        /\ caps = [h \in {a.user : a \in Asks} \cup Supplementary |-> Empty]
        /\ cache = [w \in Workers |-> [l \in Lists |-> Nothing]]
        /\ past = [l \in Lists |-> {}]
        /\ left = Calls
        /\ p = [c \in Clients |-> Idle]
        /\ decided = [c \in Clients |-> {}]

At(c, step) == p[c].todo # <<>> /\ Head(p[c].todo) = step
Go(q) == IF Len(q.todo) = 1 THEN Idle ELSE [q EXCEPT !.todo = Tail(@)]
Step(c, q) == p' = [p EXCEPT ![c] = Go(q)]
Finish(c, allowed) == /\ decided' = [decided EXCEPT ![c] = {allowed}]
                      /\ p' = [p EXCEPT ![c] = Idle]

Fetching(l) == <<l, "read", "keep">>
CapSteps == <<"ownCaps">> \o Fetching("userGroups") \o <<"gids", "groupCaps">>
MacSteps == Fetching("userGroups") \o Fetching("permGroups") \o Fetching("policies") \o <<"mac">>
ChangeSteps == <<"commit", "invalidate">>
FromTemplateSteps == <<"commit">>            \* createPermGroupFromTemplate
CapsSteps == <<"capsRead", "capsWrite">>     \* setUserCaps, setGroupCaps

Call(c) ==
    /\ p[c].todo = <<>> /\ left[c] > 0
    /\ left' = [left EXCEPT ![c] = @ - 1]
    /\ \/ \E a \in Asks :
            p' = [p EXCEPT ![c] = [Idle EXCEPT !.ask = a, !.todo = <<"dac">> \o
                    (IF actionToCapability(a.action) = {} THEN <<>> ELSE CapSteps) \o MacSteps]]
       \/ \E l \in Lists :
            p' = [p EXCEPT ![c] = [Idle EXCEPT !.what = l, !.todo = ChangeSteps]]
       \/ p' = [p EXCEPT ![c] = [Idle EXCEPT !.what = "permGroups", !.todo = FromTemplateSteps]]
       \/ \E h \in Holders :
            p' = [p EXCEPT ![c] = [Idle EXCEPT !.what = h, !.todo = CapsSteps]]
    /\ UNCHANGED <<now, stored, caps, cache, past, decided>>

\* The managers write; what they commit is modelled in EntityServices.
Commit(c) ==
    LET l == p[c].what IN
    /\ At(c, "commit")
    /\ \E new \in Choices[l] \ {stored[l]} :
         /\ stored' = [stored EXCEPT ![l] = new]
         /\ past' = [past EXCEPT ![l] = @ \cup {[data |-> stored[l], until |-> now]}]
    /\ Step(c, p[c])
    /\ UNCHANGED <<now, caps, cache, left, decided>>

Invalidate(c) ==
    /\ At(c, "invalidate")
    /\ cache' = [cache EXCEPT ![Home[c]] = [l \in Lists |-> Nothing]]
    /\ Step(c, p[c])
    /\ UNCHANGED <<now, stored, caps, past, left, decided>>

CapsRead(c) ==
    /\ At(c, "capsRead")
    /\ Step(c, [p[c] EXCEPT !.seen = caps[p[c].what]])
    /\ UNCHANGED <<now, stored, caps, cache, past, left, decided>>

\* The answer of the compare-and-set is not looked at.
CapsWrite(c) ==
    /\ At(c, "capsWrite")
    /\ \E mask \in {{}, {"POD_CREATE"}} :
         caps' = [caps EXCEPT ![p[c].what] = Put(@, Version(p[c].seen), mask)]
    /\ cache' = [cache EXCEPT ![Home[c]] = [l \in Lists |-> Nothing]]
    /\ Step(c, p[c])
    /\ UNCHANGED <<now, stored, past, left, decided>>

\* Layer 1: the user exists, or does not.
CheckDac(c) ==
    /\ At(c, "dac")
    /\ \/ Step(c, p[c]) /\ UNCHANGED decided
       \/ Finish(c, FALSE)
    /\ UNCHANGED <<now, stored, caps, cache, past, left>>

MaskOf(h) == IF h \in Holders /\ Present(caps[h]) THEN Value(caps[h]) ELSE {}

\* Layer 2: own capabilities, those of every group, all must be there.
OwnCaps(c) ==
    /\ At(c, "ownCaps")
    /\ Step(c, [p[c] EXCEPT !.mask = MaskOf(p[c].ask.user)])
    /\ UNCHANGED <<now, stored, caps, cache, past, left, decided>>

Only(S) == CHOOSE x \in S : TRUE

GroupIds(c) ==
    /\ At(c, "gids")
    /\ \E extra \in SUBSET Supplementary :      \* what the user record says now
         Step(c, [p[c] EXCEPT !.gids = extra \cup
                    resolveDagGroupIds(Only(p[c].got["userGroups"]), p[c].ask.user)])
    /\ UNCHANGED <<now, stored, caps, cache, past, left, decided>>

GroupCaps(c) ==
    LET q == p[c] IN
    /\ At(c, "groupCaps")
    /\ \/ \E g \in q.gids :
            /\ p' = [p EXCEPT ![c].gids = @ \ {g}, ![c].mask = addCapability(@, MaskOf(g))]
            /\ UNCHANGED decided
       \/ /\ q.gids = {}
          /\ IF hasCapability(q.mask, actionToCapability(q.ask.action))
             THEN Step(c, q) /\ UNCHANGED decided
             ELSE Finish(c, FALSE)
    /\ UNCHANGED <<now, stored, caps, cache, past, left>>

\* The cached lists.  The stamp is the time of asking.
CacheHit(c, l) == LET k == cache[Home[c]][l] IN k.data # {} /\ now - k.ts < TTL
Used(q, l, data, asked) == [q EXCEPT !.got[l] = data,
                                     !.uses = @ \cup {[list |-> l, data |-> Only(data), asked |-> asked]}]

AskList(c, l) ==
    /\ At(c, l)
    /\ p' = [p EXCEPT ![c] =
             IF CacheHit(c, l)
             THEN [Used(@, l, cache[Home[c]][l].data, now) EXCEPT !.todo = SubSeq(@, 4, Len(@))]
             ELSE [@ EXCEPT !.todo = Tail(@), !.what = l, !.ts = now]]
    /\ UNCHANGED <<now, stored, caps, cache, past, left, decided>>

ReadList(c) ==
    /\ At(c, "read")
    /\ Step(c, [p[c] EXCEPT !.got[p[c].what] = {stored[p[c].what]}])
    /\ UNCHANGED <<now, stored, caps, cache, past, left, decided>>

\* Mutant: the clock is read when the list has come.
StampLate(c) == now

\* The clock as it was read before the list.
Stamp(c) == p[c].ts

KeepList(c) ==
    LET l == p[c].what IN
    /\ At(c, "keep")
    /\ cache' = [cache EXCEPT ![Home[c]][l] = [data |-> p[c].got[l], ts |-> Stamp(c)]]
    /\ Step(c, Used(p[c], l, p[c].got[l], p[c].ts))
    /\ UNCHANGED <<now, stored, caps, past, left, decided>>

\* Layer 3.
CheckMac(c) ==
    LET q == p[c] IN
    /\ At(c, "mac")
    /\ Finish(c, checkMac(Only(q.got["userGroups"]), Only(q.got["permGroups"]),
                          Only(q.got["policies"]), q.ask))
    /\ UNCHANGED <<now, stored, caps, cache, past, left>>

Tick == /\ now < MaxTime /\ now' = now + 1
        /\ UNCHANGED <<stored, caps, cache, past, left, p, decided>>

Next == \/ Tick
        \/ \E c \in Clients :
             \/ Call(c) \/ Commit(c) \/ Invalidate(c) \/ CapsRead(c) \/ CapsWrite(c)
             \/ CheckDac(c) \/ OwnCaps(c) \/ GroupIds(c) \/ GroupCaps(c) \/ CheckMac(c)
             \/ \E l \in Lists : AskList(c, l)
             \/ ReadList(c) \/ KeepList(c)

Spec == Init /\ [][Next]_vars

----------------------------------------------------------------------------
\* A list a decision rests on was stored less than TTL before it was asked for,
\* whichever Worker changed it and however late a slow read filled the cache:
\* a right that was taken away is gone after TTL at the latest.
RightsFresh ==
    \A c \in Clients : \A u \in p[c].uses :
        \/ u.data = stored[u.list]
        \/ \E h \in past[u.list] : h.data = u.data /\ h.until > u.asked - TTL
=============================================================================
