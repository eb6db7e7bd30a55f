----------------------------- MODULE MCServices -----------------------------
(* The services over the atomic store, with the middleware in front of them,  *)
(* for TLC.  They share no key and call no other of them in what is modelled, *)
(* so a behaviour is of one service:                                          *)
(* part names it.  The modules extended are those ServiceProofs proves about; *)
(* s1, s2, ... are the variables of the instances, of one of them at a time.  *)
EXTENDS Secrets, Seed, Users, RouteAcls, Sessions, Gatekeeper, SubnetPool, TLC

CONSTANT Parts     \* the services this run takes

VARIABLES part, s1, s2, s3, s4, s5, s6, s7, s8, s9, s10

shared == <<s1, s2, s3, s4, s5, s6, s7, s8, s9, s10>>
dataVars == <<vars, seedVars, userVars>>
accessVars == <<aclVars, sessionVars>>
limitVars == <<gateVars, poolVars>>
servicesVars == <<part, shared, dataVars, accessVars, limitVars>>

Two == {"a", "b"}
TwiceEach == [c \in Two |-> 2]
TwiceAndOnce == [a |-> 2, b |-> 1]

\* Starts of Seed; Menu of Users; Home and Requests of RouteAcls; Offers, KeyOf and
\* KeyTime of Sessions.
OnceEach == [i \in {"v", "w"} |-> 1]
OnceAndTwice == [a |-> 1, b |-> 2]
UserMenu == [a |-> {"register", "update"}, b |-> {"register", "update", "group", "delete"}]
TwoAtOne == [a |-> "v", b |-> "w", d |-> "v"]
Asked == [a |-> 2, b |-> 1, d |-> 1]
VisitorMenu == [a |-> {"key", "request"},
                b |-> {"login", "key", "list", "revoke", "delete"}]
Signed == [k |-> "u"]
SignedAt == [k |-> 1]

----------------------------------------------------------------------------
(* The instances                                                              *)

\* Images have the methods of buckets, and user templates those of policies.
Entities == {"network", "subnet", "instance", "bucket", "credential", "ctsecret",
             "s3policy", "security", "sysgroup", "volume", "policy", "usergroup",
             "permgroup", "runner",
             "runnergroup", "registry", "workflowsecret", "action", "sharedlink", "org",
             "project", "approval", "workflow", "pulltask"}

E == INSTANCE EntityServices WITH
       Clients <- Two, Ids <- {"i", "j"}, Services <- Entities, Calls <- TwiceAndOnce,
       service <- s1, entity <- s2, index <- s3, count <- s4, counter <- s5,
       remote <- s6, astray <- s7, left <- s8, p <- s9, numbered <- s10

T == INSTANCE Templates WITH
       Clients <- Two, Generated <- {"g"}, Created <- {"t"}, Calls <- TwiceAndOnce,
       tpl <- s1, index <- s2, pods <- s3, lock <- s4, bind <- s5, left <- s6, p <- s7

G == INSTANCE PermissionGrants WITH
       Clients <- Two, Users <- {"u"}, Invites <- {"i"}, Calls <- TwiceEach,
       MaxTime <- 2, Duration <- 1, InviteLife <- 1,
       now <- s1, ids <- s2, elev <- s3, invite <- s4, index <- s5, group <- s6,
       left <- s7, p <- s8

\* Rights of a user through a group it is in or was in, one permission group of a
\* group the first depends on, and one policy.
Members(m) == {[id |-> "dev", memberIds |-> m, dependsOn |-> {"ops"}],
               [id |-> "ops", memberIds |-> {}, dependsOn |-> {}]}
Rule(e) == [effect |-> e, actions |-> {"create"}, resources |-> {"self"}]

C == INSTANCE PermissionChecks WITH
       Workers <- {"v", "w"}, Clients <- Two, Home <- [a |-> "v", b |-> "w"],
       Calls <- TwiceAndOnce, MaxTime <- 3, TTL <- 2, Supplementary <- {"ops"},
       Choices <- [userGroups |-> {Members({"u"}), Members({})},
                   permGroups |-> {{[userGroupIds |-> {"ops"}, userIds |-> {},
                                     rules |-> {Rule("allow")}]}, {}},
                   policies |-> {{[enabled |-> TRUE, rule |-> Rule("deny")]}, {}}],
       Asks <- {[user |-> "u", action |-> "create", resource |-> "u", owner |-> "u"]},
       now <- s1, stored <- s2, caps <- s3, cache <- s4, past <- s5, left <- s6,
       p <- s7, decided <- s8

----------------------------------------------------------------------------
Unused == "unused"
From10 == s10 = Unused
From9 == s9 = Unused /\ From10
From8 == s8 = Unused /\ From9
From1 == s1 = Unused /\ s2 = Unused /\ s3 = Unused /\ s4 = Unused /\ s5 = Unused /\ s6 = Unused /\ s7 = Unused /\ From8

Extended == {"secrets", "seed", "users", "acls", "sessions", "gate", "subnets"}

ServicesInit ==
    /\ part \in Parts
    /\ Init /\ (part = "secrets" \/ ~master)
    /\ SeedInit /\ AclInit /\ SessionsInit /\ GateInit /\ PoolInit
    /\ UsersInit /\ (part = "users" \/ ~claimed)
    /\ (part = "acls" \/ ~readsCached) /\ (part = "sessions" \/ ~viaCache)
    /\ \/ part \in Extended /\ From1
       \/ part = "entities" /\ E!Init
       \/ part = "templates" /\ T!Init /\ From8
       \/ part = "grants" /\ G!Init /\ From9
       \/ part = "checks" /\ C!Init /\ From9

\* A step of an instance: the others have none, and nor has a module extended.
Shared(next, rest) == next /\ UNCHANGED <<rest, dataVars, accessVars, limitVars>>

ServicesNext == UNCHANGED part /\
    \/ part = "secrets" /\ Next /\ UNCHANGED <<shared, seedVars, userVars, accessVars, limitVars>>
    \/ part = "seed" /\ SeedNext /\ UNCHANGED <<shared, vars, userVars, accessVars, limitVars>>
    \/ part = "users" /\ UsersNext /\ UNCHANGED <<shared, vars, seedVars, accessVars, limitVars>>
    \/ part = "acls" /\ AclNext /\ UNCHANGED <<shared, dataVars, sessionVars, limitVars>>
    \/ part = "sessions" /\ SessionsNext /\ UNCHANGED <<shared, dataVars, aclVars, limitVars>>
    \/ part = "gate" /\ GateNext /\ UNCHANGED <<shared, dataVars, accessVars, poolVars>>
    \/ part = "subnets" /\ PoolNext /\ UNCHANGED <<shared, dataVars, accessVars, gateVars>>
    \/ part = "entities" /\ Shared(E!Next, <<>>)
    \/ part = "templates" /\ Shared(T!Next, <<s8, s9, s10>>)
    \/ part = "grants" /\ Shared(G!Next, <<s9, s10>>)
    \/ part = "checks" /\ Shared(C!Next, <<s9, s10>>)

ServicesSpec == ServicesInit /\ [][ServicesNext]_servicesVars

----------------------------------------------------------------------------
\* What is kept beside a record agrees with it, however calls interleave: the
\* listings of the entities and who may write them, the list of elevated users, the
\* rights a decision takes from a cache, which are never older than their TTL, and
\* the blocks that a supernet is cut into.
DerivedAgree ==
    /\ part = "entities" => E!ListingAgrees /\ E!WrittenByRole
    /\ part = "grants" => G!ElevationListed
    /\ part = "checks" => C!RightsFresh
    /\ part = "subnets" => CidrSound

\* No read-modify-write loses another one or brings back what was deleted:
\* entities and their indexes, templates that were masked, the answer of an
\* invitation.
NothingOverwritten ==
    [][/\ part = "entities" => E!OverwritesNothing
       /\ part = "templates" => T!GoneStays
       /\ part = "grants" => G!AnswerFinal]_servicesVars
=============================================================================
