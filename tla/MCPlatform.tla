---------------------------- MODULE MCPlatform ----------------------------
(* What the services stand on, for TLC: adapters, providers, the audit trail, *)
(* requests on their way, pure algorithms.  They share no record in what is   *)
(* modelled, so a behaviour is of one of them: part names it, and y1, y2, ... *)
(* are its variables, those it has no use for keeping one value.  The ring,   *)
(* the file store and the timer are extended: what is checked of them here is *)
(* what PlatformProofs proves.                                                *)
EXTENDS RingQueue, FileStore, AlarmTimer, TLC

CONSTANT Parts     \* the parts this run takes

VARIABLES part, y1, y2, y3, y4, y5, y6, y7, y8, y9, y10, y11, y12, y13

Two == {"a", "b"}
shared == <<y1, y2, y3, y4, y5, y6, y7, y8, y9, y10, y11, y12, y13>>
platformVars == <<part, vars, shared, fileVars, timerVars>>

----------------------------------------------------------------------------
(* Stores and pure algorithms                                                 *)

\* A counter, a move from one key to the other, and a write that depends on a key
\* it does not write.
CounterMoveCopy == {[reads |-> <<"x">>, writes |-> {"x"}],
                    [reads |-> <<"x", "y">>, writes |-> {"x", "y"}],
                    [reads |-> <<"x">>, writes |-> {"y"}]}

Walks == INSTANCE GraphWalks WITH
    Nodes <- {"l", "m", "n"}, Root <- "l",
    walk <- y1, refs <- y2, present <- y3, path <- y4, visited <- y5, frames <- y6,
    degree <- y7, pending <- y8, order <- y9, edges <- y10, errors <- y11, result <- y12

\* x and y share a bucket of four, z does not.
Structures == INSTANCE Collections WITH
    MaxNodes <- 4, Keys <- {"x", "y", "z"}, Values <- {1, 2},
    Hash <- [x |-> 0, y |-> 4, z |-> 5], Initial <- 1, Load <- 1, Per <- 4,
    Kinds <- {"list", "table", "tree", "binary"}, MaxCalls <- 6,
    kind <- y1, list <- y2, table <- y3, tree <- y4, made <- y5, held <- y6

\* Of three tasks the last fits one resource only.
Lists == INSTANCE ListScheduler WITH
    Tasks <- {"l", "m", "n"}, Resources <- {"r", "s"}, Unknown <- "unknown",
    Duration <- [l |-> 1, m |-> 2, n |-> 1], Need <- [l |-> 1, m |-> 2, n |-> 3],
    Priority <- [l |-> 2, m |-> 1, n |-> 1], Capacity <- [r |-> 2, s |-> 3],
    dependsOn <- y1, strategy <- y2, allocator <- y3, clock <- y4, entries <- y5,
    completed <- y6, available <- y7, availableAt <- y8, ready <- y9, phase <- y10,
    assignedAny <- y11

----------------------------------------------------------------------------
(* Requests and providers                                                     *)

Groups == INSTANCE Providers WITH
    Callers <- Two, Resources <- {"r", "s"}, Kinds <- {"podman", "pod", "eci", "stub"},
    Calls <- 4,
    kind <- y1, group <- y2, fate <- y3, secrets <- y4, left <- y5, p <- y6

\* One caller of every kind while an instance or a credential changes, and two that
\* race for the first use of the registry: calls share nothing but the resolver.
Kinds == {"container", "image", "group", "network", "s3", "raw"}
Caps == [i |-> {"container", "image", "s3"}, j |-> {"container", "group", "network", "s3"}]
Platforms == [i |-> "alibaba", j |-> "podman"]

Places == INSTANCE Placement WITH
    Clients <- {"a"}, None <- Undefined, Instances <- {"i", "j"}, Creds <- {"k", "l"}, Names <- {"n"},
    Platform <- Platforms, Caps <- Caps, Encrypted <- TRUE, EnvKeys <- TRUE, Kinds <- Kinds,
    Asks <- [a |-> Kinds], Keyless <- {"l"}, MaxChanges <- 1,
    inst <- y1, ids <- y2, cred <- y3, credIds <- y4, loading <- y5, resolvers <- y6,
    call <- y7, changes <- y8

Firsts == INSTANCE Placement WITH
    Clients <- Two, None <- Undefined, Instances <- {"i", "j"}, Creds <- {"k", "l"}, Names <- {"n"},
    Platform <- Platforms, Caps <- Caps, Encrypted <- TRUE, EnvKeys <- TRUE, Kinds <- Kinds,
    Asks <- [a |-> {"container", "raw"}, b |-> {"network"}], Keyless <- {"l"}, MaxChanges <- 0,
    inst <- y1, ids <- y2, cred <- y3, credIds <- y4, loading <- y5, resolvers <- y6,
    call <- y7, changes <- y8

\* Templates that state nothing, the same or another of everything that is numbered.
Port(n) == [Port |-> n, Protocol |-> "tcp"]
MountOf(v) == [Name |-> v, MountPath |-> "/mnt"]
Ctr(n, opt) == [name |-> n, image |-> "img", opt |-> opt]
Limits(cpu, memory, gpu) == [cpu |-> cpu, memory |-> memory, gpu |-> gpu]
VolumeOf(i, t, options) == [id |-> i, type |-> t, options |-> options]
File(path, data) == [MountPath |-> path, Payload |-> data]
Ref(s, keys) == [secret |-> s, mountPath |-> "/secrets", keys |-> keys]
TemplateOf(n, cs, opt) == [name |-> n, restartPolicy |-> "Always", containers |-> cs, opt |-> opt]

Plain == TemplateOf("My App", <<Ctr("a", [resources |-> Limits(0, 0, 0)])>>, <<>>)
Full == TemplateOf("app",
    <<Ctr("b", [ports |-> <<Port("p81"), Port("p80")>>, volumeMounts |-> <<MountOf("w"), MountOf("v")>>,
                StartupProbe |-> [TcpSocket |-> "p81"], Tty |-> "true",
                lifecycle |-> [LifecyclePreStopHandler |-> [Exec |-> "stop"]]]),
      Ctr("a", [resources |-> Limits(4, 2, 1), Command |-> "run"])>>,
    [volumes |-> <<VolumeOf("v", "EmptyDirVolume", {"sizeLimit"}), VolumeOf("w", "NFSVolume", {"bucket", "path"}),
                   VolumeOf("c", "ConfigMapVolume", {"items", "diskId"})>>,
     secretMounts |-> <<File("/s", "d1"), File("/t", "d2")>>,
     secretRefs |-> <<Ref("x", <<"k">>), Ref("y", <<>>)>>, priority |-> "7",
     providerOverrides |-> [spotStrategy |-> "None", vSwitchId |-> <<"vs1">>]])
Near(secrets) == TemplateOf("base",
    <<Ctr("a", [env |-> <<[Key |-> "E", Value |-> "1"], [Key |-> "E", Value |-> "2"], [Key |-> "N", FieldRefFieldPath |-> "ip"]>>,
                ports |-> <<Port("p80")>>, volumeMounts |-> <<MountOf("v")>>,
                LivenessProbe |-> [HttpGet |-> "/", PeriodSeconds |-> "5"]])>>,
    [labels |-> <<[Key |-> "l", Value |-> "1"]>>, volumes |-> <<VolumeOf("v", "NFSVolume", {"server"})>>,
     initContainers |-> <<Ctr("i", [env |-> <<>>])>>, secretMounts |-> <<File("/s", "d0")>>,
     secretRefs |-> <<Ref("x", <<>>)>>, resolvedSecrets |-> secrets,
     dnsConfig |-> [nameservers |-> <<"ns">>, options |-> <<[Name |-> "ndots"]>>],
     TerminationGracePeriodSeconds |-> "30",
     providerOverrides |-> [alibaba |-> [subnetIds |-> <<"vs0", "vs2">>, autoCreateEip |-> "true"]]])
Far == TemplateOf("root", <<Ctr("c", <<>>), Ctr("b", [ports |-> <<Port("p80")>>])>>,
    [labels |-> <<[Key |-> "l", Value |-> "2"], [Key |-> "managed-by", Value |-> "me"]>>,
     initContainers |-> <<Ctr("j", <<>>)>>, secretMounts |-> <<File("/u", "d3")>>,
     resolvedSecrets |-> [y |-> [eci |-> "native-y"]],
     hostAliases |-> <<[ip |-> "ip1", hostnames |-> <<"h1", "h2">>]>>])
Known == {[x |-> [eci |-> "native-x", value |-> "vx"], y |-> [value |-> "vy"]], [x |-> [value |-> "vx"]], <<>>}

Specs == INSTANCE PodRequests WITH
    Chains <- {<<t>> : t \in {Plain, Full, Far}} \cup {<<t, Near(k)>> : t \in {Plain, Full}, k \in Known}
                \cup {<<t, Near(k), Far>> : t \in {Plain, Full}, k \in Known},
    Sanitized <- ("My App" :> "my-app") @@ [n \in {"app", "base", "root"} |-> n],
    route <- y1, templates <- y2, merged <- y3, spec <- y4, request <- y5, runtime <- y6

Pulls == INSTANCE ImagePull WITH
    Tasks <- {"t"}, Handlers <- {"h", "k"}, MaxRetries <- 1, MaxVersion <- 3,
    task <- y1, listed <- y2, posting <- y3, events <- y4, messages <- y5, handler <- y6,
    image <- y7

----------------------------------------------------------------------------
(* What is written, read and watched                                          *)

Trail == INSTANCE AuditTrail WITH
    Isolates <- {"v"}, Facilities <- {"pod"}, Immutable <- {}, Levels <- {3},
    Puts <- {[enabled |-> FALSE, level |-> 3], [enabled |-> TRUE, level |-> 6]},
    MaxInMemory <- 1, MaxIndexed <- 2, BatchSize <- 2, MaxWrites <- 3,
    backend <- y1, policy <- y2, written <- y3, memory <- y4, storing <- y5, stored <- y6,
    index <- y7, buffer <- y8, putting <- y9, bucket <- y10, gone <- y11, lost <- y12,
    reader <- y13

Readers == INSTANCE AuditReaders WITH
    MaxInMemory <- 3, Limit <- 2, MinEntries <- 1, MaxBytes <- 2, Sizes <- {1},
    MaxPolls <- 2, MaxEntries <- 4,
    log <- y1, n <- y2, aged <- y3, pages <- y4, tail <- y5, prune <- y6

Notices == INSTANCE Notifications WITH
    Clients <- Two, Bridged <- {"pod.status", "workflow:completed"}, Allowed <- {"pod.status"},
    Channels <- {"pod.*", "*"},
    Covers <- ("pod.*" :> {"pod.status"} @@ "*" :> {"pod.status", "workflow:completed"}),
    MaxEvents <- 2, MaxFailures <- 1,
    sessions <- y1, filters <- y2, broken <- y3, emitted <- y4, forwards <- y5, failed <- y6,
    inbox <- y7, joined <- y8

Logs == INSTANCE LogStream WITH
    Clients <- Two, MaxStreams <- 2, MaxLines <- 2, MaxRestarts <- 1,
    container <- y1, restarts <- y2, lines <- y3, sessions <- y4, since <- y5, inbox <- y6,
    controller <- y7, streams <- y8, sent <- y9, alarm <- y10

----------------------------------------------------------------------------
Unused == "unused"
From13 == y13 = Unused
From12 == y12 = Unused /\ From13
From11 == y11 = Unused /\ From12
From9 == y9 = Unused /\ y10 = Unused /\ From11
From8 == y8 = Unused /\ From9
From7 == y7 = Unused /\ From8
From6 == y6 = Unused /\ From7
From1 == y1 = Unused /\ y2 = Unused /\ y3 = Unused /\ y4 = Unused /\ y5 = Unused /\ From6

PlatformInit ==
    /\ part \in Parts
    /\ Init /\ (part = "ring" \/ (capacity = 1 /\ fixed)) /\ FileInit /\ TimerInit
    /\ \/ part \in {"ring", "files", "timer"} /\ From1
       \/ part = "walks" /\ Walks!Init /\ From13
       \/ part = "collections" /\ Structures!Init /\ From7
       \/ part = "list" /\ Lists!Init /\ From12
       \/ part = "providers" /\ Groups!Init /\ From7
       \/ part = "placement" /\ Places!Init /\ From9
       \/ part = "firsts" /\ Firsts!Init /\ From9
       \/ part = "requests" /\ Specs!Init /\ From7
       \/ part = "pulls" /\ Pulls!Init /\ From8
       \/ part = "trail" /\ Trail!Init
       \/ part = "readers" /\ Readers!Init /\ From7
       \/ part = "notices" /\ Notices!Init /\ From9
       \/ part = "logs" /\ Logs!Init /\ From11

\* A step of a part that has the first of the shared variables.
Shared(next, rest) == next /\ UNCHANGED <<part, vars, fileVars, timerVars, rest>>

PlatformNext ==
    \/ part = "ring" /\ Next /\ UNCHANGED <<part, shared, fileVars, timerVars>>
    \/ part = "files" /\ FileNext /\ UNCHANGED <<part, shared, vars, timerVars>>
    \/ part = "timer" /\ TimerNext /\ UNCHANGED <<part, shared, vars, fileVars>>
    \/ part = "walks" /\ Shared(Walks!Next, y13)
    \/ part = "collections" /\ Shared(Structures!Next, <<y7, y8, y9, y10, y11, y12, y13>>)
    \/ part = "list" /\ Shared(Lists!Next, <<y12, y13>>)
    \/ part = "providers" /\ Shared(Groups!Next, <<y7, y8, y9, y10, y11, y12, y13>>)
    \/ part = "placement" /\ Shared(Places!Next, <<y9, y10, y11, y12, y13>>)
    \/ part = "firsts" /\ Shared(Firsts!Next, <<y9, y10, y11, y12, y13>>)
    \/ part = "requests" /\ Shared(Specs!Next, <<y7, y8, y9, y10, y11, y12, y13>>)
    \/ part = "pulls" /\ Shared(Pulls!Next, <<y8, y9, y10, y11, y12, y13>>)
    \/ part = "trail" /\ Shared(Trail!Next, <<>>)
    \/ part = "readers" /\ Shared(Readers!Next, <<y7, y8, y9, y10, y11, y12, y13>>)
    \/ part = "notices" /\ Shared(Notices!Next, <<y9, y10, y11, y12, y13>>)
    \/ part = "logs" /\ Shared(Logs!Next, <<y11, y12, y13>>)

PlatformSpec == PlatformInit /\ [][PlatformNext]_platformVars

----------------------------------------------------------------------------
\* The walks, sorts and schedules over graphs give what their definitions ask for,
\* and the collections hold what was put in.
AlgorithmsSound ==
    /\ part = "walks" => Walks!SortSound /\ Walks!BatchesSound /\ Walks!WalkSound
    /\ part = "collections" => Structures!CollectionsSound
    /\ part = "list" => Lists!ScheduleRespects /\ Lists!NoneForgotten

\* What is reported is so: a creation that was refused leaves nothing behind; a call
\* is served for the right instance with the right keys, by one resolver; what
\* templates and callers state is in the platform's request, once; batches of the
\* audit trail overlap without a copy, and who reads the one in memory misses nothing;
\* who watches gets what it subscribed to, in order.
TableConsistent == Groups!TableConsistent
ReportsSound ==
    /\ part = "providers" => Groups!RefusedLeavesNothing /\ TableConsistent
    /\ part = "placement" => Places!ResolvedRight
    /\ part = "firsts" => Firsts!OneResolver /\ Firsts!ResolvedRight
    /\ part = "requests" => Specs!RequestComplete /\ Specs!ReportedBack /\ Specs!PodComplete
    /\ part = "trail" => Trail!BatchedOnce
    /\ part = "readers" => Readers!ReadersSound
    /\ part = "notices" => Notices!NothingMissed
    /\ part = "logs" => Logs!LogStreamSound

\* An index entry and the outcome of a pull are not taken back by a step that knew of
\* an earlier state.
NothingUndone ==
    [][/\ part = "trail" => Trail!TrailKept
       /\ part = "pulls" => Pulls!ResultsOutlive]_platformVars
=============================================================================
