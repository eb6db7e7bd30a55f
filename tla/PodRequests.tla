------------------------------ MODULE PodRequests ------------------------------
(* A template's way to a provider: its spec merged with those of the          *)
(* templates it depends on, then written as a request. An ECI request is one  *)
(* flat map, every list under indices of its own; a Podman request is a body  *)
(* for the pod and one for each container. Routes: the group that provision() *)
(* asks ECI for (buildCreateParams), its partial update, a whole pod at ECI   *)
(* (buildPodCreateParams) and at Podman (PodmanPodCodec.encode).              *)
EXTENDS Naturals, Sequences, SequencesExt, FiniteSets, TLC

CONSTANTS Chains,            \* a template's spec and those it depends on, nearest first
          Sanitized          \* what sanitizeContainerName makes of each name

VARIABLES route, templates, merged, spec, request, runtime
vars == <<route, templates, merged, spec, request, runtime>>

\* A spec holds what it must and, in opt, the optional fields it states. Fields
\* that are written as they are carry the name of their parameter.
Stated(x, field, default) == IF field \in DOMAIN x.opt THEN x.opt[field] ELSE default
ListOf(x, field) == Stated(x, field, <<>>)

----------------------------------------------------------------------------
(* merge.ts                                                                   *)

mergeContainerSpec(p, c) == [name |-> c.name, image |-> c.image, opt |-> c.opt @@ p.opt]
Replace(p, c) == c
\* A Map: a known key keeps its place, a new one goes last.
ByIdentity(p, c, Key(_), Join(_, _)) ==
    LET Put(J(_, _), list, x) ==
          IF \E i \in DOMAIN list : Key(list[i]) = Key(x)
          THEN [i \in DOMAIN list |-> IF Key(list[i]) = Key(x) THEN J(list[i], x) ELSE list[i]]
          ELSE Append(list, x)
    IN  FoldLeft(LAMBDA l, x : Put(Join, l, x), FoldLeft(LAMBDA l, x : Put(Replace, l, x), <<>>, p), c)
mergeContainersByIdentity(p, c) == ByIdentity(p, c, LAMBDA x : x.name, mergeContainerSpec)
mergeVolumesById(p, c) == ByIdentity(p, c, LAMBDA x : x.id, Replace)
mergeSecretMountsByIdentity(p, c) == ByIdentity(p, c, LAMBDA x : x.MountPath, Replace)

\* What the child states wins over what it would inherit, but for lists with
\* identities and for the maps of secrets and overrides, which are joined.
mergePodSpec(p, c) ==
    LET inherited == c.opt @@ p.opt
        Joined(field, default, Join(_, _)) ==
          IF field \in DOMAIN c.opt
          THEN field :> Join(Stated(p, field, default), c.opt[field]) ELSE <<>>
    IN  [name |-> c.name, restartPolicy |-> c.restartPolicy,
         containers |-> mergeContainersByIdentity(p.containers, c.containers),
         opt |-> Joined("initContainers", <<>>, mergeContainersByIdentity)
                   @@ Joined("volumes", <<>>, mergeVolumesById)
                   @@ Joined("secretMounts", <<>>, mergeSecretMountsByIdentity)
                   @@ Joined("resolvedSecrets", <<>>, LAMBDA x, y : y @@ x)
                   @@ Joined("providerOverrides", <<>>, LAMBDA x, y : y @@ x)
                   @@ inherited]

----------------------------------------------------------------------------
(* The parts of an ECI request. The path of a parameter is a sequence of      *)
(* names and indices; of two writes to a path the later one stays.            *)

At(pfx, fields) == [q \in {Append(pfx, f) : f \in DOMAIN fields} |-> fields[Last(q)]]
Each(list, Of(_, _)) == FoldLeft(LAMBDA done, i : Of(i, list[i]) @@ done, <<>>, [i \in DOMAIN list |-> i])
Items(pfx, list) == Each(list, LAMBDA i, item : At(Append(pfx, i), item))
Only(fs, fields) == [f \in DOMAIN fs \cap fields |-> fs[f]]
Total(list, Of(_)) == FoldLeft(LAMBDA n, x : n + Of(x), 0, list)
OrElse(n, default) == IF n = 0 THEN default ELSE n

\* Cpu in quarters, memory in units of 512 MiB, with the unit of the parameter.
NoLimits == [cpu |-> 0, memory |-> 0, gpu |-> 0]
limitsOf(c) == Stated(c, "resources", NoLimits)
MiB(m) == <<m, "MiB">>
GiB(m) == <<m, "GiB">>

buildContainerCompound(pfx, c) ==
    IF "resources" \in DOMAIN c.opt
    THEN At(pfx, [Cpu |-> limitsOf(c).cpu, Memory |-> GiB(limitsOf(c).memory)]) ELSE <<>>
\* A variable has its value, or the field it refers to.
buildEnvParams(pfx, c) ==
    Items(Append(pfx, "EnvironmentVar"),
          [i \in DOMAIN ListOf(c, "env") |->
              LET e == c.opt["env"][i]
              IN  Only(e, IF "Value" \in DOMAIN e THEN {"Key", "Value"} ELSE {"Key", "FieldRefFieldPath"})])
buildPortParams(pfx, c) == Items(Append(pfx, "Port"), ListOf(c, "ports"))
\* The fields of a probe or of a hook; HttpGet stands for its path, port and scheme.
buildProbeParams(pfx, c, type) == At(Append(pfx, type), ListOf(c, type))
buildLifecycleParams(pfx, c) ==
    LET hooks == ListOf(c, "lifecycle")
        Hook(h) == IF h \in DOMAIN hooks THEN At(Append(pfx, h), hooks[h]) ELSE <<>>
    IN  Hook("LifecyclePostStartHandler") @@ Hook("LifecyclePreStopHandler")
volumeMounts(pfx, c) == Items(Append(pfx, "VolumeMount"), ListOf(c, "volumeMounts"))
CONTAINER_SCALARS(pfx, c) ==
    At(pfx, [Name |-> c.name, Image |-> c.image])
      @@ At(pfx, Only(c.opt, {"ImagePullPolicy", "NetworkMode", "Tty", "Stdin"}))
StartedWith(pfx, c) == At(pfx, Only(c.opt, {"Command", "Args"}))

containerParams(i, c) ==
    LET pfx == <<"Container", i>>
    IN  CONTAINER_SCALARS(pfx, c) @@ StartedWith(pfx, c) @@ buildContainerCompound(pfx, c)
          @@ buildEnvParams(pfx, c) @@ buildPortParams(pfx, c)
          @@ buildProbeParams(pfx, c, "LivenessProbe") @@ buildProbeParams(pfx, c, "ReadinessProbe")
          @@ buildProbeParams(pfx, c, "StartupProbe") @@ buildLifecycleParams(pfx, c)
          @@ volumeMounts(pfx, c)
\* An init container keeps neither ports, mounts, hooks nor the other probes.
initContainerParams(i, c) ==
    LET pfx == <<"InitContainer", i>>
    IN  At(pfx, [Name |-> c.name, Image |-> c.image]) @@ StartedWith(pfx, c)
          @@ buildContainerCompound(pfx, c) @@ buildEnvParams(pfx, c)
          @@ buildProbeParams(pfx, c, "LivenessProbe")

\* A volume's options ask for blocks, and a block brings its options and those
\* that have a default. Values do not matter, but for the type.
Asked(v) == {b \in {"NFSVolume", "OSSVolume", "DiskVolume", "ConfigMapVolume", "SecretVolume"} :
               CASE b = "NFSVolume" -> "server" \in v.options
                 [] b = "OSSVolume" -> "bucket" \in v.options
                 [] b = "DiskVolume" -> "diskId" \in v.options
                 [] b = "ConfigMapVolume" -> v.type = b \/ "configMapName" \in v.options
                 [] b = "SecretVolume" -> v.type = b \/ "secretName" \in v.options}
Options == [NFSVolume |-> {"server", "path", "readOnly"}, OSSVolume |-> {"bucket", "path", "readOnly", "endpoint"},
            DiskVolume |-> {"diskId", "fsType", "sizeGiB", "diskCategory", "readOnly", "deleteWithInstance"},
            ConfigMapVolume |-> {"items"}, SecretVolume |-> {"items"}]
Always == [NFSVolume |-> {"path"}, OSSVolume |-> {}, DiskVolume |-> {"fsType"},
           ConfigMapVolume |-> {"name"}, SecretVolume |-> {"name"}]
Written(fields) == [f \in fields |-> "set"]
buildVolumeCompound(pfx, v) ==
    IF v.type = "EmptyDirVolume" \/ "sizeLimit" \in v.options
    THEN At(pfx, [Type |-> "EmptyDirVolume"])
           @@ At(Append(pfx, "EmptyDirVolume"), Written(v.options \cap {"medium", "sizeLimit"}))
    ELSE (IF "OSSVolume" \in Asked(v) THEN At(pfx, [Type |-> "OSSVolume"]) ELSE <<>>)
           @@ FoldSet(LAMBDA b, done : At(Append(pfx, b), Written((Options[b] \cap v.options) \cup Always[b])) @@ done,
                      <<>>, Asked(v))
volumeParams(i, v) ==
    buildVolumeCompound(<<"Volume", i>>, v) @@ At(<<"Volume", i>>, [Name |-> v.id, Type |-> v.type])

ConfigFiles(base, mounts) ==
    Each(mounts, LAMBDA i, m : At(<<"ConfigFileVolume", base + i>>,
                                  [MountPath |-> m.MountPath, Payload |-> m.Payload, FilePermission |-> "set"]))

\* A secret the platform knows becomes a volume behind the volumes, at the place
\* of the reference; one whose value is known becomes a file behind the secret
\* mounts; the others are skipped.
Resolved(s, ref, field) == ref.secret \in DOMAIN ListOf(s, "resolvedSecrets")
                             /\ field \in DOMAIN s.opt["resolvedSecrets"][ref.secret]
volumeBase(s) == Len(ListOf(s, "volumes"))
noBase(s) == 0                           \* mutant: the files are numbered from 0 again
existingMountCount(s) == Len(ListOf(s, "secretMounts"))
nativeSecret(s, i, ref) ==
    LET pfx == <<"Volume", volumeBase(s) + i>>
    IN  IF Resolved(s, ref, "eci")
        THEN At(pfx, [Name |-> "secret-" \o ref.secret, Type |-> "SecretVolume"])
               @@ At(Append(pfx, "SecretVolume"), [SecretName |-> s.opt["resolvedSecrets"][ref.secret].eci])
               @@ Items(pfx \o <<"SecretVolume", "Items">>,
                        [j \in DOMAIN ref.keys |-> [Key |-> ref.keys[j], Path |-> ref.keys[j]]])
        ELSE <<>>
inlineMounts(s) ==
    LET refs == SelectSeq(ListOf(s, "secretRefs"),
                          LAMBDA r : ~Resolved(s, r, "eci") /\ Resolved(s, r, "value"))
    IN  [i \in DOMAIN refs |-> [MountPath |-> refs[i].mountPath,
                                Payload |-> s.opt["resolvedSecrets"][refs[i].secret].value]]
encodeSecretRefs(s) ==
    ConfigFiles(existingMountCount(s), inlineMounts(s))
      @@ Each(ListOf(s, "secretRefs"), LAMBDA i, ref : nativeSecret(s, i, ref))
volumesAndSecrets(s) ==
    encodeSecretRefs(s) @@ ConfigFiles(0, ListOf(s, "secretMounts"))
      @@ Each(ListOf(s, "volumes"), volumeParams)

buildTagParams(s) == Items(<<"Tag">>, ListOf(s, "labels"))

\* The overrides for the provider: under its name, or flat.
overrides(s) == ListOf(s, "providerOverrides")
aliOverride(s) == IF "alibaba" \in DOMAIN overrides(s) THEN overrides(s)["alibaba"] ELSE <<>>
Of(over, key, default) == IF key \in DOMAIN over THEN over[key] ELSE default

\* Only registered keys pass, under the parameter their schema names, and "None"
\* means that a field is not set.
schema == [vSwitchId |-> "VSwitchId", securityGroupId |-> "SecurityGroupId", scheduleStrategy |-> "ScheduleStrategy",
           spotStrategy |-> "SpotStrategy", spotPriceLimit |-> "SpotPriceLimit", autoCreateEip |-> "AutoCreateEip",
           autoMatchImageCache |-> "AutoMatchImageCache", ramRoleName |-> "RamRoleName", hostName |-> "HostName",
           resourceGroupId |-> "ResourceGroupId", activeDeadlineSeconds |-> "ActiveDeadlineSeconds"]
Renamed(table, fs) == [n \in {table[f] : f \in DOMAIN table \cap DOMAIN fs} |->
                         fs[CHOOSE f \in DOMAIN table : table[f] = n]]
applyExtensionOverrides(over) ==
    At(<<>>, Renamed(schema, Only(over, {k \in DOMAIN over \cap DOMAIN schema : over[k] # "None"})))
extensions(s) == applyExtensionOverrides(IF "alibaba" \in DOMAIN overrides(s) THEN aliOverride(s) ELSE overrides(s))

----------------------------------------------------------------------------
(* The two ECI encoders                                                       *)

\* provision() asks for a container group: the sums of the limits, the
\* containers, volumes, secrets, labels and overrides, and nothing else.
totalOf(s, limit, default) == OrElse(Total(s.containers, LAMBDA c : limitsOf(c)[limit]), default)
Scalars(s, partial) ==
    At(<<>>, [ContainerGroupName |-> Sanitized[s.name]])
      @@ (IF partial THEN <<>>
          ELSE At(<<>>, [RegionId |-> "set", Cpu |-> totalOf(s, "cpu", 4), Memory |-> MiB(totalOf(s, "memory", 1)),
                         RestartPolicy |-> s.restartPolicy]))
\* The vSwitches take the place of a zone, which provision() does not name.
groupNetwork(s) ==
    LET ali == aliOverride(s)
    IN  At(<<>>, [SecurityGroupId |-> Of(ali, "securityGroupId", "")])
          @@ (IF "vSwitchId" \in DOMAIN ali \/ Of(ali, "subnetIds", <<>>) # <<>>
              THEN At(<<>>, [VSwitchId |-> Of(ali, "vSwitchId", Of(ali, "subnetIds", <<>>)),
                             ScheduleStrategy |-> "VSwitchRandom"])
              ELSE <<>>)
buildCreateParams(s, partial) ==
    extensions(s) @@ buildTagParams(s)
      @@ (IF partial THEN <<>> ELSE At(<<>>, [AutoMatchImageCache |-> "true"]) @@ groupNetwork(s))
      @@ volumesAndSecrets(s) @@ Each(s.containers, containerParams) @@ Scalars(s, partial)

\* A container below ECI's minimum is marked, and not counted.
IgnoreEnv == [Key |-> "__ECI_RESOURCE_IGNORE__", Value |-> "1"]
minCpu == 1
minMemory == 1
WithEnv(c, e) == [c EXCEPT !.opt = ("env" :> Append(ListOf(c, "env"), e)) @@ @]
markIgnored(c) == IF limitsOf(c).cpu < minCpu \/ limitsOf(c).memory < minMemory THEN WithEnv(c, IgnoreEnv) ELSE c
isIgnored(c) == \E e \in Range(ListOf(c, "env")) : e.Key = IgnoreEnv.Key
toContainerCreateConfig(s, c) ==
    IF "priority" \in DOMAIN s.opt THEN WithEnv(c, [Key |-> "HBI_PRIORITY", Value |-> s.opt["priority"]]) ELSE c
configured(s) == [i \in DOMAIN s.containers |-> markIgnored(toContainerCreateConfig(s, s.containers[i]))]
activeTotal(s, limit) ==
    Total(SelectSeq(configured(s), LAMBDA c : ~isIgnored(c)), LAMBDA c : limitsOf(c)[limit])

podScalars(s) ==
    At(<<>>, [RegionId |-> "set", ContainerGroupName |-> Sanitized[s.name], RestartPolicy |-> s.restartPolicy,
              Cpu |-> OrElse(activeTotal(s, "cpu"), 4), Memory |-> GiB(OrElse(activeTotal(s, "memory"), 1))])
      @@ (IF activeTotal(s, "gpu") > 0 THEN At(<<>>, [GpuSpecs |-> activeTotal(s, "gpu")]) ELSE <<>>)
dnsParams(s) ==
    LET dns == ListOf(s, "dnsConfig")
    IN  At(<<"DnsConfig", "NameServer">>, Of(dns, "nameservers", <<>>))
          @@ At(<<"DnsConfig", "Search">>, Of(dns, "searches", <<>>))
          @@ Items(<<"DnsConfig", "Option">>, Of(dns, "options", <<>>))
hostParams(s) ==
    Each(ListOf(s, "hostAliases"), LAMBDA i, ha : At(<<"HostAliase", i>>, [Ip |-> ha.ip])
                                                    @@ At(<<"HostAliase", i, "Hostname">>, ha.hostnames))
\* The list of subnets wins here; in groupNetwork the vSwitchId does.
podNetwork(s) ==
    LET ali == aliOverride(s)
    IN  (IF Of(ali, "subnetIds", <<>>) = <<>> THEN <<>>
         ELSE At(<<>>, [VSwitchId |-> ali["subnetIds"], ScheduleStrategy |-> "VSwitchRandom"]))
          @@ At(<<>>, [AutoMatchImageCache |-> "true", SecurityGroupId |-> Of(ali, "securityGroupId", ""),
                       AutoCreateEip |-> Of(ali, "autoCreateEip", "false")])
          @@ At(<<>>, Renamed(schema, Only(ali, {"vSwitchId", "spotStrategy", "spotPriceLimit", "ramRoleName",
                                                 "resourceGroupId", "activeDeadlineSeconds"})))
buildPodCreateParams(s) ==
    extensions(s) @@ podNetwork(s)
      @@ At(<<>>, Only(s.opt, {"TerminationGracePeriodSeconds"})) @@ hostParams(s) @@ dnsParams(s) @@ buildTagParams(s)
      @@ volumesAndSecrets(s) @@ Each(ListOf(s, "initContainers"), initContainerParams)
      @@ Each(configured(s), containerParams) @@ podScalars(s)

----------------------------------------------------------------------------
(* The Podman encoder. Volumes, secrets and the GPU stay behind.              *)

collectPortMappings(s) == FlattenSeq([i \in DOMAIN s.containers |-> ListOf(s.containers[i], "ports")])
managedBy == "managed-by" :> "hbi-aad"
\* An object: a label of the spec replaces the one of the system.
podLabels(s) ==
    LET labels == ListOf(s, "labels")
    IN  (IF "priority" \in DOMAIN s.opt THEN "hbi-priority" :> s.opt["priority"] ELSE <<>>)
          @@ [k \in {l.Key : l \in Range(labels)} |-> (CHOOSE l \in Range(labels) : l.Key = k).Value] @@ managedBy
addHosts(s) ==
    FlattenSeq([i \in DOMAIN ListOf(s, "hostAliases") |->
                   LET ha == s.opt["hostAliases"][i] IN [j \in DOMAIN ha.hostnames |-> <<ha.hostnames[j], ha.ip>>]])
podBody(s) ==
    LET dns == ListOf(s, "dnsConfig")
        Positive(n, name, v) == IF n > 0 THEN At(<<"pod">>, name :> v) ELSE <<>>
    IN  At(<<"pod">>, [name |-> s.name, infra |-> "true"]) @@ At(<<"pod", "labels">>, podLabels(s))
          @@ Items(<<"pod", "publish">>, collectPortMappings(s))
          @@ At(<<"pod", "dnsServers">>, Of(dns, "nameservers", <<>>))
          @@ At(<<"pod", "dnsSearches">>, Of(dns, "searches", <<>>))
          @@ Items(<<"pod", "dnsOptions">>, Of(dns, "options", <<>>))
          @@ At(<<"pod", "addHosts">>, addHosts(s))
          @@ (IF "network" \in DOMAIN overrides(s)
              THEN At(<<"pod", "networks">>, <<overrides(s)["network"]>>) ELSE <<>>)
          @@ Positive(totalOf(s, "cpu", 0), "cpus", totalOf(s, "cpu", 0))
          @@ Positive(totalOf(s, "memory", 0), "memory", MiB(totalOf(s, "memory", 0)))
          @@ At(<<"pod">>, Only(s.opt, {"TerminationGracePeriodSeconds"}))

\* One health check a container: exec before httpGet before tcpSocket.
Timings == [InitialDelaySeconds |-> "StartPeriod", PeriodSeconds |-> "Interval", TimeoutSeconds |-> "Timeout",
            FailureThreshold |-> "Retries"]
buildPodmanHealthcheck(probe) ==
    LET Test(kind) == [Test |-> <<kind, probe[kind]>>] @@ Renamed(Timings, probe)
    IN  IF "Exec" \in DOMAIN probe THEN Test("Exec")
        ELSE IF "HttpGet" \in DOMAIN probe THEN Test("HttpGet")
        ELSE IF "TcpSocket" \in DOMAIN probe THEN Test("TcpSocket")
        ELSE <<>>
bodyScalars == [Command |-> "Entrypoint", Args |-> "Cmd", Tty |-> "TTY", Stdin |-> "Stdin"]
containerToCreateBody(part, i, c) ==
    LET pfx == <<part, i>>
        env == ListOf(c, "env")
        mounts == ListOf(c, "volumeMounts")
    IN  At(pfx, [Name |-> c.name, Image |-> c.image]) @@ At(pfx, Renamed(bodyScalars, c.opt))
          @@ Items(Append(pfx, "Env"), [j \in DOMAIN env |-> Only(env[j], {"Key", "Value"})])
          @@ At(Append(pfx, "Labels"), [service |-> c.name] @@ managedBy
                                         @@ (IF part = "initContainers" THEN [init |-> "true"] ELSE <<>>))
          @@ At(Append(pfx, "Healthcheck"), buildPodmanHealthcheck(ListOf(c, "LivenessProbe")))
          @@ Items(Append(pfx, "Mounts"), [j \in DOMAIN mounts |-> Only(mounts[j], {"Name", "MountPath", "ReadOnly"})])
encode(s) ==
    Each(ListOf(s, "initContainers"), LAMBDA i, c : containerToCreateBody("initContainers", i, c))
      @@ Each(s.containers, LAMBDA i, c : containerToCreateBody("containers", i, c))
      @@ podBody(s)

----------------------------------------------------------------------------
(* What ECI reports of a group, and what parseContainerGroup makes of it. The *)
(* description lists what the request has numbered, in order; what the        *)
(* platform adds of its own (states, times, events, addresses) is left out.   *)

Listed(pfx) == SetToSortSeq({q[Len(pfx) + 1] : q \in {q \in DOMAIN request : Len(q) > Len(pfx) + 1
                                                        /\ SubSeq(q, 1, Len(pfx)) = pfx}}, <)
Reported(q, default) == IF q \in DOMAIN request THEN request[q] ELSE default
\* Of two variables with one name the last stays; a referred field reads as empty.
parseEnv(pfx) ==
    FoldLeft(LAMBDA env, j : (request[pfx \o <<j, "Key">>] :> Reported(pfx \o <<j, "Value">>, "")) @@ env,
             <<>>, Listed(pfx))
parseTags == [j \in DOMAIN Listed(<<"Tag">>) |->
                 [Key |-> request[<<"Tag", j, "Key">>], Value |-> request[<<"Tag", j, "Value">>]]]
parseVolumes == [j \in DOMAIN Listed(<<"Volume">>) |->
                    LET v == Listed(<<"Volume">>)[j]
                    IN  [name |-> request[<<"Volume", v, "Name">>], type |-> request[<<"Volume", v, "Type">>]]]
parseContainerGroup ==
    [name |-> request[<<"ContainerGroupName">>],
     containers |-> [i \in DOMAIN Listed(<<"Container">>) |->
                       [name |-> request[<<"Container", i, "Name">>], image |-> request[<<"Container", i, "Image">>],
                        env |-> parseEnv(<<"Container", i, "EnvironmentVar">>),
                        cpu |-> Reported(<<"Container", i, "Cpu">>, 0),
                        memory |-> Reported(<<"Container", i, "Memory">>, 0)]],
     cpu |-> Reported(<<"Cpu">>, 0), memory |-> Reported(<<"Memory">>, 0),
     restartPolicy |-> Reported(<<"RestartPolicy">>, "Always"),
     network |-> [subnetId |-> Reported(<<"VSwitchId">>, <<>>), securityGroupId |-> Reported(<<"SecurityGroupId">>, "")],
     volumes |-> parseVolumes, tags |-> parseTags]

----------------------------------------------------------------------------

Init == /\ route \in {"group", "update", "pod", "podman"}
        /\ templates \in Chains
        \* An update is not merged, and its input has no references.
        /\ route = "update" => Len(templates) = 1 /\ "secretRefs" \notin DOMAIN templates[1].opt
        /\ merged = 1
        /\ spec = templates[1]
        /\ request = <<>> /\ runtime = <<>>

\* resolveTemplateWithChain: the nearest ancestor first, under what is merged already.
Merge == /\ request = <<>> /\ merged < Len(templates)
         /\ merged' = merged + 1
         /\ spec' = mergePodSpec(templates[merged + 1], spec)
         /\ UNCHANGED <<route, templates, request, runtime>>

Encode == /\ request = <<>> /\ merged = Len(templates)
          /\ request' = CASE route = "group" -> buildCreateParams(spec, FALSE)
                          [] route = "update" -> buildCreateParams(spec, TRUE)
                          [] route = "pod" -> buildPodCreateParams(spec)
                          [] route = "podman" -> encode(spec)
          /\ UNCHANGED <<route, templates, merged, spec, runtime>>

Describe == /\ request # <<>> /\ runtime = <<>> /\ route # "podman"
            /\ runtime' = parseContainerGroup
            /\ UNCHANGED <<route, templates, merged, spec, request>>

Next == Merge \/ Encode \/ Describe
Spec == Init /\ [][Next]_vars

----------------------------------------------------------------------------
(* Properties                                                                 *)

Named(section, field, v) == {q \in DOMAIN request : q[1] = section /\ Last(q) = field /\ Len(q) = 3 /\ request[q] = v}
Once(section, field, v) == Cardinality(Named(section, field, v)) = 1
\* What the nearest template that states it says of a field, or of a container's.
InForce(xs, field, default) ==
    LET stating == SelectSeq(xs, LAMBDA x : field \in DOMAIN x.opt)
    IN  IF stating = <<>> THEN default ELSE Head(stating).opt[field]
AllContainers == FlattenSeq([i \in DOMAIN templates |-> templates[i].containers])
Called(n) == SelectSeq(AllContainers, LAMBDA c : c.name = n)
AllOf(field) == FlattenSeq([i \in DOMAIN templates |-> ListOf(templates[i], field)])
Nearest(list, Is(_)) == Head(SelectSeq(list, Is))

\* Whatever a template of the chain states is in the finished request exactly
\* once, under an index of its own: every container with the mounts that are in
\* force for it, every volume, every secret, whether mounted from the nearest
\* data, from a value that was found or by the platform's reference. No section
\* takes an index another one uses ("avoids ConfigFileVolume index collision with
\* existing secretMounts").
RequestComplete ==
    request # <<>> /\ route # "podman" =>
      /\ \A c \in Range(AllContainers) : \E i \in DOMAIN spec.containers :
           /\ Named("Container", "Name", c.name) = {<<"Container", i, "Name">>}
           /\ LET mounts == InForce(Called(c.name), "volumeMounts", <<>>)
              IN  \A j \in DOMAIN mounts : request[<<"Container", i, "VolumeMount", j, "Name">>] = mounts[j].Name
      /\ \A v \in Range(AllOf("volumes")) : Once("Volume", "Name", v.id)
      /\ \A m \in Range(AllOf("secretMounts")) :
           LET nearest == Nearest(AllOf("secretMounts"), LAMBDA f : f.MountPath = m.MountPath)
           IN  Once("ConfigFileVolume", "Payload", nearest.Payload)
      /\ \A r \in Range(InForce(templates, "secretRefs", <<>>)) :
           LET known == SelectSeq(templates, LAMBDA t : r.secret \in DOMAIN ListOf(t, "resolvedSecrets"))
               secret == IF known = <<>> THEN <<>> ELSE Head(known).opt["resolvedSecrets"][r.secret]
           IN  IF "eci" \in DOMAIN secret THEN Once("Volume", "Name", "secret-" \o r.secret)
               ELSE "value" \in DOMAIN secret => Once("ConfigFileVolume", "Payload", secret.value)

\* What ECI reports of a group reads as what was asked for: each container of the
\* chain, with the image of the nearest template and the variables in force, and
\* the labels in force as tags ("round-trip", eci-codec.test.ts).
ReportedBack ==
    runtime # <<>> =>
      /\ runtime.name = Sanitized[templates[1].name]
      /\ runtime.tags = InForce(templates, "labels", <<>>)
      /\ Len(runtime.containers) = Cardinality({c.name : c \in Range(AllContainers)})
      /\ \A c \in Range(runtime.containers) :
           /\ c.image = Head(Called(c.name)).image
           /\ LET env == InForce(Called(c.name), "env", <<>>)
              IN  \A e \in Range(env) : c.env[e.Key] = Of(Nearest(Reverse(env), LAMBDA f : f.Key = e.Key), "Value", "")

\* A Podman request holds every container and init container of the chain once,
\* each with the mounts in force, and publishes a port as often as the containers
\* state it: the pod shares one network.
PodComplete ==
    request # <<>> /\ route = "podman" =>
      /\ \A c \in Range(AllContainers) : \E i \in DOMAIN spec.containers :
           /\ Named("containers", "Name", c.name) = {<<"containers", i, "Name">>}
           /\ LET mounts == InForce(Called(c.name), "volumeMounts", <<>>)
              IN  \A j \in DOMAIN mounts : request[<<"containers", i, "Mounts", j, "Name">>] = mounts[j].Name
      /\ \A c \in Range(AllOf("initContainers")) : Once("initContainers", "Name", c.name)
      /\ LET ports == FlattenSeq([i \in DOMAIN spec.containers |->
                                     InForce(Called(spec.containers[i].name), "ports", <<>>)])
             published == {q \in DOMAIN request : q[1] = "pod" /\ q[2] = "publish" /\ Last(q) = "Port"}
         IN  \A p \in Range(ports) :
               Cardinality({q \in published : request[q] = p.Port})
                 = Cardinality({i \in DOMAIN ports : ports[i].Port = p.Port})
=============================================================================
