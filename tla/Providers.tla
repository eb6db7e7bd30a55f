------------------------------ MODULE Providers ------------------------------
(* The container providers: single Podman containers, Podman pods, ECI groups *)
(* and the in-memory stub, with the lifecycle table of a container group.     *)
(* The platform behind each is external: it refuses, is unreachable, or does  *)
(* what it was asked although its answer is lost.                             *)
EXTENDS Naturals, Sequences

CONSTANTS Callers, Resources, Kinds,
          Calls                          \* bound: requests in all

VARIABLES kind,     \* which provider this is
          group,    \* the platform's word for the state of each resource
          fate,     \* what the caller of create() was told
          secrets,  \* Podman secrets that exist
          left, p

vars == <<kind, group, fate, secrets, left, p>>

Idle == [todo |-> <<>>, r |-> "none"]

----------------------------------------------------------------------------
(* container-lifecycle.ts                                                     *)

ECI_TRANSITIONS ==
    {<<"Scheduling", "ScheduleSucceeded", "Pending">>, <<"Scheduling", "ScheduleFailed", "ScheduleFailed">>,
     <<"Pending", "InitSucceeded", "Running">>, <<"Pending", "InitFailed", "Failed">>,
     <<"Running", "RestartContainerGroup", "Restarting">>, <<"Running", "UpdateContainerGroup", "Updating">>,
     <<"Running", "InstanceExpired", "Expired">>, <<"Restarting", "RestartSucceeded", "Pending">>,
     <<"Restarting", "RestartFailed", "Failed">>, <<"Updating", "UpdateSucceeded", "Running">>,
     <<"Updating", "UpdateFailed", "Running">>, <<"Terminating", "CleanupComplete", "Deleted">>}
       \cup ({"Running", "Restarting", "Updating", "Pending"} \X {"DeleteContainerGroup"} \X {"Terminating"})

PODMAN_TRANSITIONS ==
    {<<"Running", "StopContainerGroup", "Stopped">>, <<"Stopped", "StartContainerGroup", "Running">>,
     <<"Running", "PauseContainerGroup", "Paused">>, <<"Paused", "UnpauseContainerGroup", "Running">>,
     <<"Stopped", "DeleteContainerGroup", "Terminating">>, <<"Paused", "StopContainerGroup", "Stopped">>,
     <<"Paused", "DeleteContainerGroup", "Terminating">>}

ALL_TRANSITIONS == ECI_TRANSITIONS \cup PODMAN_TRANSITIONS

\* The first entry that matches; the input when none does.
transition(state, trigger) ==
    LET matching == {t \in ALL_TRANSITIONS : t[1] = state /\ t[2] = trigger}
    IN IF matching = {} THEN state ELSE (CHOOSE t \in matching : TRUE)[3]

evaluateRestartPolicy(state, ok, policy) ==
    CASE state # "Running" -> state
      [] state = "Running" /\ policy = "Always" -> "Restarting"
      [] state = "Running" /\ policy # "Always" /\ ok -> "Succeeded"
      [] state = "Running" /\ policy = "OnFailure" /\ ~ok -> "Restarting"
      [] OTHER -> "Failed"

TERMINAL_STATES == {"ScheduleFailed", "Succeeded", "Failed", "Expired", "Deleted"}

SystemEvents == {"ScheduleSucceeded", "ScheduleFailed", "InitSucceeded", "InitFailed", "InstanceExpired",
                 "RestartSucceeded", "RestartFailed", "UpdateSucceeded", "UpdateFailed", "CleanupComplete"}

ApiOperations == {"CreateContainerGroup", "DeleteContainerGroup", "RestartContainerGroup",
                  "UpdateContainerGroup", "StopContainerGroup", "StartContainerGroup",
                  "PauseContainerGroup", "UnpauseContainerGroup"}
API_PRECONDITIONS == [
    CreateContainerGroup |-> {},
    DeleteContainerGroup |-> {"Running", "Pending", "Restarting", "Updating", "Stopped", "Paused"},
    RestartContainerGroup |-> {"Running"}, UpdateContainerGroup |-> {"Running"},
    StopContainerGroup |-> {"Running", "Paused"}, StartContainerGroup |-> {"Stopped"},
    PauseContainerGroup |-> {"Running"}, UnpauseContainerGroup |-> {"Paused"}]
canApplyOperation(state, op) == op = "CreateContainerGroup" \/ state \in API_PRECONDITIONS[op]

\* The assertions on a pair of states, and on a sequence of such pairs.
checkNoResurrection(before, after) == before \in TERMINAL_STATES => before = after
checkRestartLegality(before, after) == after = "Restarting" => before = "Running"
checkUpdateLegality(before, after) == after = "Updating" => before = "Running"
verifyTransitionSequence(steps) == \A n \in DOMAIN steps :
    /\ checkNoResurrection(steps[n][1], steps[n][2])
    /\ checkRestartLegality(steps[n][1], steps[n][2])
    /\ checkUpdateLegality(steps[n][1], steps[n][2])

TRANSIENT_STATES == {"Scheduling", "Pending", "Restarting", "Updating", "Terminating"}

ECI_PROFILE == [
    reachableStates |-> TRANSIENT_STATES \cup TERMINAL_STATES \cup {"Running"},
    stopIsDelete |-> TRUE, startable |-> FALSE, asyncInit |-> TRUE,
    supportsRestart |-> TRUE, supportsUpdate |-> TRUE]
PODMAN_PROFILE == [
    reachableStates |-> {"Pending", "Running", "Stopped", "Paused", "Terminating", "Deleted"},
    stopIsDelete |-> FALSE, startable |-> TRUE, asyncInit |-> FALSE,
    supportsRestart |-> FALSE, supportsUpdate |-> FALSE]
STUB_PROFILE == [PODMAN_PROFILE EXCEPT !.reachableStates = {"Running", "Stopped", "Terminating", "Deleted"}]
profileForPlatform(platform) ==
    CASE platform = "alibaba" -> ECI_PROFILE [] platform = "podman" -> PODMAN_PROFILE [] OTHER -> STUB_PROFILE
validateProfile(pr) ==
    /\ pr.stopIsDelete => "Stopped" \notin pr.reachableStates
    /\ pr.startable => "Stopped" \in pr.reachableStates
    /\ pr.asyncInit => "Scheduling" \in pr.reachableStates
    /\ pr.supportsRestart => "Restarting" \in pr.reachableStates
    /\ pr.supportsUpdate => "Updating" \in pr.reachableStates
Platforms == {"alibaba", "podman", "stub"}

----------------------------------------------------------------------------
Init == /\ kind \in Kinds
        /\ group = [r \in Resources |-> "absent"]
        /\ fate = [r \in Resources |-> "unused"]
        /\ secrets = 0 /\ left = Calls
        /\ p = [c \in Callers |-> Idle]

At(c, step) == p[c].todo # <<>> /\ Head(p[c].todo) = step
Becomes(c, state) == group' = [group EXCEPT ![p[c].r] = state]
Next1(c) == p' = [p EXCEPT ![c].todo = Tail(@)]
Ends(c, how) == /\ fate' = [fate EXCEPT ![p[c].r] = how]
                /\ p' = [p EXCEPT ![c] = Idle]

----------------------------------------------------------------------------
(* create(), createPod()                                                      *)

CreateSteps ==
    CASE kind = "podman" -> {<<"create", "start">>, <<"secret", "create", "start">>}
      [] kind = "pod" -> {<<"create", "container", "start">>}
      [] OTHER -> {<<"create">>}

Create(c) ==
    /\ p[c].todo = <<>> /\ left > 0
    /\ \E r \in Resources, steps \in CreateSteps :
         /\ fate[r] = "unused"
         /\ fate' = [fate EXCEPT ![r] = "making"]
         /\ p' = [p EXCEPT ![c] = [todo |-> steps, r |-> r]]
    /\ left' = left - 1
    /\ UNCHANGED <<kind, group, secrets>>

\* The list of mounts the secret is added to was never made: the error is
\* swallowed there and thrown after the loop.
CreateSecret(c) ==
    /\ At(c, "secret")
    /\ secrets' \in {secrets, secrets + 1}
    /\ Ends(c, "lost")
    /\ UNCHANGED <<kind, group, left>>

FirstState == CASE kind = "eci" -> "Scheduling" [] kind = "stub" -> "running" [] OTHER -> "created"

CreateGroup(c) ==
    /\ At(c, "create")
    /\ \/ /\ Becomes(c, FirstState)
          /\ IF Len(p[c].todo) = 1 THEN Ends(c, "given") ELSE Next1(c) /\ UNCHANGED fate
       \/ /\ kind # "stub" /\ UNCHANGED group /\ Ends(c, "refused")
       \/ /\ kind # "stub" /\ Becomes(c, FirstState) /\ Ends(c, "lost")
    /\ UNCHANGED <<kind, secrets, left>>

\* Mutant: a pod whose start was refused is left behind.
WhenRefusedKept(c) == Ends(c, "refused")

\* The caller hears of the refusal; a pod is removed first.
WhenRefused(c) ==
    IF kind = "pod" THEN p' = [p EXCEPT ![c].todo = <<"forceDelete">>] /\ UNCHANGED fate
    ELSE Ends(c, "refused")

CreateContainer(c) ==
    /\ At(c, "container")
    /\ \/ Next1(c) /\ UNCHANGED fate
       \/ WhenRefused(c)
       \/ Ends(c, "lost")
    /\ UNCHANGED <<kind, group, secrets, left>>

StartCreated(c) ==
    /\ At(c, "start")
    /\ \/ Becomes(c, "running") /\ Ends(c, "given")
       \/ UNCHANGED group /\ WhenRefused(c)
       \/ /\ group' \in {group, [group EXCEPT ![p[c].r] = "running"]}
          /\ Ends(c, "lost")
    /\ UNCHANGED <<kind, secrets, left>>

ForceDelete(c) ==
    /\ At(c, "forceDelete")
    /\ \/ Becomes(c, "absent") /\ Ends(c, "refused")
       \/ UNCHANGED group /\ Ends(c, "lost")
    /\ UNCHANGED <<kind, secrets, left>>

----------------------------------------------------------------------------
(* The operations on a resource, each one request                             *)

\* What the platform answers to an operation: the states it may go to, none
\* when it refuses (or the provider throws 501).
Podman(op, s) ==
    CASE op = "stop" /\ s \in {"running", "paused"} -> {"exited"}
      [] op = "kill" /\ s = "running" -> {"exited"}
      [] op = "start" /\ s \in {"created", "exited"} -> {"running"}
      [] op = "restart" /\ s # "absent" -> {"running"}
      [] op = "pause" /\ s = "running" -> {"paused"}
      [] op = "unpause" /\ s = "paused" -> {"running"}
      [] op = "delete" -> {"absent"}
      [] OTHER -> {}
Pod(op, s) ==
    CASE op = "stop" /\ s \in {"running", "degraded"} -> {"stopped", "exited"}
      [] op = "delete" -> {"absent"}
      [] OTHER -> {}
Eci(op, s) ==
    LET rpc == CASE op \in {"stop", "kill", "delete"} -> "DeleteContainerGroup"
                 [] op = "restart" -> "RestartContainerGroup"
                 [] op = "update" -> "UpdateContainerGroup"
                 [] OTHER -> "none"
    IN {transition(s, rpc)} \ {s}
\* A container starts once: start() and restart() after a stop() throw, the
\* latter when it has stopped the container.
Stub(op, s) ==
    CASE op \in {"stop", "restart"} /\ s \in {"running", "paused"} -> {"stopped"}
      [] op = "kill" /\ s # "absent" -> {"stopped"}
      [] op = "pause" /\ s = "running" -> {"paused"}
      [] op = "unpause" /\ s = "paused" -> {"running"}
      [] op = "delete" -> {"absent"}
      [] OTHER -> {}
Answers(op, s) == CASE kind = "podman" -> Podman(op, s) [] kind = "pod" -> Pod(op, s)
                    [] kind = "eci" -> Eci(op, s) [] OTHER -> Stub(op, s)

Operations == {"stop", "start", "restart", "kill", "pause", "unpause", "update", "delete"}
Operate(c) ==
    /\ p[c].todo = <<>> /\ left > 0
    /\ \E r \in Resources, op \in Operations :
         /\ fate[r] = "given"
         /\ \E s \in Answers(op, group[r]) : group' = [group EXCEPT ![r] = s]
    /\ left' = left - 1
    /\ UNCHANGED <<kind, fate, secrets, p>>

\* The platform, on its own.
Platform ==
    /\ \E r \in Resources :
         \/ /\ kind = "podman" /\ group[r] = "running"
            /\ \E s \in {"exited", "dead"} : group' = [group EXCEPT ![r] = s]
         \/ /\ kind = "pod" /\ group[r] \in {"running", "degraded"}
            /\ \E s \in {"running", "degraded", "exited"} : group' = [group EXCEPT ![r] = s]
         \/ /\ kind = "eci" /\ group[r] = "Running" /\ group' = [group EXCEPT ![r] = "Expiring"]
         \/ /\ kind = "eci" /\ group[r] = "Expiring" /\ group' = [group EXCEPT ![r] = "Expired"]
         \/ /\ kind = "eci" /\ group[r] # "absent"
            /\ \E e \in SystemEvents : group' = [group EXCEPT ![r] = transition(group[r], e)]
         \/ /\ kind = "eci" /\ group[r] # "absent"
            /\ \E ok \in BOOLEAN, policy \in {"Always", "OnFailure", "Never"} :
                 group' = [group EXCEPT ![r] = evaluateRestartPolicy(group[r], ok, policy)]
    /\ UNCHANGED <<kind, fate, secrets, left, p>>

Next == \/ \E c \in Callers :
             \/ Create(c) \/ CreateSecret(c) \/ CreateGroup(c) \/ CreateContainer(c)
             \/ StartCreated(c) \/ ForceDelete(c) \/ Operate(c)
        \/ Platform

Spec == Init /\ [][Next]_vars

----------------------------------------------------------------------------
\* A creation the daemon refused half-way leaves no pod behind, unless the
\* forced deletion failed too or an answer was lost.
RefusedLeavesNothing == \A r \in Resources :
    kind = "pod" /\ fate[r] = "refused" => group[r] = "absent"

\* The lifecycle table agrees with what is said beside it: an operation moves
\* exactly the states its precondition allows; whatever happens to a group, step
\* after step, breaks none of the runtime assertions, and it can leave every
\* transient state; every profile is consistent and closed under the table.
States == TRANSIENT_STATES \cup TERMINAL_STATES \cup {"Running", "Stopped", "Paused"}
Triggers == SystemEvents \cup ApiOperations
Moves == {<<s, transition(s, t)>> : s \in States, t \in Triggers}
           \cup {<<s, evaluateRestartPolicy(s, ok, policy)>> :
                    s \in States, ok \in BOOLEAN, policy \in {"Always", "OnFailure", "Never"}}
TableConsistent ==
    /\ \A s \in States, op \in ApiOperations \ {"CreateContainerGroup"} :
         canApplyOperation(s, op) <=> transition(s, op) # s
    /\ \A m, n \in {move \in Moves : move[1] # move[2]} :
         m[2] = n[1] => verifyTransitionSequence(<<m, n>>)
    /\ \A s \in TRANSIENT_STATES : \E m \in Moves : m[1] = s /\ m[2] # s
    /\ \A s \in TERMINAL_STATES, m \in Moves : m[1] = s => m[2] = s
    /\ \A pl \in Platforms : validateProfile(profileForPlatform(pl))
=============================================================================
