----------------------------- MODULE MCActions -----------------------------
(* The actions feature for TLC: the scheduler of DAG runs, the runner of      *)
(* workflows, the triggers that create the runs of either, and the steps of a *)
(* job.  A run belongs to one of the two executors and they share no record,  *)
(* so a behaviour is of one part, and x1, x2, ... are the variables of that   *)
(* part, those it has no use for keeping one value.  The scheduler and the    *)
(* runner are extended: what is checked of them here is what ActionProofs     *)
(* proves.                                                                    *)
EXTENDS WorkflowRunner, DagScheduler, TLC

CONSTANTS Parts         \* the parts this run takes

VARIABLES part, x1, x2, x3, x4, x5, x6, x7

shared == <<x1, x2, x3, x4, x5, x6, x7>>
actionsVars == <<part, shared, vars, dagVars>>

----------------------------------------------------------------------------
(* The workflow: two jobs, and one that needs both and an approval.           *)

ThreeJobs == <<"test", "lint", "deploy">>
BothNeeded == [test |-> {}, lint |-> {}, deploy |-> {"test", "lint"}]
TwoSteps == [test |-> <<TRUE, FALSE>>, lint |-> <<>>, deploy |-> <<>>]

\* The DAG: a task, and one that runs when the first failed.
TwoTasks == <<"build", "rollback">>
OneTask == <<"build">>
BuildFirst == [build |-> {}, rollback |-> {"build"}]
RollBack == [build |-> "all_success", rollback |-> "one_failed"]

----------------------------------------------------------------------------
(* The instances                                                              *)

T == INSTANCE WorkflowTriggers WITH
       Clients <- {"a", "b"}, Workflows <- {"v"}, Calls <- [a |-> 3, b |-> 1],
       Runs <- {"r1", "r2", "r3"}, MaxUses <- 1, Attempts <- 2,
       wf <- x1, dag <- x2, ids <- x3, link <- x4, run <- x5, left <- x6, p <- x7

\* Strategies with and without an empty variable and exclusions of one or two
\* values; texts with a placeholder twice, and with one that names no variable.
Var(k, vs) == [key |-> k, values |-> vs]
Lit(t) == [kind |-> "lit", text |-> t]
Ref(t) == [kind |-> "var", text |-> t]

M == INSTANCE JobSteps WITH
       Matrices <- {<<>>, <<Var("os", <<"u", "a">>)>>,
                    <<Var("os", <<"u", "a">>), Var("node", <<"18", "20">>)>>,
                    <<Var("os", <<"u">>), Var("node", <<>>)>>,
                    <<Var("os", <<"u", "a">>), Var("node", <<"18", "20">>), Var("db", <<"p">>)>>},
       Excludes <- {{}, {[os |-> "a", node |-> "20"]}, {[os |-> "a"]},
                    {[db |-> "p"], [os |-> "u", node |-> "18"]}},
       Texts <- {<<Lit("x"), Ref("os")>>, <<Ref("os"), Ref("node"), Ref("os")>>,
                 <<Ref("db"), Lit("x"), Ref("db")>>},
       Kinds <- {"run", "dns", "uses", "other"}, MaxSteps <- 2,
       steps <- x1, at <- x2, n <- x3, ran <- x4, log <- x5, note <- x6, told <- x7

----------------------------------------------------------------------------
Unused == "unused"
From1 == /\ x1 = Unused /\ x2 = Unused /\ x3 = Unused /\ x4 = Unused
         /\ x5 = Unused /\ x6 = Unused /\ x7 = Unused

ActionsInit ==
    /\ part \in Parts
    /\ Init /\ DagInit
    /\ \/ part \in {"dag", "workflow"} /\ From1
       \/ part = "triggers" /\ T!Init
       \/ part = "job" /\ M!Init

\* A step of each part.
Dag(A) == part = "dag" /\ A /\ UNCHANGED <<part, shared, vars>>
Workflow(A) == part = "workflow" /\ A /\ UNCHANGED <<part, shared, dagVars>>
Other(p, A) == part = p /\ A /\ UNCHANGED <<part, vars, dagVars>>

ActionsNext ==
    \/ Dag(DagNext)
    \/ Workflow(Next)
    \/ Other("triggers", T!Next)
    \/ Other("job", M!Next)

\* The fairness of DagScheduler and of WorkflowRunner, each for its part.
ActionsFairness ==
    /\ \A i \in Ticks : WF_actionsVars(Dag(TickStep(i)))
    /\ \A r \in DagRuns : WF_actionsVars(Dag(Expire(r))) /\ WF_actionsVars(Dag(RunLate(r)))
    /\ \A w \in Workers : WF_actionsVars(Workflow(Work(w)))
    /\ \A j \in Jobs : WF_actionsVars(Workflow(\E w \in Workers : Deliver(w, j)))

ActionsSpec == ActionsInit /\ [][ActionsNext]_actionsVars

----------------------------------------------------------------------------
\* What is asked for is done as it was asked: a trigger starts what has a
\* definition, a use of a shared link that was counted stays so and counts once, a
\* link that was disabled does not come back, and the steps of a job are executed in
\* order, once, and as long as they may, for the variants that its matrix describes.
AskedIsDone ==
    /\ [](part = "triggers" => T!RunsAreDefined /\ T!UsesCounted)
    /\ [](part = "job" => M!JobsSound)
    /\ [][part = "triggers" => T!DisabledStays]_actionsVars

\* A DAG run ends for good whatever ticks overlap and wherever one stops; a workflow
\* run completes unless a job of it failed, a worker went, or a job met its gate.
RunsEnd ==
    /\ \A r \in DagRuns : <>[](part = "dag" => DagEnded(r))
    /\ (part = "workflow" /\ Waits) ~> (part = "workflow" /\ Over)

----------------------------------------------------------------------------
(* What must come to its end without anybody asking again: the runs above,    *)
(* and the entries of the store whose TTL has passed.  The store is one more  *)
(* part over the same variables.                                              *)

\* One key with a TTL and one in transactions.
S == INSTANCE DurableStore WITH
       Keys <- {"nonce", "user"}, TtlKeys <- {"nonce"}, TxnKeys <- {"user"},
       Clients <- {"c"}, MaxVersions <- 3, MaxTtl <- 2, IdleAlarm <- 2,
       storage <- x1, markers <- x2, alarm <- x3, bootstrapped <- x4, mode <- x5,
       view <- x6, nextVersion <- x7

EndInit ==
    \/ ActionsInit
    \/ part \in Parts /\ part = "store" /\ Init /\ DagInit /\ S!Init

Store(A) == Other("store", A)

\* The object of the store stays in memory, as it does under steady traffic.
EndNext ==
    \/ ActionsNext
    \/ Store(S!Next /\ (x4 => x4'))

\* Time passes, and of the due alarms one finds the storage working.
EndSpec ==
    /\ EndInit /\ [][EndNext]_actionsVars
    /\ ActionsFairness /\ WF_actionsVars(Store(S!Tick)) /\ SF_actionsVars(Store(S!Alarm))

----------------------------------------------------------------------------
\* Expired entries are removed even if nobody reads them again (the nonces of
\* src/features/users/service.ts rely on it).
ExpiredReaped ==
    \A k \in {"nonce"} : (part = "store" /\ S!Expired(k)) ~> (part = "store" /\ ~S!Expired(k))
=============================================================================
