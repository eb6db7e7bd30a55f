---------------------------- MODULE ListScheduler ----------------------------
(* core/scheduler/dag: schedule() simulates a set of dependent tasks on a set *)
(* of resources and returns who runs what, and when. Memory and GPUs are      *)
(* treated as the CPU is, and are left out.                                   *)
EXTENDS Naturals, FiniteSets

CONSTANTS Tasks, Resources,
          Unknown,              \* a dependency that is none of the tasks
          Duration, Need,       \* per task
          Priority, Capacity    \* per task, per resource

None == [resourceId |-> "none", startTime |-> 0, completionTime |-> 0]

VARIABLES dependsOn, strategy, allocator,
          clock,
          entries,      \* task |-> resource, start and completion, or None
          completed, available, availableAt,
          ready,        \* tasks of this round still to be placed
          phase, assignedAny

vars == <<dependsOn, strategy, allocator, clock, entries, completed, available, availableAt, ready, phase, assignedAny>>
input == <<dependsOn, strategy, allocator>>

Known(t) == dependsOn[t] \cap Tasks
Acyclic == \A S \in SUBSET Tasks \ {{}} : \E t \in S : Known(t) \cap S = {}

Init == /\ dependsOn \in [Tasks -> SUBSET (Tasks \cup {Unknown})]
        /\ strategy \in {"FCFS", "Priority", "SJF", "CPM"}
        /\ allocator \in {"FirstFit", "LeastRequested", "HEFT"}
        /\ clock = 0
        /\ entries = [t \in Tasks |-> None]
        /\ completed = {} /\ ready = {} /\ assignedAny = FALSE
        /\ available = Capacity
        /\ availableAt = [r \in Resources |-> 0]
        /\ phase = IF Acyclic THEN "collect" ELSE "done"

Scheduled == {t \in Tasks : entries[t] # None}
Max2(a, b) == IF a >= b THEN a ELSE b
Largest(S) == CHOOSE n \in S : \A m \in S : m <= n

----------------------------------------------------------------------------
(* The strategies order the ready tasks; tasks with equal keys keep the order *)
(* they came in, which is left open.                                          *)

computeUpwardRanks ==
    LET rank[t \in Tasks] ==
          Duration[t] + Largest({0} \cup {rank[u] : u \in {v \in Tasks : t \in dependsOn[v]}})
    IN rank

Before(t, u) == CASE strategy = "FCFS" -> TRUE
                  [] strategy = "Priority" -> Priority[t] >= Priority[u]
                  [] strategy = "SJF" -> Duration[t] <= Duration[u]
                  [] strategy = "CPM" -> computeUpwardRanks[t] >= computeUpwardRanks[u]

fits(t, r) == available[r] >= Need[t]
Fitting(t) == {r \in Resources : fits(t, r)}

\* utilization() is the share of a resource that is available.
Utilized(r, s) == available[r] * Capacity[s] <= available[s] * Capacity[r]
Finish(t, r) == availableAt[r] + Duration[t]

select(t) ==
    {r \in Fitting(t) :
       CASE allocator = "FirstFit" -> TRUE
         [] allocator = "LeastRequested" -> \A s \in Fitting(t) : Utilized(r, s)
         [] allocator = "HEFT" -> \A s \in Fitting(t) : Finish(t, r) <= Finish(t, s)}

----------------------------------------------------------------------------
\* A round: the tasks whose dependencies are completed.
DepsDone(t) == dependsOn[t] \subseteq completed
Ready == {t \in Tasks \ (completed \cup Scheduled) : DepsDone(t)}

Collect ==
    /\ phase = "collect" /\ completed # Tasks
    /\ ready' = Ready
    /\ phase' = IF Ready = {} THEN "advance" ELSE "assign"
    /\ assignedAny' = FALSE
    /\ UNCHANGED <<input, clock, entries, completed, available, availableAt>>

\* Every resource is free from now on at the earliest; the allocator still
\* sees the resources as they were before that.
Caught == [r \in Resources |-> Max2(availableAt[r], clock)]

Consumed(t, r) == [available EXCEPT ![r] = @ - Need[t]]

Assign ==
    /\ phase = "assign" /\ ready # {}
    /\ \E t \in {t \in ready : \A u \in ready : Before(t, u)} :
         /\ ready' = ready \ {t}
         /\ IF Fitting(t) = {}
            THEN availableAt' = Caught /\ UNCHANGED <<entries, available, assignedAny>>
            ELSE \E r \in select(t) :
                   LET start == Max2(clock, Caught[r]) IN
                     /\ entries' = [entries EXCEPT ![t] = [resourceId |-> r, startTime |-> start,
                                                           completionTime |-> start + Duration[t]]]
                     /\ available' = Consumed(t, r)
                     /\ availableAt' = [Caught EXCEPT ![r] = start + Duration[t]]
                     /\ assignedAny' = TRUE
    /\ UNCHANGED <<input, clock, completed, phase>>

Assigned ==
    /\ phase = "assign" /\ ready = {}
    /\ phase' = "advance"
    /\ UNCHANGED <<input, clock, entries, completed, available, availableAt, ready, assignedAny>>

\* The clock moves to the next completion, which frees what its task used.
InFlight == Scheduled \ completed
findEarliestCompletion == CHOOSE n \in {entries[t].completionTime : t \in InFlight} :
                            \A t \in InFlight : n <= entries[t].completionTime
Freed(done) == [r \in Resources |->
    LET back == {t \in done : entries[t].resourceId = r}
        sum[S \in SUBSET back] == IF S = {} THEN 0
                                  ELSE LET t == CHOOSE t \in S : TRUE IN Need[t] + sum[S \ {t}]
    IN available[r] + sum[back]]

Advance ==
    /\ phase = "advance" /\ InFlight # {}
    /\ clock' = findEarliestCompletion
    /\ LET done == {t \in InFlight : entries[t].completionTime <= findEarliestCompletion} IN
         completed' = completed \cup done /\ available' = Freed(done)
    /\ phase' = "collect"
    /\ UNCHANGED <<input, entries, availableAt, ready, assignedAny>>

Finished ==
    /\ (phase = "collect" /\ completed = Tasks) \/ (phase = "advance" /\ InFlight = {})
    /\ phase' = "done"
    /\ UNCHANGED <<input, clock, entries, completed, available, availableAt, ready, assignedAny>>

Next == Collect \/ Assign \/ Assigned \/ Advance \/ Finished

Spec == Init /\ [][Next]_vars

----------------------------------------------------------------------------
\* No task starts before the tasks it depends on have finished, and at no
\* moment do the tasks on a resource need more than it has.
Running(t, time) == entries[t].startTime <= time /\ time < entries[t].completionTime
Total(S) == LET sum[T \in SUBSET S] == IF T = {} THEN 0
                                       ELSE LET t == CHOOSE t \in T : TRUE IN Need[t] + sum[T \ {t}]
            IN sum[S]
ScheduleRespects ==
    /\ \A t \in Scheduled : \A d \in dependsOn[t] :
         d \in Scheduled /\ entries[d].completionTime <= entries[t].startTime
    /\ \A t \in Scheduled, r \in Resources :
         Total({u \in Scheduled : entries[u].resourceId = r /\ Running(u, entries[t].startTime)}) <= Capacity[r]

\* When the simulation ends, exactly the tasks are left unassigned that no
\* resource could ever hold, that wait for a task nobody knows, or that depend
\* on such a task: a shortage only ever delays.
Hopeless(S) == \A t \in S : \/ \A r \in Resources : Need[t] > Capacity[r]
                            \/ dependsOn[t] \cap (S \cup {Unknown}) # {}
NoneForgotten ==
    phase = "done" =>
      IF Acyclic THEN Hopeless(Tasks \ Scheduled) /\ \A S \in SUBSET Tasks : Hopeless(S) => S \cap Scheduled = {}
      ELSE Scheduled = {}
=============================================================================
