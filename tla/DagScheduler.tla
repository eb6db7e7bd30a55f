---------------------------- MODULE DagScheduler ----------------------------
(***************************************************************************)
(* core/scheduler/dag-scheduler.ts over the persistence that               *)
(* features/actions/handler.ts gives it (scheduler-context.ts).            *)
(*                                                                         *)
(* Every isolate starts a tick every five seconds and awaits none          *)
(* (`void this.tick()'), so any number of ticks run at once.  A tick reads *)
(* the active runs at the start of a phase and works on them while it      *)
(* awaits one call after the other.  What it reads may be older than what  *)
(* is stored, for another step came in between or a cache served it        *)
(* (store/factory.ts, 30 s): `served' is what may still be read of a run.  *)
(* A run is written under the version that was read for it just before.    *)
(* An instance is written without one, that is, only where its key is new. *)
(*                                                                         *)
(* Of the five phases, process and execute work on instances that are      *)
(* SCHEDULED or QUEUED, and cgGC on the container groups that execute made.*)
(* ActionProofs shows that there are none: these phases pass every run     *)
(* over, and the model stops where one would not.                          *)
(***************************************************************************)
EXTENDS Integers, Sequences, FiniteSets, Functions

CONSTANTS
  DagRuns,        (* ids of DAG runs of one DAG *)
  TaskSeq,        (* its tasks, in the order of the definition *)
  Deps,           (* Task.dependsOn *)
  Rule,           (* Task.triggerRule *)
  MaxActiveRuns,  (* DagDef.maxActiveRuns *)
  Ticks,          (* ticks that may overlap, in any isolates *)
  MaxInstances,   (* bound: instances that the index of a run takes *)
  TickCrashes     (* bound: isolates that go in the middle of a tick *)

Tasks == Range(TaskSeq)

ASSUME DagAssumption == TaskSeq \in Seq(Tasks) /\ MaxInstances \in Nat

VARIABLES
  def,       (* the definition is stored *)
  defServed, (* a cache may still serve it *)
  dagRun,    (* status of each run, absent until the index lists it *)
  served,    (* older statuses of each run that may still be read *)
  tis,       (* per run, its instances in the order of its index *)
  late,      (* runs that have been running for dagRunTimeoutMs *)
  overdue,   (* runs that were late at some time (history) *)
  tick,      (* per tick: its phase and what it holds in memory *)
  cuts       (* ticks that were cut off *)

dagVars == <<def, defServed, dagRun, served, tis, late, overdue, tick, cuts>>

Phases == <<"schedule", "heartbeat">>
FailedStates == {"FAILED", "UPSTREAM_FAILED"}
Terminal == {"SUCCESS", "SKIPPED", "REMOVED"} \cup FailedStates
ActiveStates == {"QUEUED", "RUNNING"}
None == "none"
Idle == [phase |-> 0, runs |-> <<>>, run |-> None, tis |-> <<>>, todo |-> <<>>]

DagInit ==
  /\ def = TRUE /\ defServed = FALSE
  /\ dagRun = [r \in DagRuns |-> "absent"]
  /\ served = [r \in DagRuns |-> {}]
  /\ tis = [r \in DagRuns |-> <<>>]
  /\ late = {} /\ overdue = {}
  /\ tick = [i \in Ticks |-> Idle]
  /\ cuts = 0

-----------------------------------------------------------------------------
(* What the schedule phase computes.  A trigger rule only asks which states  *)
(* occur among the upstream instances.                                       *)

EvaluateTriggerRule(rule, up) ==
  \/ up = {}
  \/ rule = "always"
  \/ rule = "all_success" /\ up \subseteq {"SUCCESS"}
  \/ rule = "all_failed" /\ up \subseteq FailedStates
  \/ rule = "all_done" /\ up \subseteq Terminal
  \/ rule = "one_success" /\ "SUCCESS" \in up
  \/ rule = "one_failed" /\ up \cap FailedStates # {}
  \/ rule = "none_failed" /\ up \cap FailedStates = {}
  \/ rule = "none_skipped" /\ "SKIPPED" \notin up
  \/ rule = "none_failed_min_one_success" /\ up \cap FailedStates = {} /\ "SUCCESS" \in up

(* tiMap: the last instance of a task in the index; 0 when there is none.    *)
Instance(s, t) == LET at == {n \in DOMAIN s : s[n].task = t}
                  IN  IF at = {} THEN 0 ELSE CHOOSE n \in at : \A m \in at : m <= n
StateOf(s, t) == IF Instance(s, t) = 0 THEN "NONE" ELSE s[Instance(s, t)].state
Upstream(s, t) == {StateOf(s, d) : d \in Deps[t]}

(* Rules that a failed upstream may still satisfy.                           *)
FailureTolerant == {"one_failed", "all_failed", "all_done", "none_skipped"}

(* What schedule() makes of an instance; `due' tells whether retryDelayMs    *)
(* has passed.                                                               *)
Advanced(ti, up, due) ==
  LET rule == Rule[ti.task] IN
  IF ti.state = "UP_FOR_RETRY"
    THEN IF due THEN [ti EXCEPT !.state = "QUEUED"] ELSE ti
  ELSE IF ti.state # "NONE" THEN ti
  ELSE IF up \cap FailedStates # {} /\ rule \notin FailureTolerant \cup {"always"}
    THEN [ti EXCEPT !.state = "UPSTREAM_FAILED"]
  ELSE IF ~(up \subseteq Terminal) THEN ti
  ELSE IF EvaluateTriggerRule(rule, up) THEN [ti EXCEPT !.state = "SCHEDULED"]
  ELSE IF up \cap FailedStates = {} THEN [ti EXCEPT !.state = "SKIPPED"]
  ELSE ti

\* Mutant: a task without an instance is no obstacle.
AllEndedSoFar(s) ==
  Tasks # {} /\ \A t \in Tasks : Instance(s, t) = 0 \/ StateOf(s, t) \in Terminal

(* allTerminal, and the status of such a run: a task without an instance has *)
(* not ended.                                                                *)
AllEnded(s) == Tasks # {} /\ \A t \in Tasks : StateOf(s, t) \in Terminal
Outcome(s) == IF \E t \in Tasks : StateOf(s, t) \in FailedStates THEN "FAILED" ELSE "SUCCESS"

-----------------------------------------------------------------------------
(* The calls of the context.                                                 *)

(* What the reads of the runs may return, one after the other.               *)
Readings == {f \in [DagRuns -> UNION {{dagRun[r]} \cup served[r] : r \in DagRuns}] :
              \A r \in DagRuns : f[r] \in {dagRun[r]} \cup served[r]}

\* Mutant: queued runs are not looked at.
ActiveRunning(f) == {r \in DOMAIN f : f[r] = "RUNNING"}

(* getActiveDagRuns()                                                        *)
Active(f) == {r \in DOMAIN f : f[r] \in ActiveStates}

(* getDagRun() and updateDagRun(): refused if the version read is old.  What *)
(* begins to run takes the time of its start.                                *)
Write(r, s) ==
  \/ /\ dagRun' = [dagRun EXCEPT ![r] = s]
     /\ served' = [served EXCEPT ![r] = @ \cup {dagRun[r]}]
     /\ late' = IF s = "RUNNING" THEN late \ {r} ELSE late
  \/ /\ served[r] # {}
     /\ UNCHANGED <<dagRun, served, late>>

(* getTaskInstances(): an older index lists fewer.                           *)
ListedInstances(r) == {SubSeq(tis[r], 1, n) : n \in 0 .. Len(tis[r])}

(* saveTaskInstance(ti): set(key, ti, version ?? null) of the n-th instance  *)
(* of a run.  The second case is an instance whose index entry was refused   *)
(* three times, or that has no room within the bound: nobody finds it.       *)
SaveTaskInstance(r, n, ti) ==
  IF n \in DOMAIN tis[r] THEN UNCHANGED tis
  ELSE \/ Len(tis[r]) < MaxInstances /\ tis' = [tis EXCEPT ![r] = Append(@, ti)]
       \/ UNCHANGED tis

-----------------------------------------------------------------------------
(* Requests, and what caches serve.                                          *)

(* A run whose index entry was refused three times is never seen.            *)
Trigger(r) ==
  /\ def \/ defServed
  /\ dagRun[r] = "absent"
  /\ dagRun' = [dagRun EXCEPT ![r] = "QUEUED"]
  /\ UNCHANGED <<def, defServed, served, tis, late, overdue, tick, cuts>>

DeleteDagDef ==
  /\ def
  /\ def' = FALSE /\ defServed' = TRUE
  /\ UNCHANGED <<dagRun, served, tis, late, overdue, tick, cuts>>

Expire(r) ==
  /\ served[r] # {}
  /\ served' = [served EXCEPT ![r] = {}]
  /\ UNCHANGED <<def, defServed, dagRun, tis, late, overdue, tick, cuts>>

ExpireDef ==
  /\ defServed
  /\ defServed' = FALSE
  /\ UNCHANGED <<def, dagRun, served, tis, late, overdue, tick, cuts>>

-----------------------------------------------------------------------------
(* A tick.                                                                   *)

At(i, phase) == tick[i].phase > 0 /\ Phases[tick[i].phase] = phase
Drop(t, r) == [Idle EXCEPT !.phase = t.phase, !.runs = Restrict(t.runs, DOMAIN t.runs \ {r})]
Leave(i, r) == tick' = [tick EXCEPT ![i] = Drop(@, r)]
Open(i, r) == \E s \in ListedInstances(r) :
  tick' = [tick EXCEPT ![i].run = r, ![i].tis = s, ![i].todo = TaskSeq]
Visiting(i, r) == tick[i].run = None /\ r \in DOMAIN tick[i].runs
Working(i) == tick[i].run # None /\ tick[i].todo # <<>>
Closing(i) == tick[i].run # None /\ tick[i].todo = <<>>

(* A tick begins with the active runs, and goes on to the heartbeat with     *)
(* those of that time when process and execute have found no instance in the *)
(* state that they look for.                                                 *)
Without(r, states) == \A n \in DOMAIN tis[r] : tis[r][n].state \notin states

NextPhase(i) ==
  /\ DOMAIN tick[i].runs = {} /\ tick[i].run = None
  /\ LET next == (tick[i].phase + 1) % (Len(Phases) + 1) IN
     \E f \in Readings :
       /\ next = 2 => \A r \in DagRuns : Without(r, {"SCHEDULED", "QUEUED"})
       /\ tick' = [tick EXCEPT ![i] = [Idle EXCEPT !.phase = next,
                     !.runs = Restrict(f, IF next = 0 THEN {} ELSE Active(f))]]
  /\ UNCHANGED <<def, defServed, dagRun, served, tis, late, overdue, cuts>>

(* Phase 1: an active run, in the order of the index or another.             *)

NoDefinition(i, r) ==
  /\ At(i, "schedule") /\ Visiting(i, r)
  /\ ~def
  /\ Write(r, "FAILED")
  /\ Leave(i, r)
  /\ UNCHANGED <<def, defServed, tis, overdue, cuts>>

(* The number of runs that were RUNNING when they were read.                 *)
Running(f) == Cardinality({r \in DOMAIN f : f[r] = "RUNNING"})

BeginRun(i, r) ==
  /\ At(i, "schedule") /\ Visiting(i, r)
  /\ def \/ defServed
  /\ tick[i].runs[r] = "QUEUED"
  /\ \E f \in Readings :
       \/ /\ Running(f) >= MaxActiveRuns
          /\ Leave(i, r) /\ UNCHANGED <<dagRun, served, late>>
       \/ /\ Running(f) < MaxActiveRuns
          /\ Write(r, "RUNNING")
          /\ Open(i, r)
  /\ UNCHANGED <<def, defServed, tis, overdue, cuts>>

ResumeRun(i, r) ==
  /\ At(i, "schedule") /\ Visiting(i, r)
  /\ def \/ defServed
  /\ tick[i].runs[r] = "RUNNING"
  /\ Open(i, r)
  /\ UNCHANGED <<def, defServed, dagRun, served, tis, late, overdue, cuts>>

ScheduleTask(i) ==
  LET r == tick[i].run  t == Head(tick[i].todo)  s == tick[i].tis  n == Instance(s, t) IN
  /\ Working(i)
  /\ IF n = 0
       THEN /\ SaveTaskInstance(r, Len(tis[r]) + 1, [task |-> t, state |-> "NONE"])
            /\ tick' = [tick EXCEPT ![i].todo = Tail(@)]
       ELSE \E due \in BOOLEAN :
              LET ti == Advanced(s[n], Upstream(s, t), due) IN
              /\ IF ti = s[n] THEN UNCHANGED tis ELSE SaveTaskInstance(r, n, ti)
              /\ tick' = [tick EXCEPT ![i].tis[n] = ti, ![i].todo = Tail(@)]
  /\ UNCHANGED <<def, defServed, dagRun, served, late, overdue, cuts>>

ScheduleDone(i) ==
  LET r == tick[i].run IN
  /\ Closing(i)
  /\ IF AllEnded(tick[i].tis) THEN Write(r, Outcome(tick[i].tis))
                              ELSE UNCHANGED <<dagRun, served, late>>
  /\ Leave(i, r)
  /\ UNCHANGED <<def, defServed, tis, overdue, cuts>>

(* Phase 4: a run with no running instance.  The start of the run is that of *)
(* the record read, which may have been started anew since.                  *)
TimeOut(i, r) ==
  /\ At(i, "heartbeat") /\ Visiting(i, r) /\ Without(r, {"RUNNING"})
  /\ tick[i].runs[r] = "RUNNING" /\ r \in overdue
  /\ Write(r, "FAILED")
  /\ Leave(i, r)
  /\ UNCHANGED <<def, defServed, tis, overdue, cuts>>

Beat(i, r) ==
  /\ At(i, "heartbeat") /\ Visiting(i, r) /\ Without(r, {"RUNNING"})
  /\ tick[i].runs[r] = "QUEUED" \/ r \notin late
  /\ Leave(i, r)
  /\ UNCHANGED <<def, defServed, dagRun, served, tis, late, overdue, cuts>>

-----------------------------------------------------------------------------
(* The environment: dagRunTimeoutMs passes; the isolate goes.                *)

RunLate(r) ==
  /\ dagRun[r] = "RUNNING" /\ r \notin late
  /\ late' = late \cup {r} /\ overdue' = overdue \cup {r}
  /\ UNCHANGED <<def, defServed, dagRun, served, tis, tick, cuts>>

CutOff(i) ==
  /\ tick[i] # Idle /\ cuts < TickCrashes
  /\ tick' = [tick EXCEPT ![i] = Idle]
  /\ cuts' = cuts + 1
  /\ UNCHANGED <<def, defServed, dagRun, served, tis, late, overdue>>

Visit(i, r) ==
  \/ NoDefinition(i, r) \/ BeginRun(i, r) \/ ResumeRun(i, r)
  \/ TimeOut(i, r) \/ Beat(i, r)

TickStep(i) ==
  \/ NextPhase(i)
  \/ \E r \in DagRuns : Visit(i, r)
  \/ ScheduleTask(i) \/ ScheduleDone(i)

DagNext ==
  \/ \E r \in DagRuns : Trigger(r) \/ Expire(r) \/ RunLate(r)
  \/ DeleteDagDef \/ ExpireDef
  \/ \E i \in Ticks : TickStep(i) \/ CutOff(i)

(* Ticks come and their calls return; what caches serve expires, and time    *)
(* passes.                                                                   *)
DagFairness ==
  /\ \A i \in Ticks : WF_dagVars(TickStep(i))
  /\ \A r \in DagRuns : WF_dagVars(Expire(r)) /\ WF_dagVars(RunLate(r))

DagSpec == DagInit /\ [][DagNext]_dagVars /\ DagFairness

-----------------------------------------------------------------------------
(* Whatever overlaps and however old the reads are, no run is closed as a    *)
(* success while a task of it has not ended well, and none fails unless its  *)
(* definition was deleted or its time was up.  (As wired no task runs, and   *)
(* no run is closed as a success at all: ActionProofs, NothingPicked.)       *)
RunsAgree ==
  \A r \in DagRuns :
    /\ dagRun[r] = "SUCCESS" => \A t \in Tasks : StateOf(tis[r], t) \in {"SUCCESS", "SKIPPED"}
    /\ dagRun[r] = "FAILED" => ~def \/ r \in overdue

(* Every run in the index ends for good, whatever ticks overlap, are cut off *)
(* or write from an old read.                                                *)
DagEnded(r) == dagRun[r] = "absent" \/ dagRun[r] \in {"SUCCESS", "FAILED"}
DagEnds == \A r \in DagRuns : <>[]DagEnded(r)
=============================================================================
