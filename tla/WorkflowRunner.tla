--------------------------- MODULE WorkflowRunner ---------------------------
(***************************************************************************)
(* features/actions/runner.ts: a run of a workflow, whose jobs are         *)
(* executed by the workers that receive a queue message for them, and, in  *)
(* the same worker, by recursion into the jobs a success makes ready.      *)
(*                                                                         *)
(* A worker is a stack of calls: Start is startRun, Ready is               *)
(* #enqueueReadyJobs over the jobs still to look at, Exec is executeJob.   *)
(* Messages are delivered at least once; a worker may go at any step and   *)
(* its message comes back.                                                 *)
(***************************************************************************)
EXTENDS Integers, Sequences, FiniteSets, SequencesExt

CONSTANTS
  JobSeq,      (* names of the jobs, in the order of the definition *)
  Needs,       (* JobDef.needs *)
  Gated,       (* jobs with an approval gate *)
  Steps,       (* per job, its steps: TRUE when continueOnError *)
  Workers,     (* isolates: one request and the consumers *)
  Queued,      (* the producer has a queue binding *)
  MaxDeliveries, (* bound: duplicates of messages *)
  MaxCrashes   (* bound: isolates that go *)

Jobs == Range(JobSeq)

VARIABLES
  run,       (* status of the WorkflowRun *)
  refs,      (* its jobRunRefs *)
  job,       (* per job, the status of its JobRun *)
  pods,      (* pods provisioned for a job *)
  billed,    (* jobs with a BillingEntry *)
  approval,  (* per job, the status of its ApprovalNode *)
  queue,     (* messages for a job that wait *)
  stack,     (* per worker, its calls, the innermost first *)
  inbox,     (* the message a worker is handling *)
  copies, crashes

vars == <<run, refs, job, pods, billed, approval, queue, stack, inbox, copies, crashes>>

Done == {"Success", "Failure", "Skipped"}

Init ==
  /\ run = "absent"
  /\ refs = <<>>
  /\ job = [j \in Jobs |-> "absent"]
  /\ pods = [j \in Jobs |-> 0]
  /\ billed = {}
  /\ approval = [j \in Jobs |-> "none"]
  /\ queue = [j \in Jobs |-> 0]
  /\ stack = [w \in Workers |-> <<>>]
  /\ inbox = [w \in Workers |-> {}]
  /\ copies = 0
  /\ crashes = 0

Start(todo) == [call |-> "start", at |-> "jobs", todo |-> todo]
Ready(todo) == [call |-> "ready", at |-> "look", todo |-> todo]
Exec(j) == [call |-> "exec", at |-> "read", todo |-> <<j>>, ok |-> TRUE, left |-> <<>>]

In(w, call, at) == stack[w] # <<>> /\ Head(stack[w]).call = call /\ Head(stack[w]).at = at
Top(w) == Head(stack[w])
J(w) == Head(Top(w).todo)
Goto(w, at) == stack' = [stack EXCEPT ![w][1].at = at]
Return(w) == stack' = [stack EXCEPT ![w] = Tail(@)]
SetJob(j, s) == job' = [job EXCEPT ![j] = s]

-----------------------------------------------------------------------------
(* startRun().                                                               *)

StartRun(w) ==
  /\ run = "absent" /\ stack[w] = <<>>
  /\ run' = "Pending"
  /\ stack' = [stack EXCEPT ![w] = <<Start(JobSeq)>>]
  /\ UNCHANGED <<refs, job, pods, billed, approval, queue, inbox, copies, crashes>>

CreateJobRun(w) ==
  /\ In(w, "start", "jobs") /\ Top(w).todo # <<>>
  /\ SetJob(J(w), "Queued")
  /\ stack' = [stack EXCEPT ![w][1].todo = Tail(@)]
  /\ UNCHANGED <<run, refs, pods, billed, approval, queue, inbox, copies, crashes>>

SaveRefs(w) ==
  /\ In(w, "start", "jobs") /\ Top(w).todo = <<>>
  /\ refs' = JobSeq
  /\ stack' = [stack EXCEPT ![w] = <<Ready(JobSeq)>>]
  /\ UNCHANGED <<run, job, pods, billed, approval, queue, inbox, copies, crashes>>

-----------------------------------------------------------------------------
(* #enqueueReadyJobs(): what becomes of the next job is decided on its       *)
(* status and those of its needs, and then done.                             *)

DepStatuses(j) == {job[n] : n \in Needs[j]}

Verdict(j) ==
  IF job[j] # "Queued" THEN "next"
  ELSE IF "Failure" \in DepStatuses(j) THEN "skip"
  ELSE IF DepStatuses(j) \subseteq {"Success"} THEN "send"
  ELSE "next"

Look(w) ==
  /\ In(w, "ready", "look")
  /\ IF Top(w).todo = <<>> THEN Return(w)
     ELSE IF Verdict(J(w)) = "next"
       THEN stack' = [stack EXCEPT ![w][1].todo = Tail(@)]
       ELSE Goto(w, Verdict(J(w)))
  /\ UNCHANGED <<run, refs, job, pods, billed, approval, queue, inbox, copies, crashes>>

Passed(w) == [stack[w] EXCEPT ![1].at = "look", ![1].todo = Tail(@)]

Skip(w) ==
  /\ In(w, "ready", "skip")
  /\ SetJob(J(w), "Skipped")
  /\ stack' = [stack EXCEPT ![w] = Passed(w)]
  /\ UNCHANGED <<run, refs, pods, billed, approval, queue, inbox, copies, crashes>>

(* A message when the producer has a queue and send() is accepted, and the   *)
(* consumer's runner has none; a nested executeJob() otherwise.              *)
Send(w) ==
  /\ In(w, "ready", "send") /\ Queued /\ inbox[w] = {}
  /\ queue' = [queue EXCEPT ![J(w)] = @ + 1]
  /\ stack' = [stack EXCEPT ![w] = Passed(w)]
  /\ UNCHANGED <<run, refs, job, pods, billed, approval, inbox, copies, crashes>>

Inline(w) ==
  /\ In(w, "ready", "send")
  /\ stack' = [stack EXCEPT ![w] = <<Exec(J(w))>> \o Passed(w)]
  /\ UNCHANGED <<run, refs, job, pods, billed, approval, queue, inbox, copies, crashes>>

-----------------------------------------------------------------------------
(* The consumer: a message is taken, handled, and acknowledged.              *)

Deliver(w, j) ==
  /\ stack[w] = <<>> /\ inbox[w] = {} /\ queue[j] > 0
  /\ queue' = [queue EXCEPT ![j] = @ - 1]
  /\ inbox' = [inbox EXCEPT ![w] = {j}]
  /\ stack' = [stack EXCEPT ![w] = <<Exec(j)>>]
  /\ UNCHANGED <<run, refs, job, pods, billed, approval, copies, crashes>>

Duplicate(j) ==
  /\ copies < MaxDeliveries /\ \E w \in Workers : j \in inbox[w]
  /\ queue' = [queue EXCEPT ![j] = @ + 1]
  /\ copies' = copies + 1
  /\ UNCHANGED <<run, refs, job, pods, billed, approval, stack, inbox, crashes>>

Ack(w) ==
  /\ stack[w] = <<>> /\ inbox[w] # {}
  /\ inbox' = [inbox EXCEPT ![w] = {}]
  /\ UNCHANGED <<run, refs, job, pods, billed, approval, queue, stack, copies, crashes>>

Crash(w) ==
  /\ crashes < MaxCrashes /\ stack[w] # <<>>
  /\ stack' = [stack EXCEPT ![w] = <<>>]
  /\ inbox' = [inbox EXCEPT ![w] = {}]
  /\ queue' = [j \in Jobs |-> queue[j] + (IF j \in inbox[w] THEN 1 ELSE 0)]
  /\ crashes' = crashes + 1
  /\ UNCHANGED <<run, refs, job, pods, billed, approval, copies>>

-----------------------------------------------------------------------------
(* executeJob().                                                             *)

ReadJob(w) ==
  /\ In(w, "exec", "read")
  /\ IF job[J(w)] = "Queued" THEN Goto(w, "claim") ELSE Return(w)
  /\ UNCHANGED <<run, refs, job, pods, billed, approval, queue, inbox, copies, crashes>>

\* Mutant: the job is written as Running whatever it is.
ClaimBlind(w) ==
  /\ In(w, "exec", "claim")
  /\ SetJob(J(w), "Running") /\ Goto(w, "gate")
  /\ UNCHANGED <<run, refs, pods, billed, approval, queue, inbox, copies, crashes>>

(* The write is conditional on the version that was read as Queued: a job    *)
(* that is no longer Queued has another.                                     *)
Claim(w) ==
  /\ In(w, "exec", "claim")
  /\ IF job[J(w)] = "Queued"
       THEN SetJob(J(w), "Running") /\ Goto(w, "gate")
       ELSE Return(w) /\ UNCHANGED job
  /\ UNCHANGED <<run, refs, pods, billed, approval, queue, inbox, copies, crashes>>

Gate(w) ==
  LET j == J(w) IN
  /\ In(w, "exec", "gate")
  /\ \/ /\ j \notin Gated \/ approval[j] = "approved"
        /\ Goto(w, "provision") /\ UNCHANGED <<job, approval>>
     \/ /\ j \in Gated /\ approval[j] = "rejected"
        /\ SetJob(j, "Failure") /\ Return(w) /\ UNCHANGED approval
     \/ /\ j \in Gated /\ approval[j] \in {"none", "pending"}
        /\ approval' = [approval EXCEPT ![j] = "pending"]
        /\ Return(w) /\ UNCHANGED job
  /\ UNCHANGED <<run, refs, pods, billed, queue, inbox, copies, crashes>>

(* #provisionJobPod() returns the id of a pod or throws.                     *)
Provision(w) ==
  /\ In(w, "exec", "provision")
  /\ \/ /\ pods' = [pods EXCEPT ![J(w)] = @ + 1]
        /\ stack' = [stack EXCEPT ![w][1].at = "step", ![w][1].left = Steps[J(w)]]
     \/ /\ stack' = [stack EXCEPT ![w][1].at = "finish", ![w][1].ok = FALSE]
        /\ UNCHANGED pods
  /\ UNCHANGED <<run, refs, job, billed, approval, queue, inbox, copies, crashes>>

(* #executeSteps(): a step that throws ends the job unless it may.           *)
Step(w) ==
  /\ In(w, "exec", "step") /\ Top(w).left # <<>>
  /\ \E throws \in BOOLEAN :
       IF throws /\ ~Head(Top(w).left)
         THEN stack' = [stack EXCEPT ![w][1].left = <<>>, ![w][1].ok = FALSE]
         ELSE stack' = [stack EXCEPT ![w][1].left = Tail(@)]
  /\ UNCHANGED <<run, refs, job, pods, billed, approval, queue, inbox, copies, crashes>>

Finish(w) ==
  /\ \/ In(w, "exec", "finish")
     \/ In(w, "exec", "step") /\ Top(w).left = <<>>
  /\ SetJob(J(w), IF Top(w).ok THEN "Success" ELSE "Failure")
  /\ Goto(w, "bill")
  /\ UNCHANGED <<run, refs, pods, billed, approval, queue, inbox, copies, crashes>>

(* The billing, and after a success a look at every job of the run.          *)
Bill(w) ==
  /\ In(w, "exec", "bill")
  /\ billed' = billed \cup {J(w)}
  /\ stack' = [stack EXCEPT ![w] =
       (IF Top(w).ok THEN <<Ready(refs)>> ELSE <<>>) \o [@ EXCEPT ![1].at = "check"]]
  /\ UNCHANGED <<run, refs, job, pods, approval, queue, inbox, copies, crashes>>

\* Mutant: queued jobs do not count as unfinished.
UnfinishedRunning == {"Running"}

Unfinished == {"Queued", "Running"}

(* #checkWorkflowCompletion(): statuses, then the status of the run.         *)
Check(w) ==
  LET statuses == {job[j] : j \in Range(refs)} IN
  /\ In(w, "exec", "check")
  /\ IF statuses \cap Unfinished # {} THEN Return(w)
     ELSE stack' = [stack EXCEPT ![w][1].at = "close", ![w][1].ok = "Failure" \notin statuses]
  /\ UNCHANGED <<run, refs, job, pods, billed, approval, queue, inbox, copies, crashes>>

Close(w) ==
  /\ In(w, "exec", "close")
  /\ run' = IF run # "Pending" THEN run ELSE IF Top(w).ok THEN "Success" ELSE "Failure"
  /\ Return(w)
  /\ UNCHANGED <<refs, job, pods, billed, approval, queue, inbox, copies, crashes>>

-----------------------------------------------------------------------------
(* ApprovalService: request() before the job runs, decide().                 *)

RequestApproval(j) ==
  /\ j \in Gated /\ approval[j] = "none"
  /\ approval' = [approval EXCEPT ![j] = "pending"]
  /\ UNCHANGED <<run, refs, job, pods, billed, queue, stack, inbox, copies, crashes>>

Decide(j, decision) ==
  /\ approval[j] = "pending"
  /\ approval' = [approval EXCEPT ![j] = decision]
  /\ UNCHANGED <<run, refs, job, pods, billed, queue, stack, inbox, copies, crashes>>

Work(w) ==
  \/ CreateJobRun(w) \/ SaveRefs(w)
  \/ Look(w) \/ Skip(w) \/ Send(w) \/ Inline(w)
  \/ ReadJob(w) \/ Claim(w) \/ Gate(w) \/ Provision(w) \/ Step(w) \/ Finish(w)
  \/ Bill(w) \/ Check(w) \/ Close(w)
  \/ Ack(w)

Next ==
  \/ \E w \in Workers : StartRun(w) \/ Work(w) \/ Crash(w) \/ \E j \in Jobs : Deliver(w, j)
  \/ \E j \in Jobs : Duplicate(j) \/ RequestApproval(j)
  \/ \E j \in Jobs, d \in {"approved", "rejected"} : Decide(j, d)

(* A call that was made returns, and the queue delivers what it holds.       *)
Fairness ==
  /\ \A w \in Workers : WF_vars(Work(w))
  /\ \A j \in Jobs : WF_vars(\E w \in Workers : Deliver(w, j))

Spec == Init /\ [][Next]_vars /\ Fairness

-----------------------------------------------------------------------------
(* However often a message is delivered and wherever a worker goes, a job    *)
(* is provisioned once, and only after its needs succeeded.                  *)
StartedOnce ==
  \A j \in Jobs :
    /\ pods[j] <= 1
    /\ job[j] \in {"Running", "Success"} => DepStatuses(j) \subseteq {"Success"}
    /\ job[j] = "Success" /\ j \in Gated => approval[j] = "approved"

(* A run is closed once, when no job of it is left, and with the outcome of  *)
(* its jobs; what a job has come to does not change again.                   *)
CompletionAgrees ==
  /\ run' \in {"Success", "Failure"} =>
       /\ {job'[j] : j \in Jobs} \subseteq Done
       /\ (run' = "Failure") <=> (\E j \in Jobs : job'[j] = "Failure")
       /\ run \in {"Pending", run'}
  /\ \A j \in Jobs : job[j] \in Done => job'[j] = job[j]

\* The same of every step.
ClosedOnce == [][CompletionAgrees]_vars

(* What keeps a run from completing: a failed job, a worker that went, a job *)
(* that met its gate before it was approved and that nobody executes.        *)
Parked(j) ==
  /\ job[j] = "Running"
  /\ \A w \in Workers : \A k \in DOMAIN stack[w] :
       stack[w][k].call = "exec" => stack[w][k].todo # <<j>>

Hindered ==
  \/ crashes > 0
  \/ \E j \in Jobs : job[j] = "Failure" \/ Parked(j)

(* A run none of whose jobs fails or is parked completes.                    *)
Waits == run = "Pending"
Over == run = "Success" \/ Hindered
=============================================================================
