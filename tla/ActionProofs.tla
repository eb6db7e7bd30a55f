---------------------------- MODULE ActionProofs ----------------------------
(***************************************************************************)
(* The runs of the actions feature: what WorkflowRunner promises of a run  *)
(* of a workflow, for any jobs, needs, workers, duplicates and crashes,    *)
(* and DagScheduler of the runs of a DAG, for any tasks, trigger rules,    *)
(* overlapping ticks and reads of any age.                                 *)
(***************************************************************************)
EXTENDS WorkflowRunner, DagScheduler, SequenceTheorems, FiniteSetTheorems, WellFoundedInduction, TLAPS

-----------------------------------------------------------------------------
(* The workflow.  Who has claimed a job owns it alone until it has ended,  *)
(* and a worker that does anything for a job does it because the needs of  *)
(* the job have succeeded, which they do not take back.                    *)

\* A workflow whose jobs need jobs of it.
Definition == /\ JobSeq \in Seq(Jobs)
              /\ Needs \in [Jobs -> SUBSET Jobs]
              /\ Steps \in [Jobs -> Seq(BOOLEAN)]
              /\ Gated \subseteq Jobs

Frame == [call : {"start"}, at : {"jobs"}, todo : Seq(Jobs)]
    \cup [call : {"ready"}, at : {"look", "skip", "send"}, todo : Seq(Jobs)]
    \cup [call : {"exec"}, todo : Seq(Jobs) \ {<<>>}, ok : BOOLEAN, left : Seq(BOOLEAN),
          at : {"read", "claim", "gate", "provision", "step", "finish", "bill", "check", "close"}]

Typed ==
  /\ run \in {"absent", "Pending", "Success", "Failure"}
  /\ refs \in Seq(Jobs)
  /\ job \in [Jobs -> Done \cup {"absent", "Queued", "Running"}]
  /\ pods \in [Jobs -> Nat]
  /\ approval \in [Jobs -> {"none", "pending", "approved", "rejected"}]
  /\ queue \in [Jobs -> Nat]
  /\ inbox \in [Workers -> SUBSET Jobs]
  /\ stack \in [Workers -> Seq(Frame)]

Cleared(j) == \A n \in Needs[j] : job[n] = "Success"
Failed == \E j \in Jobs : job[j] = "Failure"
AllDone == \A j \in Jobs : job[j] \in Done

\* Before and after the jobs of the run have been created.
Fresh == \A j \in Jobs : job[j] \in {"absent", "Queued"} /\ pods[j] = 0 /\ queue[j] = 0
Prepared == refs = JobSeq /\ \A j \in Jobs : job[j] # "absent"

\* A call that waits for the one above it.
Resting(f) == \/ f.call = "ready" /\ f.at = "look"
              \/ f.call = "exec" /\ f.at = "check"

\* What a call knows of the job it is about.
Doing(f, places) == f.call = "exec" /\ f.at \in places
Knows(f) ==
  /\ f.call = "start" => \A j \in Jobs : job[j] = "absent" => \E k \in DOMAIN f.todo : f.todo[k] = j
  /\ f.call = "ready" /\ f.at = "skip" => f.todo # <<>> /\ \E n \in Needs[f.todo[1]] : job[n] = "Failure"
  /\ f.call = "ready" /\ f.at = "send" => f.todo # <<>> /\ Cleared(f.todo[1])
  /\ Doing(f, {"read", "claim", "gate", "provision", "step", "finish"}) => Cleared(f.todo[1])
  /\ Doing(f, {"gate", "provision", "step", "finish"}) => job[f.todo[1]] = "Running"
  /\ Doing(f, {"gate", "provision"}) => pods[f.todo[1]] = 0
  /\ Doing(f, {"provision", "step", "finish"}) /\ f.todo[1] \in Gated => approval[f.todo[1]] = "approved"
  /\ Doing(f, {"close"}) => AllDone /\ (f.ok => ~Failed) /\ (~f.ok => Failed)

Owns(f, j) == Doing(f, {"gate", "provision", "step", "finish"}) /\ f.todo[1] = j

Calls ==
  \A w \in Workers : stack[w] # <<>> =>
    /\ \A k \in 2 .. Len(stack[w]) : Resting(stack[w][k])
    /\ Knows(stack[w][1])
    /\ run # "absent"
    /\ stack[w][1].call # "start" => Prepared
    /\ stack[w][1].call = "start" => Fresh /\ \A v \in Workers : inbox[v] = {} /\ (v # w => stack[v] = <<>>)

Alone ==
  \A v, w \in Workers : \A j \in Jobs :
    stack[v] # <<>> /\ stack[w] # <<>> /\ Owns(stack[v][1], j) /\ Owns(stack[w][1], j) => v = w

Messages ==
  /\ \A j \in Jobs : queue[j] # 0 => Prepared /\ Cleared(j)
  /\ \A w \in Workers : \A j \in inbox[w] : Prepared /\ Cleared(j)
  /\ run = "absent" => Fresh /\ \A w \in Workers : inbox[w] = {}

JobOutcomes ==
  /\ \A j \in Jobs :
       /\ pods[j] <= 1
       /\ job[j] \in {"absent", "Queued"} => pods[j] = 0
       /\ job[j] \in {"Running", "Success", "Failure"} => Cleared(j)
       /\ job[j] = "Success" /\ j \in Gated => approval[j] = "approved"
  /\ run = "Success" => AllDone /\ ~Failed
  /\ run = "Failure" => AllDone /\ Failed

RunnerInv == Typed /\ Calls /\ Alone /\ Messages /\ JobOutcomes

-----------------------------------------------------------------------------
(* Stacks and frames                                                       *)

LEMMA TopIs ==
  ASSUME NEW w \in Workers, stack \in [Workers -> Seq(Frame)], stack[w] # <<>>
  PROVE  /\ Top(w) = stack[w][1] /\ Head(stack[w]) = stack[w][1] /\ stack[w][1] \in Frame
         /\ stack[w] \in Seq(Frame) /\ 1 \in 1 .. Len(stack[w]) /\ Len(stack[w]) \in Nat
         /\ stack[w][1].todo \in Seq(Jobs)
         /\ stack[w][1].todo # <<>> => /\ J(w) = stack[w][1].todo[1] /\ J(w) \in Jobs
                                       /\ Tail(stack[w][1].todo) \in Seq(Jobs)
<1>1. stack[w] \in Seq(Frame) /\ stack[w][1] \in Frame /\ 1 \in 1 .. Len(stack[w]) /\ Len(stack[w]) \in Nat
  OBVIOUS
<1>2. Top(w) = stack[w][1] /\ Head(stack[w]) = stack[w][1]
  BY <1>1 DEF Top
<1>3. stack[w][1].todo \in Seq(Jobs)
  BY <1>1 DEF Frame
<1>4. ASSUME stack[w][1].todo # <<>>
      PROVE  /\ J(w) = stack[w][1].todo[1] /\ J(w) \in Jobs
             /\ Tail(stack[w][1].todo) \in Seq(Jobs)
  BY <1>2, <1>3, <1>4 DEF J
<1>. QED  BY <1>1, <1>2, <1>3, <1>4

LEMMA TopReplaced ==
  ASSUME NEW S, NEW s \in Seq(S), s # <<>>, NEW f \in S, NEW t, t = [s EXCEPT ![1] = f]
  PROVE  /\ t \in Seq(S) /\ t # <<>> /\ Len(t) = Len(s) /\ t[1] = f
         /\ \A k \in 2 .. Len(t) : t[k] = s[k]
OBVIOUS

LEMMA Popped ==
  ASSUME NEW S, NEW s \in Seq(S), s # <<>>, NEW t, t = Tail(s)
  PROVE  /\ t \in Seq(S) /\ Len(t) = Len(s) - 1
         /\ \A k \in 1 .. Len(t) : k + 1 \in 2 .. Len(s) /\ t[k] = s[k + 1]
OBVIOUS

LEMMA Pushed ==
  ASSUME NEW S, NEW s \in Seq(S), NEW g \in S, NEW t, t = <<g>> \o s
  PROVE  /\ t \in Seq(S) /\ t # <<>> /\ Len(t) = Len(s) + 1 /\ t[1] = g
         /\ \A k \in 2 .. Len(t) : k - 1 \in 1 .. Len(s) /\ t[k] = s[k - 1]
OBVIOUS

LEMMA TailIn ==
  ASSUME NEW S, NEW s \in Seq(S), s # <<>>
  PROVE  Tail(s) \in Seq(S)
OBVIOUS

LEMMA ReadyFrame ==
  ASSUME NEW a \in {"look", "skip", "send"}, NEW l \in Seq(Jobs), NEW f,
         f = [call |-> "ready", at |-> a, todo |-> l]
  PROVE  f \in Frame /\ f.call = "ready" /\ f.at = a /\ f.todo = l
BY DEF Frame

LEMMA ExecFrame ==
  ASSUME NEW j \in Jobs, NEW f, f = Exec(j)
  PROVE  /\ f \in Frame /\ f.call = "exec" /\ f.at = "read" /\ f.todo = <<j>>
         /\ f.todo # <<>> /\ f.todo[1] = j
BY DEF Frame, Exec

LEMMA FrameAt ==
  ASSUME NEW f \in Frame, NEW a, NEW g, g = [f EXCEPT !.at = a]
  PROVE  /\ g.call = f.call /\ g.at = a /\ g.todo = f.todo
         /\ f.call = "ready" /\ a \in {"look", "skip", "send"} => g \in Frame
         /\ f.call = "exec" =>
               /\ g.ok = f.ok /\ g.left = f.left
               /\ a \in {"read", "claim", "gate", "provision", "step", "finish", "bill", "check", "close"}
                    => g \in Frame
<1>1. CASE f.call = "start"
  BY <1>1 DEF Frame
<1>2. CASE f.call = "ready"
  BY <1>2 DEF Frame
<1>3. CASE f.call = "exec"
  <2>1. f \in [call : {"exec"}, todo : Seq(Jobs) \ {<<>>}, ok : BOOLEAN, left : Seq(BOOLEAN),
          at : {"read", "claim", "gate", "provision", "step", "finish", "bill", "check", "close"}]
    BY <1>3 DEF Frame
  <2>. QED  BY <1>3, <2>1 DEF Frame
<1>. QED  BY <1>1, <1>2, <1>3 DEF Frame

-----------------------------------------------------------------------------
(* What a step leaves                                                      *)

\* What a job has come to stays, and so does an approval.
Lasting == /\ \A j \in Jobs : job[j] \in Done => job'[j] = job[j]
           /\ \A j \in Jobs : approval[j] = "approved" => approval'[j] = "approved"

\* A step that leaves alone the jobs the other workers have claimed.
Steady(w) ==
  /\ Lasting
  /\ \A v \in Workers : \A j \in Jobs :
       v # w /\ stack[v] # <<>> /\ Owns(stack[v][1], j) => job'[j] = job[j] /\ pods'[j] = pods[j]
  /\ Prepared => Prepared'
  /\ run # "absent" => run' # "absent"

LEMMA NeedsAreJobs ==
  ASSUME Definition, NEW j \in Jobs
  PROVE  Needs[j] \subseteq Jobs
BY DEF Definition

LEMMA ClearedStays ==
  ASSUME Definition, Lasting, NEW j \in Jobs, Cleared(j)
  PROVE  Cleared(j)'
BY NeedsAreJobs DEF Cleared, Lasting, Done

\* What another worker knows stays true.
LEMMA KnowsStays ==
  ASSUME Definition, Lasting, NEW f \in Frame, Knows(f), f.call # "start",
         \A j \in Jobs : Owns(f, j) => job'[j] = job[j] /\ pods'[j] = pods[j]
  PROVE  Knows(f)'
<1>1. f.todo \in Seq(Jobs) /\ (f.todo # <<>> => f.todo[1] \in Jobs)
  BY DEF Frame
<1>2. f.call = "exec" => f.todo # <<>>
  BY DEF Frame
<1>3. ASSUME f.call = "ready", f.at = "skip"
      PROVE  f.todo # <<>> /\ \E n \in Needs[f.todo[1]] : job'[n] = "Failure"
  <2>1. f.todo # <<>>
    BY <1>3 DEF Knows
  <2>2. PICK n \in Needs[f.todo[1]] : job[n] = "Failure"
    BY <1>3 DEF Knows
  <2>3. n \in Jobs
    BY <1>1, <2>1, NeedsAreJobs
  <2>. QED  BY <2>1, <2>2, <2>3 DEF Lasting, Done
<1>4. ASSUME f.call = "ready", f.at = "send"
      PROVE  f.todo # <<>> /\ Cleared(f.todo[1])'
  BY <1>1, <1>4, ClearedStays DEF Knows
<1>5. ASSUME Doing(f, {"read", "claim", "gate", "provision", "step", "finish"})
      PROVE  Cleared(f.todo[1])'
  BY <1>1, <1>2, <1>5, ClearedStays DEF Knows, Doing
<1>6. ASSUME Doing(f, {"gate", "provision", "step", "finish"})
      PROVE  job'[f.todo[1]] = "Running"
  BY <1>1, <1>2, <1>6 DEF Knows, Doing, Owns
<1>7. ASSUME Doing(f, {"gate", "provision"})
      PROVE  pods'[f.todo[1]] = 0
  BY <1>1, <1>2, <1>7 DEF Knows, Doing, Owns
<1>8. ASSUME Doing(f, {"provision", "step", "finish"}), f.todo[1] \in Gated
      PROVE  approval'[f.todo[1]] = "approved"
  BY <1>1, <1>2, <1>8 DEF Knows, Doing, Lasting
<1>9. ASSUME Doing(f, {"close"})
      PROVE  AllDone' /\ (f.ok => ~Failed') /\ (~f.ok => Failed')
  <2>1. AllDone /\ (f.ok => ~Failed) /\ (~f.ok => Failed)
    BY <1>9 DEF Knows
  <2>2. \A j \in Jobs : job'[j] = job[j]
    BY <2>1 DEF AllDone, Lasting
  <2>. QED  BY <2>1, <2>2 DEF AllDone, Failed
<1>. QED  BY <1>3, <1>4, <1>5, <1>6, <1>7, <1>8, <1>9 DEF Knows, Doing

\* The stack a worker goes on with.
GoesOn(w, t) ==
  /\ stack' = [stack EXCEPT ![w] = t]
  /\ t # <<>> =>
       /\ \A k \in 2 .. Len(t) : Resting(t[k])
       /\ Knows(t[1])'
       /\ run' # "absent" /\ Prepared' /\ t[1].call # "start"
       /\ \A j \in Jobs : Owns(t[1], j) =>
            job[j] = "Queued" \/ (stack[w] # <<>> /\ Owns(stack[w][1], j))

NoneStarts(w) == \A v \in Workers : v # w /\ stack[v] # <<>> => stack[v][1].call # "start"

LEMMA Turned ==
  ASSUME Definition, Typed, Calls, Alone, NEW w \in Workers, NEW t \in Seq(Frame),
         Steady(w), GoesOn(w, t), NoneStarts(w)
  PROVE  Calls' /\ Alone'
<1>1. stack'[w] = t /\ \A v \in Workers : v # w => stack'[v] = stack[v]
  BY DEF GoesOn, Typed
<1>2. ASSUME NEW v \in Workers, stack'[v] # <<>>
      PROVE  /\ \A k \in 2 .. Len(stack'[v]) : Resting(stack'[v][k])
             /\ Knows(stack[v][1])'
             /\ run' # "absent" /\ Prepared' /\ stack'[v][1].call # "start"
  <2>1. CASE v = w
    <3>1. Knows(t[1])'
      BY <1>1, <1>2, <2>1 DEF GoesOn
    <3>2. PICK s : s = stack'[v]
      OBVIOUS
    <3>3. s = t
      BY <3>2, <2>1, <1>1
    <3>4. Knows(s[1])'
      BY <3>1, <3>3
    <3>5. Knows(stack[v][1])'
      BY <3>4, <3>2 DEF Knows, Doing
    <3>. QED  BY <3>5, <1>1, <1>2, <2>1 DEF GoesOn
  <2>2. CASE v # w
    <3>1. stack'[v] = stack[v] /\ stack[v] # <<>>
      BY <1>1, <1>2, <2>2
    <3>2. PICK f : f = stack[v][1]
      OBVIOUS
    <3>3. f \in Frame
      BY <3>1, <3>2 DEF Typed
    <3>4. Knows(f) /\ f.call # "start" /\ Prepared /\ run # "absent"
      BY <3>1, <3>2, <2>2 DEF Calls, NoneStarts
    <3>5. \A j \in Jobs : Owns(f, j) => job'[j] = job[j] /\ pods'[j] = pods[j]
      BY <3>1, <3>2, <2>2 DEF Steady
    <3>6. Knows(f)'
      BY <3>3, <3>4, <3>5, KnowsStays DEF Steady
    <3>7. stack'[v][1] = f
      BY <3>1, <3>2
    <3>8. Knows(stack[v][1])'
      BY <3>6, <3>7 DEF Knows, Doing
    <3>9. Prepared' /\ run' # "absent"
      BY <3>4 DEF Steady
    <3>10. \A k \in 2 .. Len(stack'[v]) : Resting(stack'[v][k])
      BY <3>1 DEF Calls
    <3>. QED  BY <3>2, <3>4, <3>7, <3>8, <3>9, <3>10
  <2>. QED  BY <2>1, <2>2
<1>3. Calls'
  BY <1>2 DEF Calls
<1>4. ASSUME NEW v \in Workers, v # w, NEW j \in Jobs, stack'[v] # <<>>, t # <<>>,
             Owns(stack'[v][1], j), Owns(t[1], j)
      PROVE  FALSE
  <2>1. stack[v] # <<>> /\ Owns(stack[v][1], j)
    BY <1>1, <1>4
  <2>2. job[j] = "Running"
    BY <2>1 DEF Calls, Knows, Owns
  <2>3. stack[w] # <<>> /\ Owns(stack[w][1], j)
    BY <1>4, <2>2 DEF GoesOn
  <2>. QED  BY <1>4, <2>1, <2>3 DEF Alone
<1>5. ASSUME NEW u \in Workers, NEW v \in Workers, NEW j \in Jobs, stack'[u] # <<>>, stack'[v] # <<>>,
             Owns(stack'[u][1], j), Owns(stack'[v][1], j)
      PROVE  u = v
  <2>1. CASE u # w /\ v # w
    BY <2>1, <1>1, <1>5 DEF Alone
  <2>2. CASE u = w /\ v # w
    BY <2>2, <1>1, <1>4, <1>5
  <2>3. CASE u # w /\ v = w
    BY <2>3, <1>1, <1>4, <1>5
  <2>. QED  BY <2>1, <2>2, <2>3
<1>6. Alone'
  BY <1>5 DEF Alone, Owns, Doing
<1>. QED  BY <1>3, <1>6

-----------------------------------------------------------------------------
(* A worker in the middle of a call that is not startRun().                *)

Busy(w) == stack[w] # <<>> /\ stack[w][1].call # "start"

LEMMA BusyFacts ==
  ASSUME RunnerInv, NEW w \in Workers, Busy(w)
  PROVE  run # "absent" /\ Prepared /\ NoneStarts(w) /\ Knows(stack[w][1])
BY DEF RunnerInv, Calls, Busy, NoneStarts

LEMMA RestingKnows ==
  ASSUME NEW f, Resting(f)
  PROVE  Knows(f)' /\ f.call # "start" /\ \A j \in Jobs : ~Owns(f, j)
BY DEF Resting, Knows, Owns, Doing

\* It returns to the call below.
LEMMA Returned ==
  ASSUME RunnerInv, NEW w \in Workers, Busy(w),
         stack' = [stack EXCEPT ![w] = Tail(stack[w])], run' # "absent", Prepared'
  PROVE  \E t \in Seq(Frame) : GoesOn(w, t)
<1>1. PICK t : t = Tail(stack[w])
  OBVIOUS
<1>2. stack[w] \in Seq(Frame) /\ stack[w] # <<>>
  BY DEF RunnerInv, Typed, Busy
<1>3. t \in Seq(Frame) /\ \A k \in 1 .. Len(t) : k + 1 \in 2 .. Len(stack[w]) /\ t[k] = stack[w][k + 1]
  BY <1>1, <1>2, Popped
<1>4. \A k \in 1 .. Len(t) : Resting(t[k])
  BY <1>2, <1>3 DEF RunnerInv, Calls
<1>5. ASSUME t # <<>>
      PROVE  Resting(t[1]) /\ \A k \in 2 .. Len(t) : Resting(t[k])
  BY <1>3, <1>4, <1>5
<1>6. t # <<>> => Knows(t[1])' /\ t[1].call # "start" /\ \A j \in Jobs : ~Owns(t[1], j)
  BY <1>5, RestingKnows
<1>7. GoesOn(w, t)
  BY <1>1, <1>5, <1>6 DEF GoesOn
<1>. QED  BY <1>3, <1>7

\* The call goes on as g.
LEMMA Changed ==
  ASSUME RunnerInv, NEW w \in Workers, Busy(w), NEW g \in Frame,
         stack' = [stack EXCEPT ![w] = [stack[w] EXCEPT ![1] = g]], run' # "absent", Prepared',
         Knows(g)', g.call # "start",
         \A j \in Jobs : Owns(g, j) => job[j] = "Queued" \/ Owns(stack[w][1], j)
  PROVE  \E t \in Seq(Frame) : GoesOn(w, t)
<1>1. PICK t : t = [stack[w] EXCEPT ![1] = g]
  OBVIOUS
<1>2. stack[w] \in Seq(Frame) /\ stack[w] # <<>>
  BY DEF RunnerInv, Typed, Busy
<1>3. /\ t \in Seq(Frame) /\ t # <<>> /\ Len(t) = Len(stack[w]) /\ t[1] = g
      /\ \A k \in 2 .. Len(t) : t[k] = stack[w][k]
  BY <1>1, <1>2, TopReplaced
<1>4. \A k \in 2 .. Len(t) : Resting(t[k])
  BY <1>2, <1>3 DEF RunnerInv, Calls
<1>5. Knows(t[1])'
  BY <1>3
<1>6. GoesOn(w, t)
  BY <1>1, <1>2, <1>3, <1>4, <1>5 DEF GoesOn
<1>. QED  BY <1>3, <1>6

\* The call waits as g for a call h that it makes.
LEMMA Nested ==
  ASSUME RunnerInv, NEW w \in Workers, Busy(w), NEW g \in Frame, NEW h \in Frame, Resting(g),
         stack' = [stack EXCEPT ![w] = <<h>> \o [stack[w] EXCEPT ![1] = g]], run' # "absent", Prepared',
         Knows(h)', h.call # "start", \A j \in Jobs : ~Owns(h, j)
  PROVE  \E t \in Seq(Frame) : GoesOn(w, t)
<1>1. PICK s : s = [stack[w] EXCEPT ![1] = g]
  OBVIOUS
<1>2. stack[w] \in Seq(Frame) /\ stack[w] # <<>>
  BY DEF RunnerInv, Typed, Busy
<1>3. /\ s \in Seq(Frame) /\ s # <<>> /\ Len(s) = Len(stack[w]) /\ s[1] = g
      /\ \A k \in 2 .. Len(s) : s[k] = stack[w][k]
  BY <1>1, <1>2, TopReplaced
<1>4. \A k \in 1 .. Len(s) : Resting(s[k])
  <2>1. \A k \in 2 .. Len(stack[w]) : Resting(stack[w][k])
    BY <1>2 DEF RunnerInv, Calls
  <2>2. ASSUME NEW k \in 1 .. Len(s), k # 1
        PROVE  Resting(s[k])
    <3>1. k \in 2 .. Len(s)
      BY <2>2, <1>3
    <3>. QED  BY <3>1, <2>1, <1>3
  <2>. QED  BY <2>2, <1>3
<1>5. PICK t : t = <<h>> \o s
  OBVIOUS
<1>6. /\ t \in Seq(Frame) /\ t # <<>> /\ Len(t) = Len(s) + 1 /\ t[1] = h
      /\ \A k \in 2 .. Len(t) : k - 1 \in 1 .. Len(s) /\ t[k] = s[k - 1]
  BY <1>3, <1>5, Pushed
<1>7. \A k \in 2 .. Len(t) : Resting(t[k])
  BY <1>4, <1>6
<1>8. Knows(t[1])'
  BY <1>6
<1>9. stack' = [stack EXCEPT ![w] = t]
  BY <1>1, <1>5
<1>10. GoesOn(w, t)
  BY <1>6, <1>7, <1>8, <1>9 DEF GoesOn
<1>. QED  BY <1>6, <1>10

LEMMA Turns ==
  ASSUME Definition, RunnerInv, NEW w \in Workers, Busy(w), Steady(w),
         \E t \in Seq(Frame) : GoesOn(w, t)
  PROVE  Calls' /\ Alone' /\ stack' \in [Workers -> Seq(Frame)]
<1>1. PICK t \in Seq(Frame) : GoesOn(w, t)
  OBVIOUS
<1>2. stack' = [stack EXCEPT ![w] = t] /\ stack \in [Workers -> Seq(Frame)]
  BY <1>1 DEF GoesOn, RunnerInv, Typed
<1>3. stack' \in [Workers -> Seq(Frame)]
  BY <1>2
<1>4. Calls' /\ Alone'
  BY <1>1, BusyFacts, Turned DEF RunnerInv
<1>. QED  BY <1>3, <1>4

\* A step in which the worker only thinks.
Records == <<run, refs, job, pods, approval, queue, inbox>>

LEMMA Thought ==
  ASSUME Definition, RunnerInv, NEW w \in Workers, Busy(w), UNCHANGED Records,
         \E t \in Seq(Frame) : GoesOn(w, t)
  PROVE  RunnerInv' /\ Lasting
<1>1. Lasting
  BY DEF Lasting, Records
<1>2. Steady(w)
  BY <1>1 DEF Steady, Records, Prepared
<1>3. Calls' /\ Alone' /\ stack' \in [Workers -> Seq(Frame)]
  BY <1>2, Turns
<1>4. Typed'
  BY <1>3 DEF RunnerInv, Typed, Records
<1>5. Messages'
  BY DEF RunnerInv, Messages, Records, Prepared, Cleared, Fresh
<1>6. JobOutcomes'
  BY DEF RunnerInv, JobOutcomes, Records, Cleared, AllDone, Failed
<1>. QED  BY <1>1, <1>3, <1>4, <1>5, <1>6 DEF RunnerInv

-----------------------------------------------------------------------------
(* The steps that only change the calls of a worker                        *)

Kept == RunnerInv' /\ Lasting

LEMMA InFacts ==
  ASSUME RunnerInv, NEW w \in Workers, NEW c \in {"ready", "exec"}, NEW a, In(w, c, a)
  PROVE  /\ Busy(w) /\ stack[w][1].call = c /\ stack[w][1].at = a
         /\ Top(w) = stack[w][1] /\ stack[w][1] \in Frame /\ stack[w] \in Seq(Frame)
         /\ stack[w][1].todo \in Seq(Jobs)
         /\ c = "exec" => stack[w][1].todo # <<>> /\ stack[w][1].ok \in BOOLEAN
                          /\ stack[w][1].left \in Seq(BOOLEAN)
         /\ stack[w][1].todo # <<>> => /\ J(w) = stack[w][1].todo[1] /\ J(w) \in Jobs
                                       /\ Tail(stack[w][1].todo) \in Seq(Jobs)
<1>1. stack[w] # <<>> /\ stack \in [Workers -> Seq(Frame)]
  BY DEF In, RunnerInv, Typed
<1>2. PICK f : f = stack[w][1]
  OBVIOUS
<1>3. f \in Frame /\ Head(stack[w]) = f
  BY <1>1, <1>2
<1>4. f.call = c /\ f.at = a
  BY <1>3 DEF In
<1>5. c = "exec" => f.todo # <<>> /\ f.ok \in BOOLEAN /\ f.left \in Seq(BOOLEAN)
  BY <1>3, <1>4 DEF Frame
<1>. QED  BY <1>1, <1>2, <1>3, <1>4, <1>5, TopIs DEF Busy

LEMMA Still ==
  ASSUME RunnerInv, UNCHANGED Records
  PROVE  /\ Prepared => Prepared'
         /\ run # "absent" => run' # "absent"
         /\ \A f : f.call # "start" /\ Knows(f) => Knows(f)'
BY DEF Records, Prepared, Knows, Doing, Cleared, AllDone, Failed

LEMMA LookStep ==
  ASSUME Definition, RunnerInv, NEW w \in Workers, Look(w)
  PROVE  Kept
<1>1. In(w, "ready", "look") /\ UNCHANGED Records
  BY DEF Look, Records
<1>2. PICK f : f = stack[w][1]
  OBVIOUS
<1>3. /\ Busy(w) /\ f.call = "ready" /\ f.at = "look" /\ f \in Frame /\ Top(w) = f /\ f.todo \in Seq(Jobs)
      /\ f.todo # <<>> => J(w) = f.todo[1] /\ J(w) \in Jobs /\ Tail(f.todo) \in Seq(Jobs)
  BY <1>1, <1>2, InFacts
<1>4. run' # "absent" /\ Prepared'
  BY <1>1, <1>3, BusyFacts, Still
<1>5. CASE f.todo = <<>>
  <2>1. stack' = [stack EXCEPT ![w] = Tail(stack[w])]
    BY <1>3, <1>5 DEF Look, Return
  <2>. QED  BY <2>1, <1>1, <1>3, <1>4, Returned, Thought DEF Kept
<1>6. CASE f.todo # <<>> /\ Verdict(J(w)) = "next"
  <2>1. PICK g : g = [f EXCEPT !.todo = Tail(f.todo)]
    OBVIOUS
  <2>2. g.call = "ready" /\ g.at = "look" /\ g \in Frame
    BY <2>1, <1>3, <1>6 DEF Frame
  <2>3. stack' = [stack EXCEPT ![w] = [stack[w] EXCEPT ![1] = g]]
    BY <1>2, <1>3, <1>6, <2>1 DEF Look
  <2>4. Resting(g)
    BY <2>2 DEF Resting
  <2>5. Knows(g)' /\ \A j \in Jobs : ~Owns(g, j)
    BY <2>4, RestingKnows
  <2>6. \E t \in Seq(Frame) : GoesOn(w, t)
    BY <2>2, <2>3, <2>5, <1>3, <1>4, Changed
  <2>. QED  BY <2>6, <1>1, <1>3, Thought DEF Kept
<1>7. CASE f.todo # <<>> /\ Verdict(J(w)) # "next"
  <2>1. PICK a : a = Verdict(J(w))
    OBVIOUS
  <2>2. a \in {"skip", "send"} /\ (a = "skip" => "Failure" \in DepStatuses(J(w)))
        /\ (a = "send" => DepStatuses(J(w)) \subseteq {"Success"})
    BY <2>1, <1>7 DEF Verdict
  <2>3. PICK g : g = [f EXCEPT !.at = a]
    OBVIOUS
  <2>4. g.call = "ready" /\ g.at = a /\ g.todo = f.todo /\ g \in Frame
    BY <1>3, <2>2, <2>3, FrameAt
  <2>5. stack' = [stack EXCEPT ![w] = [stack[w] EXCEPT ![1] = g]]
    BY <1>2, <1>3, <1>7, <2>1, <2>3 DEF Look, Goto
  <2>6. Knows(g)
    BY <1>3, <1>7, <2>2, <2>4 DEF Knows, Doing, DepStatuses, Cleared
  <2>7. Knows(g)'
    BY <2>4, <2>6, <1>1, Still
  <2>8. \A j \in Jobs : ~Owns(g, j)
    BY <2>4 DEF Owns, Doing
  <2>9. \E t \in Seq(Frame) : GoesOn(w, t)
    BY <2>4, <2>5, <2>7, <2>8, <1>3, <1>4, Changed
  <2>. QED  BY <2>9, <1>1, <1>3, Thought DEF Kept
<1>. QED  BY <1>5, <1>6, <1>7

LEMMA PassedIs ==
  ASSUME NEW w \in Workers, stack \in [Workers -> Seq(Frame)], stack[w] # <<>>,
         stack[w][1].call = "ready", stack[w][1].todo # <<>>
  PROVE  \E g \in Frame : /\ g.call = "ready" /\ g.at = "look" /\ Resting(g)
                          /\ Passed(w) = [stack[w] EXCEPT ![1] = g]
<1>1. PICK f : f = stack[w][1]
  OBVIOUS
<1>2. f \in [call : {"ready"}, at : {"look", "skip", "send"}, todo : Seq(Jobs)]
  BY <1>1 DEF Frame
<1>3. PICK g : g = [f EXCEPT !.at = "look", !.todo = Tail(@)]
  OBVIOUS
<1>4. g.call = "ready" /\ g.at = "look"
  BY <1>2, <1>3
<1>5. Tail(f.todo) \in Seq(Jobs)
  BY <1>1, <1>2
<1>6. g = [call |-> "ready", at |-> "look", todo |-> Tail(f.todo)]
  BY <1>2, <1>3
<1>7. g \in Frame
  BY <1>5, <1>6 DEF Frame
<1>8. Passed(w) = [stack[w] EXCEPT ![1] = g]
  BY <1>1, <1>3 DEF Passed
<1>. QED  BY <1>4, <1>7, <1>8 DEF Resting

LEMMA InlineStep ==
  ASSUME Definition, RunnerInv, NEW w \in Workers, Inline(w)
  PROVE  Kept
<1>1. In(w, "ready", "send") /\ UNCHANGED Records
  BY DEF Inline, Records
<1>2. Busy(w) /\ stack[w][1].call = "ready" /\ stack[w][1].at = "send"
  BY <1>1, InFacts
<1>3. run' # "absent" /\ Prepared' /\ Knows(stack[w][1])
  BY <1>1, <1>2, BusyFacts, Still
<1>4. stack[w][1].todo # <<>> /\ Cleared(stack[w][1].todo[1])
  BY <1>2, <1>3 DEF Knows
<1>5. J(w) \in Jobs /\ J(w) = stack[w][1].todo[1]
  BY <1>1, <1>4, InFacts
<1>6. PICK g \in Frame : /\ g.call = "ready" /\ g.at = "look" /\ Resting(g)
                         /\ Passed(w) = [stack[w] EXCEPT ![1] = g]
  BY <1>2, <1>4, PassedIs DEF RunnerInv, Typed, Busy
<1>7. PICK h : h = Exec(J(w))
  OBVIOUS
<1>8. h \in Frame /\ h.call = "exec" /\ h.at = "read" /\ h.todo[1] = J(w)
  BY <1>5, <1>7, ExecFrame
<1>9. Knows(h)
  BY <1>4, <1>5, <1>8 DEF Knows, Doing
<1>10. Knows(h)' /\ \A j \in Jobs : ~Owns(h, j)
  BY <1>1, <1>8, <1>9, Still DEF Owns, Doing
<1>11. stack' = [stack EXCEPT ![w] = <<h>> \o [stack[w] EXCEPT ![1] = g]]
  BY <1>6, <1>7 DEF Inline
<1>12. \E t \in Seq(Frame) : GoesOn(w, t)
  BY <1>2, <1>3, <1>6, <1>8, <1>10, <1>11, Nested
<1>. QED  BY <1>1, <1>2, <1>12, Thought DEF Kept

LEMMA ReadJobStep ==
  ASSUME Definition, RunnerInv, NEW w \in Workers, ReadJob(w)
  PROVE  Kept
<1>1. In(w, "exec", "read") /\ UNCHANGED Records
  BY DEF ReadJob, Records
<1>2. PICK f : f = stack[w][1]
  OBVIOUS
<1>3. Busy(w) /\ f.call = "exec" /\ f.at = "read" /\ f \in Frame
  BY <1>1, <1>2, InFacts
<1>4. run' # "absent" /\ Prepared' /\ Knows(f)
  BY <1>1, <1>2, <1>3, BusyFacts, Still
<1>5. CASE job[J(w)] # "Queued"
  <2>1. stack' = [stack EXCEPT ![w] = Tail(stack[w])]
    BY <1>5 DEF ReadJob, Return
  <2>. QED  BY <2>1, <1>1, <1>3, <1>4, Returned, Thought DEF Kept
<1>6. CASE job[J(w)] = "Queued"
  <2>1. PICK g : g = [f EXCEPT !.at = "claim"]
    OBVIOUS
  <2>2. g.call = "exec" /\ g.at = "claim" /\ g.todo = f.todo /\ g \in Frame
    BY <1>3, <2>1, FrameAt
  <2>3. stack' = [stack EXCEPT ![w] = [stack[w] EXCEPT ![1] = g]]
    BY <1>2, <1>6, <2>1 DEF ReadJob, Goto
  <2>4. Knows(g)
    BY <1>3, <1>4, <2>2 DEF Knows, Doing
  <2>5. Knows(g)' /\ \A j \in Jobs : ~Owns(g, j)
    BY <1>1, <2>2, <2>4, Still DEF Owns, Doing
  <2>6. \E t \in Seq(Frame) : GoesOn(w, t)
    BY <2>2, <2>3, <2>5, <1>3, <1>4, Changed
  <2>. QED  BY <2>6, <1>1, <1>3, Thought DEF Kept
<1>. QED  BY <1>5, <1>6

\* A call that goes on to another step of the same job.
LEMMA SameJob ==
  ASSUME RunnerInv, NEW w \in Workers, Busy(w), UNCHANGED Records, NEW g \in Frame,
         stack' = [stack EXCEPT ![w] = [stack[w] EXCEPT ![1] = g]], g.call = "exec", Knows(g),
         \A j \in Jobs : Owns(g, j) => Owns(stack[w][1], j)
  PROVE  \E t \in Seq(Frame) : GoesOn(w, t)
<1>1. run' # "absent" /\ Prepared'
  BY BusyFacts, Still
<1>2. Knows(g)'
  BY Still
<1>. QED  BY <1>1, <1>2, Changed

LEMMA StepStep ==
  ASSUME Definition, RunnerInv, NEW w \in Workers, Step(w)
  PROVE  Kept
<1>1. In(w, "exec", "step") /\ UNCHANGED Records
  BY DEF Step, Records
<1>2. PICK f : f = stack[w][1]
  OBVIOUS
<1>3. /\ Busy(w) /\ f.call = "exec" /\ f.at = "step" /\ f \in Frame /\ Top(w) = f
      /\ f.left \in Seq(BOOLEAN) /\ f.todo # <<>> /\ f.todo \in Seq(Jobs) /\ f.ok \in BOOLEAN
  BY <1>1, <1>2, InFacts
<1>4. Knows(f)
  BY <1>2, <1>3, BusyFacts
<1>5. f \in [call : {"exec"}, todo : Seq(Jobs) \ {<<>>}, ok : BOOLEAN, left : Seq(BOOLEAN),
          at : {"read", "claim", "gate", "provision", "step", "finish", "bill", "check", "close"}]
  BY <1>3 DEF Frame
<1>6. \E g \in Frame : /\ g.call = "exec" /\ g.at = "step" /\ g.todo = f.todo
                       /\ stack' = [stack EXCEPT ![w] = [stack[w] EXCEPT ![1] = g]]
  <2>1. f.left # <<>> /\ \E throws \in BOOLEAN :
          IF throws /\ ~Head(f.left)
            THEN stack' = [stack EXCEPT ![w][1].left = <<>>, ![w][1].ok = FALSE]
            ELSE stack' = [stack EXCEPT ![w][1].left = Tail(@)]
    BY <1>3 DEF Step
  <2>2. CASE stack' = [stack EXCEPT ![w][1].left = <<>>, ![w][1].ok = FALSE]
    <3>1. PICK e : e = [f EXCEPT !.left = <<>>]
      OBVIOUS
    <3>2. PICK g : g = [e EXCEPT !.ok = FALSE]
      OBVIOUS
    <3>3. <<>> \in Seq(BOOLEAN)
      OBVIOUS
    <3>4. g = [call |-> "exec", todo |-> f.todo, ok |-> FALSE, left |-> <<>>, at |-> "step"]
      BY <1>3, <1>5, <3>1, <3>2
    <3>5. g \in Frame
      BY <1>3, <3>3, <3>4 DEF Frame
    <3>6. stack \in [Workers -> Seq(Frame)] /\ stack[w] \in Seq(Frame) /\ stack[w] # <<>>
      BY <1>3 DEF RunnerInv, Typed, Busy
    <3>7. PICK st : st = [stack EXCEPT ![w][1].left = <<>>]
      OBVIOUS
    <3>8. st = [stack EXCEPT ![w] = [stack[w] EXCEPT ![1] = e]]
      BY <1>2, <3>1, <3>7
    <3>9. st[w] = [stack[w] EXCEPT ![1] = e] /\ st[w][1] = e
      BY <3>6, <3>8
    <3>10. stack' = [st EXCEPT ![w] = [st[w] EXCEPT ![1] = g]]
      BY <2>2, <3>2, <3>7, <3>9
    <3>11. [st[w] EXCEPT ![1] = g] = [stack[w] EXCEPT ![1] = g]
      BY <3>6, <3>9
    <3>12. stack' = [stack EXCEPT ![w] = [stack[w] EXCEPT ![1] = g]]
      BY <3>6, <3>8, <3>10, <3>11
    <3>. QED  BY <3>4, <3>5, <3>12
  <2>3. CASE stack' = [stack EXCEPT ![w][1].left = Tail(@)]
    <3>1. PICK g : g = [f EXCEPT !.left = Tail(f.left)]
      OBVIOUS
    <3>2. PICK l : l = Tail(f.left)
      OBVIOUS
    <3>3. l \in Seq(BOOLEAN)
      BY <1>3, <2>1, <3>2, TailIn
    <3>4. g = [call |-> "exec", todo |-> f.todo, ok |-> f.ok, left |-> l, at |-> "step"]
      BY <1>3, <1>5, <3>1, <3>2
    <3>5. g \in Frame
      BY <1>3, <3>3, <3>4 DEF Frame
    <3>6. stack' = [stack EXCEPT ![w] = [stack[w] EXCEPT ![1] = g]]
      BY <1>2, <2>3, <3>1
    <3>. QED  BY <3>4, <3>5, <3>6
  <2>. QED  BY <2>1, <2>2, <2>3
<1>7. PICK g \in Frame : /\ g.call = "exec" /\ g.at = "step" /\ g.todo = f.todo
                         /\ stack' = [stack EXCEPT ![w] = [stack[w] EXCEPT ![1] = g]]
  BY <1>6
<1>8. Knows(g)
  BY <1>3, <1>4, <1>7 DEF Knows, Doing
<1>9. \A j \in Jobs : Owns(g, j) => Owns(stack[w][1], j)
  BY <1>2, <1>3, <1>7 DEF Owns, Doing
<1>10. \E t \in Seq(Frame) : GoesOn(w, t)
  BY <1>1, <1>3, <1>7, <1>8, <1>9, SameJob
<1>. QED  BY <1>1, <1>3, <1>10, Thought DEF Kept

LEMMA BillStep ==
  ASSUME Definition, RunnerInv, NEW w \in Workers, Bill(w)
  PROVE  Kept
<1>1. In(w, "exec", "bill") /\ UNCHANGED Records
  BY DEF Bill, Records
<1>2. PICK f : f = stack[w][1]
  OBVIOUS
<1>3. Busy(w) /\ f.call = "exec" /\ f.at = "bill" /\ f \in Frame /\ Top(w) = f /\ stack[w] \in Seq(Frame)
  BY <1>1, <1>2, InFacts
<1>4. run' # "absent" /\ Prepared'
  BY <1>1, <1>3, BusyFacts, Still
<1>5. PICK g : g = [f EXCEPT !.at = "check"]
  OBVIOUS
<1>6. g.call = "exec" /\ g.at = "check" /\ g \in Frame
  <2>1. f \in Frame /\ f.call = "exec"
    BY <1>3
  <2>. QED  BY <2>1, <1>5, FrameAt
<1>7. Resting(g)
  BY <1>6 DEF Resting
<1>8. PICK s : s = [stack[w] EXCEPT ![1] = g]
  OBVIOUS
<1>9. stack' = [stack EXCEPT ![w] = (IF f.ok THEN <<Ready(refs)>> ELSE <<>>) \o s]
  BY <1>2, <1>3, <1>5, <1>8 DEF Bill
<1>10. CASE f.ok
  <2>1. PICK h : h = Ready(refs)
    OBVIOUS
  <2>2. refs \in Seq(Jobs)
    BY DEF RunnerInv, Typed
  <2>3. h \in Frame /\ h.call = "ready" /\ h.at = "look"
    BY <2>1, <2>2, ReadyFrame DEF Ready
  <2>4. Resting(h)
    BY <2>3 DEF Resting
  <2>5. Knows(h)' /\ h.call # "start" /\ \A j \in Jobs : ~Owns(h, j)
    BY <2>4, RestingKnows
  <2>6. stack' = [stack EXCEPT ![w] = <<h>> \o [stack[w] EXCEPT ![1] = g]]
    BY <1>8, <1>9, <1>10, <2>1
  <2>7. \E t \in Seq(Frame) : GoesOn(w, t)
    BY <1>3, <1>4, <1>6, <1>7, <2>3, <2>5, <2>6, Nested
  <2>. QED  BY <1>1, <1>3, <2>7, Thought DEF Kept
<1>11. CASE ~f.ok
  <2>1. s \in Seq(Frame)
    BY <1>3, <1>6, <1>8, TopReplaced DEF Busy
  <2>2. <<>> \o s = s
    BY <2>1
  <2>3. stack' = [stack EXCEPT ![w] = [stack[w] EXCEPT ![1] = g]]
    BY <1>8, <1>9, <1>11, <2>2
  <2>4. Knows(g)' /\ g.call # "start" /\ \A j \in Jobs : ~Owns(g, j)
    BY <1>7, RestingKnows
  <2>5. \E t \in Seq(Frame) : GoesOn(w, t)
    BY <1>3, <1>4, <1>6, <2>3, <2>4, Changed
  <2>. QED  BY <1>1, <1>3, <2>5, Thought DEF Kept
<1>. QED  BY <1>10, <1>11

LEMMA CheckStep ==
  ASSUME Definition, RunnerInv, NEW w \in Workers, Check(w)
  PROVE  Kept
<1>1. In(w, "exec", "check") /\ UNCHANGED Records
  BY DEF Check, Records
<1>2. PICK f : f = stack[w][1]
  OBVIOUS
<1>3. Busy(w) /\ f.call = "exec" /\ f.at = "check" /\ f \in Frame
  BY <1>1, <1>2, InFacts
<1>4. run' # "absent" /\ Prepared' /\ Prepared
  BY <1>1, <1>3, BusyFacts, Still
<1>5. PICK statuses : statuses = {job[j] : j \in Range(refs)}
  OBVIOUS
<1>6. CASE statuses \cap Unfinished # {}
  <2>1. stack' = [stack EXCEPT ![w] = Tail(stack[w])]
    BY <1>5, <1>6 DEF Check, Return
  <2>. QED  BY <2>1, <1>1, <1>3, <1>4, Returned, Thought DEF Kept
<1>7. CASE statuses \cap Unfinished = {}
  <2>1. statuses = {job[j] : j \in Jobs}
    BY <1>4, <1>5 DEF Prepared, Jobs
  <2>2. \A j \in Jobs : job[j] \in Done
    <3>1. \A j \in Jobs : job[j] \in Done \cup {"absent", "Queued", "Running"}
      BY DEF RunnerInv, Typed
    <3>. QED  BY <3>1, <2>1, <1>4, <1>7 DEF Prepared, Unfinished
  <2>3. PICK fine \in BOOLEAN : fine = ("Failure" \notin statuses)
    OBVIOUS
  <2>4. PICK e : e = [f EXCEPT !.at = "close"]
    OBVIOUS
  <2>5. PICK g : g = [e EXCEPT !.ok = fine]
    OBVIOUS
  <2>6. f \in [call : {"exec"}, todo : Seq(Jobs) \ {<<>>}, ok : BOOLEAN, left : Seq(BOOLEAN),
          at : {"read", "claim", "gate", "provision", "step", "finish", "bill", "check", "close"}]
    BY <1>3 DEF Frame
  <2>7. g = [call |-> "exec", todo |-> f.todo, ok |-> fine, left |-> f.left, at |-> "close"]
    BY <2>4, <2>5, <2>6
  <2>8. g \in Frame /\ g.call = "exec" /\ g.at = "close" /\ g.ok = fine
    BY <2>6, <2>7 DEF Frame
  <2>9. stack \in [Workers -> Seq(Frame)] /\ stack[w] \in Seq(Frame) /\ stack[w] # <<>>
    BY <1>3 DEF RunnerInv, Typed, Busy
  <2>10. PICK st : st = [stack EXCEPT ![w][1].at = "close"]
    OBVIOUS
  <2>11. st = [stack EXCEPT ![w] = [stack[w] EXCEPT ![1] = e]]
    BY <1>2, <2>4, <2>10
  <2>12. st[w] = [stack[w] EXCEPT ![1] = e] /\ st[w][1] = e
    BY <2>9, <2>11
  <2>13. stack' = [st EXCEPT ![w] = [st[w] EXCEPT ![1] = g]]
    BY <1>5, <1>7, <2>3, <2>5, <2>10, <2>12 DEF Check
  <2>14. [st[w] EXCEPT ![1] = g] = [stack[w] EXCEPT ![1] = g]
    BY <2>9, <2>12
  <2>15. stack' = [stack EXCEPT ![w] = [stack[w] EXCEPT ![1] = g]]
    BY <2>9, <2>11, <2>13, <2>14
  <2>16. Knows(g)
    <3>1. AllDone
      BY <2>2 DEF AllDone
    <3>2. (g.ok => ~Failed) /\ (~g.ok => Failed)
      BY <2>1, <2>3, <2>8 DEF Failed
    <3>. QED  BY <3>1, <3>2, <2>8 DEF Knows, Doing
  <2>17. \A j \in Jobs : ~Owns(g, j)
    BY <2>8 DEF Owns, Doing
  <2>18. \E t \in Seq(Frame) : GoesOn(w, t)
    BY <1>1, <1>3, <2>8, <2>15, <2>16, <2>17, SameJob
  <2>. QED  BY <1>1, <1>3, <2>18, Thought DEF Kept
<1>. QED  BY <1>6, <1>7

-----------------------------------------------------------------------------
(* The steps that write records of the run                                 *)

LEMMA MessagesStay ==
  ASSUME Definition, RunnerInv, Lasting, run # "absent", run' # "absent", Prepared => Prepared',
         UNCHANGED <<queue, inbox>>
  PROVE  Messages'
<1>1. \A j \in Jobs : queue'[j] # 0 => Prepared' /\ Cleared(j)'
  BY ClearedStays DEF RunnerInv, Messages
<1>2. \A w \in Workers : \A j \in inbox'[w] : Prepared' /\ Cleared(j)'
  BY ClearedStays DEF RunnerInv, Messages, Typed
<1>. QED  BY <1>1, <1>2 DEF Messages

\* A job is claimed, skipped or ended by the worker that may.
LEMMA Settled ==
  ASSUME Definition, RunnerInv, Prepared, run # "absent", NEW w \in Workers,
         NEW j \in Jobs, NEW s \in Done \cup {"Running"},
         SetJob(j, s), UNCHANGED <<run, refs, pods, approval, queue, inbox>>,
         job[j] \notin Done \/ job[j] = s, s # "Skipped" => Cleared(j),
         s = "Success" /\ j \in Gated => approval[j] = "approved",
         \A v \in Workers : v # w /\ stack[v] # <<>> => ~Owns(stack[v][1], j)
  PROVE  /\ Steady(w) /\ Prepared' /\ Messages' /\ JobOutcomes'
         /\ job' \in [Jobs -> Done \cup {"absent", "Queued", "Running"}]
         /\ job'[j] = s
<1>1. job \in [Jobs -> Done \cup {"absent", "Queued", "Running"}]
  BY DEF RunnerInv, Typed
<1>2. job' \in [Jobs -> Done \cup {"absent", "Queued", "Running"}]
  BY <1>1 DEF SetJob
<1>3. job'[j] = s /\ \A k \in Jobs : k # j => job'[k] = job[k]
  BY <1>1 DEF SetJob
<1>4. Lasting
  BY <1>3 DEF Lasting
<1>5. Prepared'
  BY <1>3 DEF Prepared, Done
<1>6. \A v \in Workers : \A k \in Jobs :
       v # w /\ stack[v] # <<>> /\ Owns(stack[v][1], k) => job'[k] = job[k] /\ pods'[k] = pods[k]
  BY <1>3
<1>7. Steady(w)
  BY <1>4, <1>5, <1>6 DEF Steady
<1>8. Messages'
  BY <1>4, <1>5, MessagesStay
<1>9. ASSUME NEW k \in Jobs
      PROVE  /\ pods'[k] <= 1
             /\ job'[k] \in {"absent", "Queued"} => pods'[k] = 0
             /\ job'[k] \in {"Running", "Success", "Failure"} => Cleared(k)'
             /\ job'[k] = "Success" /\ k \in Gated => approval'[k] = "approved"
  <2>1. Cleared(k) => Cleared(k)'
    BY <1>4, ClearedStays
  <2>2. CASE k = j
    BY <2>1, <2>2, <1>3 DEF RunnerInv, JobOutcomes, Done
  <2>3. CASE k # j
    BY <2>1, <2>3, <1>3 DEF RunnerInv, JobOutcomes
  <2>. QED  BY <2>2, <2>3
<1>10. ASSUME run' \in {"Success", "Failure"}
       PROVE  job' = job
  <2>1. job[j] \in Done
    BY <1>10 DEF RunnerInv, JobOutcomes, AllDone
  <2>. QED  BY <2>1, <1>1, <1>2, <1>3
<1>11. /\ run' = "Success" => AllDone' /\ ~Failed'
       /\ run' = "Failure" => AllDone' /\ Failed'
  BY <1>10 DEF RunnerInv, JobOutcomes, AllDone, Failed
<1>12. JobOutcomes'
  BY <1>9, <1>11 DEF JobOutcomes
<1>. QED  BY <1>2, <1>3, <1>5, <1>7, <1>8, <1>12

\* What is left to show of a step that settles a job.
LEMMA Rest ==
  ASSUME Definition, RunnerInv, NEW w \in Workers, Busy(w), Steady(w), Messages', JobOutcomes',
         job' \in [Jobs -> Done \cup {"absent", "Queued", "Running"}],
         UNCHANGED <<run, refs, pods, approval, queue, inbox>>,
         \E t \in Seq(Frame) : GoesOn(w, t)
  PROVE  Kept
<1>1. Calls' /\ Alone' /\ stack' \in [Workers -> Seq(Frame)]
  BY Turns
<1>2. Typed'
  BY <1>1 DEF RunnerInv, Typed
<1>. QED  BY <1>1, <1>2 DEF Kept, RunnerInv, Steady

LEMMA SkipStep ==
  ASSUME Definition, RunnerInv, NEW w \in Workers, Skip(w)
  PROVE  Kept
<1>1. In(w, "ready", "skip")
  BY DEF Skip
<1>2. PICK j : j = J(w)
  OBVIOUS
<1>3. Busy(w) /\ stack[w][1].call = "ready" /\ stack[w][1].at = "skip"
  BY <1>1, InFacts
<1>4. Knows(stack[w][1]) /\ Prepared /\ run # "absent"
  BY <1>3, BusyFacts
<1>5. stack[w][1].todo # <<>> /\ \E n \in Needs[stack[w][1].todo[1]] : job[n] = "Failure"
  BY <1>3, <1>4 DEF Knows
<1>6. j \in Jobs /\ j = stack[w][1].todo[1]
  BY <1>1, <1>2, <1>5, InFacts
<1>7. ~Cleared(j)
  BY <1>5, <1>6 DEF Cleared
<1>8. \A v \in Workers : v # w /\ stack[v] # <<>> => ~Owns(stack[v][1], j)
  BY <1>7 DEF RunnerInv, Calls, Knows, Owns, Doing
<1>9. job[j] \notin Done \/ job[j] = "Skipped"
  BY <1>6, <1>7 DEF RunnerInv, JobOutcomes, Done
<1>10. SetJob(j, "Skipped") /\ UNCHANGED <<run, refs, pods, approval, queue, inbox>>
       /\ stack' = [stack EXCEPT ![w] = Passed(w)]
  BY <1>2 DEF Skip
<1>11. "Skipped" \in Done
  BY DEF Done
<1>12. /\ Steady(w) /\ Prepared' /\ Messages' /\ JobOutcomes'
       /\ job' \in [Jobs -> Done \cup {"absent", "Queued", "Running"}]
  <2>1. PICK s \in Done \cup {"Running"} : s = "Skipped"
    BY <1>11
  <2>2. SetJob(j, s) /\ (job[j] \notin Done \/ job[j] = s) /\ s # "Success"
    BY <2>1, <1>9, <1>10
  <2>. QED  BY <2>1, <2>2, <1>4, <1>6, <1>8, <1>10, Settled
<1>13. PICK g \in Frame : /\ g.call = "ready" /\ g.at = "look" /\ Resting(g)
                          /\ Passed(w) = [stack[w] EXCEPT ![1] = g]
  BY <1>3, <1>5, PassedIs DEF RunnerInv, Typed, Busy
<1>14. Knows(g)' /\ \A k \in Jobs : ~Owns(g, k)
  BY <1>13, RestingKnows
<1>15. run' # "absent"
  BY <1>4, <1>10
<1>16. stack' = [stack EXCEPT ![w] = [stack[w] EXCEPT ![1] = g]]
  BY <1>10, <1>13
<1>17. \E t \in Seq(Frame) : GoesOn(w, t)
  BY <1>3, <1>12, <1>13, <1>14, <1>15, <1>16, Changed
<1>. QED  BY <1>3, <1>10, <1>12, <1>17, Rest

LEMMA ClaimStep ==
  ASSUME Definition, RunnerInv, NEW w \in Workers, Claim(w)
  PROVE  Kept
<1>1. In(w, "exec", "claim")
  BY DEF Claim
<1>2. PICK f : f = stack[w][1]
  OBVIOUS
<1>3. Busy(w) /\ f.call = "exec" /\ f.at = "claim" /\ f \in Frame /\ f.todo # <<>>
  BY <1>1, <1>2, InFacts
<1>4. Knows(f) /\ Prepared /\ run # "absent"
  BY <1>2, <1>3, BusyFacts
<1>5. PICK j : j = J(w)
  OBVIOUS
<1>6. j \in Jobs /\ j = f.todo[1]
  BY <1>1, <1>2, <1>3, <1>5, InFacts
<1>7. Cleared(j)
  BY <1>3, <1>4, <1>6 DEF Knows, Doing
<1>8. UNCHANGED <<run, refs, pods, approval, queue, inbox>>
  BY DEF Claim
<1>9. CASE job[j] # "Queued"
  <2>1. stack' = [stack EXCEPT ![w] = Tail(stack[w])] /\ UNCHANGED Records
    BY <1>5, <1>8, <1>9 DEF Claim, Return, Records
  <2>2. run' # "absent" /\ Prepared'
    BY <2>1, <1>4, Still
  <2>. QED  BY <2>1, <2>2, <1>3, Returned, Thought DEF Kept
<1>10. CASE job[j] = "Queued"
  <2>1. SetJob(j, "Running") /\ Goto(w, "gate")
    BY <1>5, <1>10 DEF Claim
  <2>2. \A v \in Workers : v # w /\ stack[v] # <<>> => ~Owns(stack[v][1], j)
    BY <1>10 DEF RunnerInv, Calls, Knows, Owns, Doing
  <2>3. /\ Steady(w) /\ Prepared' /\ Messages' /\ JobOutcomes' /\ job'[j] = "Running"
        /\ job' \in [Jobs -> Done \cup {"absent", "Queued", "Running"}]
    <3>1. PICK s \in Done \cup {"Running"} : s = "Running"
      OBVIOUS
    <3>2. SetJob(j, s) /\ (job[j] \notin Done \/ job[j] = s) /\ s # "Success"
      BY <3>1, <2>1, <1>10 DEF Done
    <3>. QED  BY <3>1, <3>2, <2>2, <1>4, <1>6, <1>7, <1>8, Settled
  <2>4. PICK g : g = [f EXCEPT !.at = "gate"]
    OBVIOUS
  <2>5. g.call = "exec" /\ g.at = "gate" /\ g.todo = f.todo /\ g \in Frame
    <3>1. f \in Frame /\ f.call = "exec"
      BY <1>3
    <3>. QED  BY <3>1, <2>4, FrameAt
  <2>6. stack' = [stack EXCEPT ![w] = [stack[w] EXCEPT ![1] = g]]
    BY <1>2, <2>1, <2>4 DEF Goto
  <2>7. Cleared(j)'
    BY <1>6, <1>7, <2>3, ClearedStays DEF Steady
  <2>8. pods'[j] = 0
    BY <1>6, <1>8, <1>10 DEF RunnerInv, JobOutcomes
  <2>9. Knows(g)'
    BY <1>6, <2>3, <2>5, <2>7, <2>8 DEF Knows, Doing
  <2>10. \A k \in Jobs : Owns(g, k) => job[k] = "Queued"
    BY <1>6, <1>10, <2>5 DEF Owns
  <2>11. run' # "absent"
    BY <1>4, <1>8
  <2>12. \E t \in Seq(Frame) : GoesOn(w, t)
    BY <1>3, <2>3, <2>5, <2>6, <2>9, <2>10, <2>11, Changed
  <2>. QED  BY <1>3, <1>8, <2>3, <2>12, Rest
<1>. QED  BY <1>9, <1>10

LEMMA FinishStep ==
  ASSUME Definition, RunnerInv, NEW w \in Workers, Finish(w)
  PROVE  Kept
<1>1. In(w, "exec", "finish") \/ In(w, "exec", "step")
  BY DEF Finish
<1>2. PICK f : f = stack[w][1]
  OBVIOUS
<1>3. /\ Busy(w) /\ f.call = "exec" /\ f.at \in {"step", "finish"} /\ f \in Frame
      /\ f.todo # <<>> /\ Top(w) = f /\ f.todo[1] \in Jobs /\ J(w) = f.todo[1]
  BY <1>1, <1>2, InFacts
<1>4. Knows(f) /\ Prepared /\ run # "absent"
  BY <1>2, <1>3, BusyFacts
<1>5. PICK j : j = J(w)
  OBVIOUS
<1>6. j \in Jobs /\ j = f.todo[1]
  BY <1>3, <1>5
<1>7. Cleared(j) /\ job[j] = "Running" /\ (j \in Gated => approval[j] = "approved") /\ Owns(f, j)
  BY <1>3, <1>4, <1>6 DEF Knows, Doing, Owns
<1>8. UNCHANGED <<run, refs, pods, approval, queue, inbox>> /\ Goto(w, "bill")
  BY DEF Finish
<1>9. \A v \in Workers : v # w /\ stack[v] # <<>> => ~Owns(stack[v][1], j)
  BY <1>2, <1>3, <1>6, <1>7 DEF RunnerInv, Alone, Busy
<1>10. PICK s \in Done \cup {"Running"} : s = (IF f.ok THEN "Success" ELSE "Failure")
  BY DEF Done
<1>11. SetJob(j, s) /\ s # "Skipped"
  BY <1>3, <1>5, <1>10 DEF Finish
<1>12. job[j] \notin Done
  BY <1>7 DEF Done
<1>13. /\ Steady(w) /\ Prepared' /\ Messages' /\ JobOutcomes'
       /\ job' \in [Jobs -> Done \cup {"absent", "Queued", "Running"}]
  BY <1>4, <1>6, <1>7, <1>8, <1>9, <1>11, <1>12, Settled
<1>14. PICK g : g = [f EXCEPT !.at = "bill"]
  OBVIOUS
<1>15. g.call = "exec" /\ g.at = "bill" /\ g \in Frame
  <2>1. f \in Frame /\ f.call = "exec"
    BY <1>3
  <2>. QED  BY <2>1, <1>14, FrameAt
<1>16. stack' = [stack EXCEPT ![w] = [stack[w] EXCEPT ![1] = g]]
  BY <1>2, <1>8, <1>14 DEF Goto
<1>17. Knows(g)' /\ \A k \in Jobs : ~Owns(g, k)
  BY <1>15 DEF Knows, Doing, Owns
<1>18. run' # "absent"
  BY <1>4, <1>8
<1>19. \E t \in Seq(Frame) : GoesOn(w, t)
  BY <1>3, <1>13, <1>15, <1>16, <1>17, <1>18, Changed
<1>. QED  BY <1>3, <1>8, <1>13, <1>19, Rest

\* An approval is asked for or given where none was.
LEMMA ApprovalSet ==
  ASSUME Definition, RunnerInv, NEW j \in Jobs, NEW s \in {"pending", "approved", "rejected"},
         approval' = [approval EXCEPT ![j] = s], approval[j] # "approved" \/ s = "approved",
         UNCHANGED <<run, refs, job, pods, queue, inbox>>
  PROVE  /\ Lasting /\ Messages' /\ JobOutcomes'
         /\ approval' \in [Jobs -> {"none", "pending", "approved", "rejected"}]
         /\ Prepared => Prepared'
<1>1. approval \in [Jobs -> {"none", "pending", "approved", "rejected"}]
  BY DEF RunnerInv, Typed
<1>2. approval' \in [Jobs -> {"none", "pending", "approved", "rejected"}]
  BY <1>1
<1>3. \A k \in Jobs : approval[k] = "approved" => approval'[k] = "approved"
  BY <1>1
<1>4. Lasting
  BY <1>3 DEF Lasting
<1>5. Prepared => Prepared'
  BY DEF Prepared
<1>6. Messages'
  BY DEF RunnerInv, Messages, Prepared, Cleared, Fresh
<1>7. JobOutcomes'
  BY <1>3 DEF RunnerInv, JobOutcomes, Cleared, AllDone, Failed
<1>. QED  BY <1>2, <1>4, <1>5, <1>6, <1>7

LEMMA GateStep ==
  ASSUME Definition, RunnerInv, NEW w \in Workers, Gate(w)
  PROVE  Kept
<1>1. In(w, "exec", "gate")
  BY DEF Gate
<1>2. PICK f : f = stack[w][1]
  OBVIOUS
<1>3. /\ Busy(w) /\ f.call = "exec" /\ f.at = "gate" /\ f \in Frame
      /\ f.todo # <<>> /\ f.todo[1] \in Jobs /\ J(w) = f.todo[1]
  BY <1>1, <1>2, InFacts
<1>4. Knows(f) /\ Prepared /\ run # "absent"
  BY <1>2, <1>3, BusyFacts
<1>5. PICK j : j = J(w)
  OBVIOUS
<1>6. j \in Jobs /\ j = f.todo[1]
  BY <1>3, <1>5
<1>7. Cleared(j) /\ job[j] = "Running" /\ pods[j] = 0 /\ Owns(f, j)
  BY <1>3, <1>4, <1>6 DEF Knows, Doing, Owns
<1>8. UNCHANGED <<run, refs, pods, queue, inbox>>
  BY DEF Gate
<1>9. \/ (j \notin Gated \/ approval[j] = "approved") /\ Goto(w, "provision") /\ UNCHANGED <<job, approval>>
      \/ SetJob(j, "Failure") /\ Return(w) /\ UNCHANGED approval
      \/ /\ approval[j] # "approved" /\ approval' = [approval EXCEPT ![j] = "pending"]
         /\ Return(w) /\ UNCHANGED job
  BY <1>5 DEF Gate
<1>10. CASE (j \notin Gated \/ approval[j] = "approved") /\ Goto(w, "provision") /\ UNCHANGED <<job, approval>>
  <2>1. UNCHANGED Records
    BY <1>8, <1>10 DEF Records
  <2>2. PICK g : g = [f EXCEPT !.at = "provision"]
    OBVIOUS
  <2>3. g.call = "exec" /\ g.at = "provision" /\ g.todo = f.todo /\ g \in Frame
    <3>1. f \in Frame /\ f.call = "exec"
      BY <1>3
    <3>. QED  BY <3>1, <2>2, FrameAt
  <2>4. stack' = [stack EXCEPT ![w] = [stack[w] EXCEPT ![1] = g]]
    BY <1>2, <1>10, <2>2 DEF Goto
  <2>5. Knows(g)
    BY <1>6, <1>7, <1>10, <2>3 DEF Knows, Doing
  <2>6. \A k \in Jobs : Owns(g, k) => Owns(stack[w][1], k)
    BY <1>2, <1>3, <2>3 DEF Owns, Doing
  <2>7. \E t \in Seq(Frame) : GoesOn(w, t)
    BY <1>3, <2>1, <2>3, <2>4, <2>5, <2>6, SameJob
  <2>. QED  BY <1>3, <2>1, <2>7, Thought DEF Kept
<1>11. CASE SetJob(j, "Failure") /\ Return(w) /\ UNCHANGED approval
  <2>1. \A v \in Workers : v # w /\ stack[v] # <<>> => ~Owns(stack[v][1], j)
    BY <1>2, <1>3, <1>6, <1>7 DEF RunnerInv, Alone, Busy
  <2>2. PICK s \in Done \cup {"Running"} : s = "Failure"
    BY DEF Done
  <2>3. SetJob(j, s) /\ job[j] \notin Done /\ s # "Success"
    BY <1>7, <1>11, <2>2 DEF Done
  <2>4. UNCHANGED <<run, refs, pods, approval, queue, inbox>>
    BY <1>8, <1>11
  <2>5. /\ Steady(w) /\ Prepared' /\ Messages' /\ JobOutcomes'
        /\ job' \in [Jobs -> Done \cup {"absent", "Queued", "Running"}]
    BY <1>4, <1>6, <1>7, <2>1, <2>3, <2>4, Settled
  <2>6. stack' = [stack EXCEPT ![w] = Tail(stack[w])] /\ run' # "absent"
    BY <1>4, <1>8, <1>11 DEF Return
  <2>7. \E t \in Seq(Frame) : GoesOn(w, t)
    BY <1>3, <2>5, <2>6, Returned
  <2>. QED  BY <1>3, <2>4, <2>5, <2>7, Rest
<1>12. CASE /\ approval[j] # "approved" /\ approval' = [approval EXCEPT ![j] = "pending"]
            /\ Return(w) /\ UNCHANGED job
  <2>1. PICK s \in {"pending", "approved", "rejected"} : s = "pending"
    OBVIOUS
  <2>2. /\ Lasting /\ Messages' /\ JobOutcomes' /\ Prepared'
        /\ approval' \in [Jobs -> {"none", "pending", "approved", "rejected"}]
    BY <1>4, <1>6, <1>8, <1>12, <2>1, ApprovalSet
  <2>3. Steady(w)
    BY <1>8, <1>12, <2>2 DEF Steady
  <2>4. stack' = [stack EXCEPT ![w] = Tail(stack[w])] /\ run' # "absent"
    BY <1>4, <1>8, <1>12 DEF Return
  <2>5. \E t \in Seq(Frame) : GoesOn(w, t)
    BY <1>3, <2>2, <2>4, Returned
  <2>6. Calls' /\ Alone' /\ stack' \in [Workers -> Seq(Frame)]
    BY <1>3, <2>3, <2>5, Turns
  <2>7. Typed'
    BY <1>8, <1>12, <2>2, <2>6 DEF RunnerInv, Typed
  <2>. QED  BY <2>2, <2>6, <2>7 DEF Kept, RunnerInv
<1>. QED  BY <1>9, <1>10, <1>11, <1>12

LEMMA ProvisionStep ==
  ASSUME Definition, RunnerInv, NEW w \in Workers, Provision(w)
  PROVE  Kept
<1>1. In(w, "exec", "provision")
  BY DEF Provision
<1>2. PICK f : f = stack[w][1]
  OBVIOUS
<1>3. /\ Busy(w) /\ f.call = "exec" /\ f.at = "provision" /\ f \in Frame /\ f.ok \in BOOLEAN
      /\ f.left \in Seq(BOOLEAN)
      /\ f.todo # <<>> /\ f.todo[1] \in Jobs /\ J(w) = f.todo[1] /\ f.todo \in Seq(Jobs)
  BY <1>1, <1>2, InFacts
<1>4. Knows(f) /\ Prepared /\ run # "absent"
  BY <1>2, <1>3, BusyFacts
<1>5. PICK j : j = J(w)
  OBVIOUS
<1>6. j \in Jobs /\ j = f.todo[1]
  BY <1>3, <1>5
<1>7. /\ Cleared(j) /\ job[j] = "Running" /\ pods[j] = 0 /\ Owns(f, j)
      /\ j \in Gated => approval[j] = "approved"
  BY <1>3, <1>4, <1>6 DEF Knows, Doing, Owns
<1>8. UNCHANGED <<run, refs, job, approval, queue, inbox>>
  BY DEF Provision
<1>9. f \in [call : {"exec"}, todo : Seq(Jobs) \ {<<>>}, ok : BOOLEAN, left : Seq(BOOLEAN),
          at : {"read", "claim", "gate", "provision", "step", "finish", "bill", "check", "close"}]
  BY <1>3 DEF Frame
<1>10. stack \in [Workers -> Seq(Frame)] /\ stack[w] \in Seq(Frame) /\ stack[w] # <<>>
  BY <1>3 DEF RunnerInv, Typed, Busy
<1>11. Steps[j] \in Seq(BOOLEAN)
  BY <1>6 DEF Definition
<1>12. \/ /\ pods' = [pods EXCEPT ![j] = @ + 1]
          /\ stack' = [stack EXCEPT ![w][1].at = "step", ![w][1].left = Steps[j]]
       \/ /\ stack' = [stack EXCEPT ![w][1].at = "finish", ![w][1].ok = FALSE]
          /\ UNCHANGED pods
  BY <1>5 DEF Provision
<1>13. CASE /\ pods' = [pods EXCEPT ![j] = @ + 1]
            /\ stack' = [stack EXCEPT ![w][1].at = "step", ![w][1].left = Steps[j]]
  <2>1. PICK e : e = [f EXCEPT !.at = "step"]
    OBVIOUS
  <2>2. PICK g : g = [e EXCEPT !.left = Steps[j]]
    OBVIOUS
  <2>3. g = [call |-> "exec", todo |-> f.todo, ok |-> f.ok, left |-> Steps[j], at |-> "step"]
    BY <1>9, <2>1, <2>2
  <2>4. g \in Frame /\ g.call = "exec" /\ g.at = "step" /\ g.todo = f.todo
    BY <1>9, <1>11, <2>3 DEF Frame
  <2>5. PICK st : st = [stack EXCEPT ![w][1].at = "step"]
    OBVIOUS
  <2>6. st = [stack EXCEPT ![w] = [stack[w] EXCEPT ![1] = e]]
    BY <1>2, <2>1, <2>5
  <2>7. st[w] = [stack[w] EXCEPT ![1] = e] /\ st[w][1] = e
    BY <1>10, <2>6
  <2>8. stack' = [st EXCEPT ![w] = [st[w] EXCEPT ![1] = g]]
    BY <1>13, <2>2, <2>5, <2>7
  <2>9. [st[w] EXCEPT ![1] = g] = [stack[w] EXCEPT ![1] = g]
    BY <1>10, <2>7
  <2>10. stack' = [stack EXCEPT ![w] = [stack[w] EXCEPT ![1] = g]]
    BY <1>10, <2>6, <2>8, <2>9
  <2>11. pods \in [Jobs -> Nat]
    BY DEF RunnerInv, Typed
  <2>12. pods' \in [Jobs -> Nat] /\ pods'[j] = 1 /\ \A k \in Jobs : k # j => pods'[k] = pods[k]
    BY <1>6, <1>7, <1>13, <2>11
  <2>13. Lasting /\ Prepared'
    BY <1>4, <1>8 DEF Lasting, Prepared
  <2>14. \A v \in Workers : v # w /\ stack[v] # <<>> => ~Owns(stack[v][1], j)
    BY <1>2, <1>3, <1>6, <1>7 DEF RunnerInv, Alone, Busy
  <2>15. Steady(w)
    BY <1>8, <2>12, <2>13, <2>14 DEF Steady
  <2>16. Knows(g)'
    <3>1. Cleared(j)'
      BY <1>6, <1>7, <2>13, ClearedStays
    <3>2. job'[j] = "Running" /\ (j \in Gated => approval'[j] = "approved")
      BY <1>7, <1>8
    <3>. QED  BY <1>6, <2>4, <3>1, <3>2 DEF Knows, Doing
  <2>17. \A k \in Jobs : Owns(g, k) => Owns(stack[w][1], k)
    BY <1>2, <1>3, <2>4 DEF Owns, Doing
  <2>18. run' # "absent"
    BY <1>4, <1>8
  <2>19. \E t \in Seq(Frame) : GoesOn(w, t)
    BY <1>3, <2>4, <2>10, <2>13, <2>16, <2>17, <2>18, Changed
  <2>20. Calls' /\ Alone' /\ stack' \in [Workers -> Seq(Frame)]
    BY <1>3, <2>15, <2>19, Turns
  <2>21. Typed'
    BY <1>8, <2>12, <2>20 DEF RunnerInv, Typed
  <2>22. Messages'
    BY <1>4, <1>8, <2>13, MessagesStay
  <2>23. JobOutcomes'
    BY <1>6, <1>7, <1>8, <2>12 DEF RunnerInv, JobOutcomes, Cleared, AllDone, Failed
  <2>. QED  BY <2>13, <2>20, <2>21, <2>22, <2>23 DEF Kept, RunnerInv
<1>14. CASE /\ stack' = [stack EXCEPT ![w][1].at = "finish", ![w][1].ok = FALSE]
            /\ UNCHANGED pods
  <2>1. PICK e : e = [f EXCEPT !.at = "finish"]
    OBVIOUS
  <2>2. PICK g : g = [e EXCEPT !.ok = FALSE]
    OBVIOUS
  <2>3. g = [call |-> "exec", todo |-> f.todo, ok |-> FALSE, left |-> f.left, at |-> "finish"]
    BY <1>9, <2>1, <2>2
  <2>4. g \in Frame /\ g.call = "exec" /\ g.at = "finish" /\ g.todo = f.todo
    BY <1>9, <2>3 DEF Frame
  <2>5. PICK st : st = [stack EXCEPT ![w][1].at = "finish"]
    OBVIOUS
  <2>6. st = [stack EXCEPT ![w] = [stack[w] EXCEPT ![1] = e]]
    BY <1>2, <2>1, <2>5
  <2>7. st[w] = [stack[w] EXCEPT ![1] = e] /\ st[w][1] = e
    BY <1>10, <2>6
  <2>8. stack' = [st EXCEPT ![w] = [st[w] EXCEPT ![1] = g]]
    BY <1>14, <2>2, <2>5, <2>7
  <2>9. [st[w] EXCEPT ![1] = g] = [stack[w] EXCEPT ![1] = g]
    BY <1>10, <2>7
  <2>10. stack' = [stack EXCEPT ![w] = [stack[w] EXCEPT ![1] = g]]
    BY <1>10, <2>6, <2>8, <2>9
  <2>11. Knows(g)
    BY <1>6, <1>7, <2>4 DEF Knows, Doing
  <2>12. UNCHANGED Records
    BY <1>8, <1>14 DEF Records
  <2>13. \A k \in Jobs : Owns(g, k) => Owns(stack[w][1], k)
    BY <1>2, <1>3, <2>4 DEF Owns, Doing
  <2>14. \E t \in Seq(Frame) : GoesOn(w, t)
    BY <1>3, <2>4, <2>10, <2>11, <2>12, <2>13, SameJob
  <2>. QED  BY <1>3, <2>12, <2>14, Thought DEF Kept
<1>. QED  BY <1>12, <1>13, <1>14

LEMMA CloseStep ==
  ASSUME Definition, RunnerInv, NEW w \in Workers, Close(w)
  PROVE  Kept
<1>1. In(w, "exec", "close")
  BY DEF Close
<1>2. PICK f : f = stack[w][1]
  OBVIOUS
<1>3. Busy(w) /\ f.call = "exec" /\ f.at = "close" /\ f \in Frame /\ Top(w) = f /\ f.ok \in BOOLEAN
  BY <1>1, <1>2, InFacts
<1>4. Knows(f) /\ Prepared /\ run # "absent"
  BY <1>2, <1>3, BusyFacts
<1>5. AllDone /\ (f.ok => ~Failed) /\ (~f.ok => Failed)
  BY <1>3, <1>4 DEF Knows, Doing
<1>6. UNCHANGED <<refs, job, pods, approval, queue, inbox>>
      /\ stack' = [stack EXCEPT ![w] = Tail(stack[w])]
  BY DEF Close, Return
<1>7. run' = IF run # "Pending" THEN run ELSE IF f.ok THEN "Success" ELSE "Failure"
  BY <1>3 DEF Close
<1>8. run' \in {"Success", "Failure"}
  BY <1>4, <1>7 DEF RunnerInv, Typed
<1>9. Lasting /\ Prepared'
  BY <1>4, <1>6 DEF Lasting, Prepared
<1>10. Steady(w)
  BY <1>6, <1>8, <1>9 DEF Steady
<1>11. \E t \in Seq(Frame) : GoesOn(w, t)
  BY <1>3, <1>6, <1>8, <1>9, Returned
<1>12. Calls' /\ Alone' /\ stack' \in [Workers -> Seq(Frame)]
  BY <1>3, <1>10, <1>11, Turns
<1>13. Typed'
  BY <1>6, <1>8, <1>12 DEF RunnerInv, Typed
<1>14. Messages'
  BY <1>4, <1>6, <1>8, <1>9, MessagesStay
<1>15. JobOutcomes'
  <2>1. /\ run' = "Success" => AllDone /\ ~Failed
        /\ run' = "Failure" => AllDone /\ Failed
    BY <1>5, <1>7 DEF RunnerInv, JobOutcomes
  <2>. QED  BY <1>6, <2>1 DEF RunnerInv, JobOutcomes, Cleared, AllDone, Failed
<1>. QED  BY <1>9, <1>12, <1>13, <1>14, <1>15 DEF Kept, RunnerInv

-----------------------------------------------------------------------------
(* Messages, crashes and approvals                                         *)

LEMMA SendStep ==
  ASSUME Definition, RunnerInv, NEW w \in Workers, Send(w)
  PROVE  Kept
<1>1. In(w, "ready", "send")
  BY DEF Send
<1>2. Busy(w) /\ stack[w][1].call = "ready" /\ stack[w][1].at = "send"
  BY <1>1, InFacts
<1>3. Knows(stack[w][1]) /\ Prepared /\ run # "absent"
  BY <1>2, BusyFacts
<1>4. stack[w][1].todo # <<>> /\ Cleared(stack[w][1].todo[1])
  BY <1>2, <1>3 DEF Knows
<1>5. PICK j : j = J(w)
  OBVIOUS
<1>6. j \in Jobs /\ Cleared(j)
  BY <1>1, <1>4, <1>5, InFacts
<1>7. /\ UNCHANGED <<run, refs, job, pods, approval, inbox>>
      /\ queue' = [queue EXCEPT ![j] = @ + 1]
      /\ stack' = [stack EXCEPT ![w] = Passed(w)]
  BY <1>5 DEF Send
<1>8. PICK g \in Frame : /\ g.call = "ready" /\ g.at = "look" /\ Resting(g)
                         /\ Passed(w) = [stack[w] EXCEPT ![1] = g]
  BY <1>2, <1>4, PassedIs DEF RunnerInv, Typed, Busy
<1>9. Lasting /\ Prepared' /\ run' # "absent"
  BY <1>3, <1>7 DEF Lasting, Prepared
<1>10. Steady(w)
  BY <1>7, <1>9 DEF Steady
<1>11. Knows(g)' /\ \A k \in Jobs : ~Owns(g, k)
  BY <1>8, RestingKnows
<1>12. stack' = [stack EXCEPT ![w] = [stack[w] EXCEPT ![1] = g]]
  BY <1>7, <1>8
<1>13. \E t \in Seq(Frame) : GoesOn(w, t)
  BY <1>2, <1>8, <1>9, <1>11, <1>12, Changed
<1>14. Calls' /\ Alone' /\ stack' \in [Workers -> Seq(Frame)]
  BY <1>2, <1>10, <1>13, Turns
<1>15. queue' \in [Jobs -> Nat] /\ \A k \in Jobs : queue'[k] # 0 => queue[k] # 0 \/ k = j
  BY <1>6, <1>7 DEF RunnerInv, Typed
<1>16. Typed'
  BY <1>7, <1>14, <1>15 DEF RunnerInv, Typed
<1>17. \A k \in Jobs : Cleared(k)' <=> Cleared(k)
  BY <1>7 DEF Cleared
<1>18. Messages'
  BY <1>6, <1>7, <1>9, <1>15, <1>17 DEF RunnerInv, Messages, Typed
<1>19. JobOutcomes'
  BY <1>7 DEF RunnerInv, JobOutcomes, Cleared, AllDone, Failed
<1>. QED  BY <1>9, <1>14, <1>16, <1>18, <1>19 DEF Kept, RunnerInv

\* startRun() in progress has the run for itself.
LEMMA StartsAlone ==
  ASSUME RunnerInv, NEW v \in Workers, stack[v] # <<>>, stack[v][1].call = "start"
  PROVE  /\ \A w \in Workers : inbox[w] = {} /\ (w # v => stack[w] = <<>>)
         /\ \A j \in Jobs : queue[j] = 0
         /\ Fresh /\ run # "absent"
BY DEF RunnerInv, Calls, Fresh

LEMMA DeliverStep ==
  ASSUME Definition, RunnerInv, NEW w \in Workers, NEW j \in Jobs, Deliver(w, j)
  PROVE  Kept
<1>1. /\ stack[w] = <<>> /\ inbox[w] = {} /\ queue[j] # 0
      /\ queue' = [queue EXCEPT ![j] = @ - 1]
      /\ inbox' = [inbox EXCEPT ![w] = {j}]
      /\ stack' = [stack EXCEPT ![w] = <<Exec(j)>>]
      /\ UNCHANGED <<run, refs, job, pods, approval>>
  BY DEF Deliver
<1>2. Prepared /\ Cleared(j) /\ run # "absent"
  BY <1>1 DEF RunnerInv, Messages, Fresh
<1>3. Lasting /\ Prepared' /\ run' # "absent"
  BY <1>1, <1>2 DEF Lasting, Prepared
<1>4. Steady(w)
  BY <1>1, <1>3 DEF Steady
<1>5. NoneStarts(w)
  BY <1>1, StartsAlone DEF NoneStarts
<1>6. PICK h : h = Exec(j)
  OBVIOUS
<1>7. h \in Frame /\ h.call = "exec" /\ h.at = "read" /\ h.todo[1] = j
  BY <1>6, ExecFrame
<1>8. PICK t : t = <<h>>
  OBVIOUS
<1>9. t \in Seq(Frame) /\ t # <<>> /\ Len(t) = 1 /\ t[1] = h
  BY <1>7, <1>8
<1>10. \A k \in Jobs : Cleared(k)' <=> Cleared(k)
  BY <1>1 DEF Cleared
<1>11. Knows(h)'
  BY <1>2, <1>7, <1>10 DEF Knows, Doing
<1>12. Knows(t[1])' /\ t[1].call # "start" /\ \A k \in Jobs : ~Owns(t[1], k)
  BY <1>7, <1>9, <1>11 DEF Owns, Doing
<1>13. GoesOn(w, t)
  BY <1>1, <1>3, <1>6, <1>8, <1>9, <1>12 DEF GoesOn
<1>14. Calls' /\ Alone'
  BY <1>4, <1>5, <1>9, <1>13, Turned DEF RunnerInv
<1>15. stack' \in [Workers -> Seq(Frame)]
  BY <1>1, <1>6, <1>8, <1>9 DEF RunnerInv, Typed
<1>16. queue \in [Jobs -> Nat]
  BY DEF RunnerInv, Typed
<1>17. queue' \in [Jobs -> Nat] /\ \A k \in Jobs : queue'[k] # 0 => queue[k] # 0
  <2>1. queue[j] - 1 \in Nat
    BY <1>1, <1>16
  <2>2. queue' = [queue EXCEPT ![j] = queue[j] - 1] /\ queue[j] # 0
    BY <1>1
  <2>3. \A k \in Jobs : queue'[k] = IF k = j THEN queue[j] - 1 ELSE queue[k]
    BY <1>16, <2>2
  <2>4. queue' \in [Jobs -> Nat]
    BY <1>16, <2>1, <2>2
  <2>. QED  BY <2>2, <2>3, <2>4
<1>18. inbox' \in [Workers -> SUBSET Jobs] /\ \A v \in Workers : inbox'[v] \subseteq inbox[v] \cup {j}
  BY <1>1 DEF RunnerInv, Typed
<1>19. Typed'
  BY <1>1, <1>15, <1>17, <1>18 DEF RunnerInv, Typed
<1>20. \A v \in Workers : \A k \in inbox'[v] : Cleared(k)'
  <2>. SUFFICES ASSUME NEW v \in Workers, NEW k \in inbox'[v]
                PROVE  Cleared(k)'
    OBVIOUS
  <2>1. k \in inbox[v] \/ k = j
    BY <1>18
  <2>2. k \in Jobs
    BY <1>18
  <2>3. Cleared(k)
    BY <2>1, <1>2 DEF RunnerInv, Messages
  <2>. QED  BY <2>2, <2>3, <1>10
<1>21. Messages'
  BY <1>3, <1>10, <1>17, <1>20 DEF RunnerInv, Messages
<1>22. JobOutcomes'
  BY <1>1 DEF RunnerInv, JobOutcomes, Cleared, AllDone, Failed
<1>. QED  BY <1>3, <1>14, <1>19, <1>21, <1>22 DEF Kept, RunnerInv

\* A step of the queue or of an approver, whom no call sees.
LEMMA Aside ==
  ASSUME Definition, RunnerInv, Lasting, UNCHANGED <<run, refs, job, pods, stack>>,
         \A v \in Workers : inbox[v] = {} => inbox'[v] = {},
         (\E v \in Workers : stack[v] # <<>> /\ stack[v][1].call = "start") => UNCHANGED queue
  PROVE  Calls' /\ Alone'
<1>1. Alone'
  BY DEF RunnerInv, Alone, Owns, Doing
<1>2. ASSUME NEW v \in Workers, stack[v] # <<>>
      PROVE  /\ \A k \in 2 .. Len(stack'[v]) : Resting(stack'[v][k])
             /\ Knows(stack[v][1])'
             /\ run' # "absent"
             /\ stack'[v][1].call # "start" => Prepared'
             /\ stack'[v][1].call = "start" => Fresh' /\ \A u \in Workers : inbox'[u] = {} /\ (u # v => stack'[u] = <<>>)
  <2>1. PICK f : f = stack[v][1]
    OBVIOUS
  <2>2. f \in Frame /\ stack'[v] = stack[v] /\ stack'[v][1] = f
    BY <1>2, <2>1 DEF RunnerInv, Typed
  <2>3. Knows(f) /\ run # "absent"
    BY <1>2, <2>1 DEF RunnerInv, Calls
  <2>4. Knows(f)'
    <3>1. CASE f.call # "start"
      BY <3>1, <2>2, <2>3, KnowsStays
    <3>2. CASE f.call = "start"
      BY <3>2, <2>3 DEF Knows, Doing
    <3>. QED  BY <3>1, <3>2
  <2>5. Knows(stack[v][1])'
    BY <2>2, <2>4 DEF Knows, Doing
  <2>6. f.call # "start" => Prepared'
    BY <1>2, <2>1 DEF RunnerInv, Calls, Prepared
  <2>7. ASSUME f.call = "start"
        PROVE  Fresh' /\ \A u \in Workers : inbox'[u] = {} /\ (u # v => stack'[u] = <<>>)
    <3>1. queue' = queue /\ Fresh
      BY <1>2, <2>1, <2>7, StartsAlone
    <3>2. Fresh'
      BY <3>1 DEF Fresh
    <3>. QED  BY <3>2, <1>2, <2>1, <2>7, StartsAlone
  <2>8. \A k \in 2 .. Len(stack'[v]) : Resting(stack'[v][k])
    BY <1>2, <2>2 DEF RunnerInv, Calls
  <2>. QED  BY <2>2, <2>3, <2>5, <2>6, <2>7, <2>8
<1>3. Calls'
  BY <1>2 DEF Calls
<1>. QED  BY <1>1, <1>3

LEMMA DuplicateStep ==
  ASSUME Definition, RunnerInv, NEW j \in Jobs, Duplicate(j)
  PROVE  Kept
<1>1. /\ \E w \in Workers : j \in inbox[w]
      /\ queue' = [queue EXCEPT ![j] = @ + 1]
      /\ UNCHANGED <<run, refs, job, pods, approval, stack, inbox>>
  BY DEF Duplicate
<1>2. Prepared /\ Cleared(j)
  BY <1>1 DEF RunnerInv, Messages
<1>3. Lasting /\ Prepared'
  BY <1>1, <1>2 DEF Lasting, Prepared
<1>4. \A v \in Workers : ~(stack[v] # <<>> /\ stack[v][1].call = "start")
  BY <1>1, StartsAlone
<1>5. Calls' /\ Alone'
  BY <1>1, <1>3, <1>4, Aside
<1>6. queue' \in [Jobs -> Nat] /\ \A k \in Jobs : queue'[k] # 0 => queue[k] # 0 \/ k = j
  BY <1>1 DEF RunnerInv, Typed
<1>7. Typed'
  BY <1>1, <1>6 DEF RunnerInv, Typed
<1>8. \A k \in Jobs : Cleared(k)' <=> Cleared(k)
  BY <1>1 DEF Cleared
<1>9. run' # "absent"
  BY <1>1 DEF RunnerInv, Messages
<1>10. Messages'
  BY <1>1, <1>2, <1>3, <1>6, <1>8, <1>9 DEF RunnerInv, Messages, Typed
<1>11. JobOutcomes'
  BY <1>1 DEF RunnerInv, JobOutcomes, Cleared, AllDone, Failed
<1>. QED  BY <1>3, <1>5, <1>7, <1>10, <1>11 DEF Kept, RunnerInv

LEMMA AckStep ==
  ASSUME Definition, RunnerInv, NEW w \in Workers, Ack(w)
  PROVE  Kept
<1>1. inbox' = [inbox EXCEPT ![w] = {}] /\ UNCHANGED <<run, refs, job, pods, approval, queue, stack>>
  BY DEF Ack
<1>2. inbox' \in [Workers -> SUBSET Jobs] /\ \A v \in Workers : inbox'[v] \subseteq inbox[v]
  BY <1>1 DEF RunnerInv, Typed
<1>3. Lasting
  BY <1>1 DEF Lasting
<1>4. Calls' /\ Alone'
  BY <1>1, <1>2, <1>3, Aside
<1>5. Typed'
  BY <1>1, <1>2 DEF RunnerInv, Typed
<1>6. Messages'
  BY <1>1, <1>2 DEF RunnerInv, Messages, Prepared, Cleared, Fresh
<1>7. JobOutcomes'
  BY <1>1 DEF RunnerInv, JobOutcomes, Cleared, AllDone, Failed
<1>. QED  BY <1>3, <1>4, <1>5, <1>6, <1>7 DEF Kept, RunnerInv

LEMMA CrashStep ==
  ASSUME Definition, RunnerInv, NEW w \in Workers, Crash(w)
  PROVE  Kept
<1>1. /\ stack[w] # <<>>
      /\ stack' = [stack EXCEPT ![w] = <<>>]
      /\ inbox' = [inbox EXCEPT ![w] = {}]
      /\ queue' = [j \in Jobs |-> queue[j] + (IF j \in inbox[w] THEN 1 ELSE 0)]
      /\ UNCHANGED <<run, refs, job, pods, approval>>
  BY DEF Crash
<1>2. Lasting /\ (Prepared => Prepared')
  BY <1>1 DEF Lasting, Prepared
<1>3. Steady(w)
  BY <1>1, <1>2 DEF Steady
<1>4. NoneStarts(w)
  BY <1>1, StartsAlone DEF NoneStarts
<1>5. <<>> \in Seq(Frame)
  OBVIOUS
<1>6. PICK t \in Seq(Frame) : t = <<>>
  BY <1>5
<1>7. GoesOn(w, t)
  BY <1>1, <1>6 DEF GoesOn
<1>8. Calls' /\ Alone'
  BY <1>3, <1>4, <1>7, Turned DEF RunnerInv
<1>9. stack' \in [Workers -> Seq(Frame)]
  BY <1>1, <1>5 DEF RunnerInv, Typed
<1>10. inbox' \in [Workers -> SUBSET Jobs] /\ \A v \in Workers : inbox'[v] \subseteq inbox[v]
  BY <1>1 DEF RunnerInv, Typed
<1>11. queue' \in [Jobs -> Nat] /\ \A k \in Jobs : queue'[k] # 0 => queue[k] # 0 \/ k \in inbox[w]
  BY <1>1 DEF RunnerInv, Typed
<1>12. Typed'
  BY <1>1, <1>9, <1>10, <1>11 DEF RunnerInv, Typed
<1>13. \A k \in Jobs : Cleared(k)' <=> Cleared(k)
  BY <1>1 DEF Cleared
<1>14. run' # "absent"
  BY <1>1 DEF RunnerInv, Calls
<1>15. Messages'
  <2>1. \A k \in Jobs : queue'[k] # 0 => Prepared' /\ Cleared(k)'
    BY <1>2, <1>11, <1>13 DEF RunnerInv, Messages
  <2>2. \A v \in Workers : \A k \in inbox'[v] : Prepared' /\ Cleared(k)'
    <3>. SUFFICES ASSUME NEW v \in Workers, NEW k \in inbox'[v]
                  PROVE  Prepared' /\ Cleared(k)'
      OBVIOUS
    <3>1. k \in inbox[v] /\ k \in Jobs
      BY <1>10
    <3>. QED  BY <3>1, <1>2, <1>13 DEF RunnerInv, Messages
  <2>. QED  BY <2>1, <2>2, <1>14 DEF Messages
<1>16. JobOutcomes'
  BY <1>1 DEF RunnerInv, JobOutcomes, Cleared, AllDone, Failed
<1>. QED  BY <1>2, <1>8, <1>12, <1>15, <1>16 DEF Kept, RunnerInv

LEMMA ApprovalStep ==
  ASSUME Definition, RunnerInv, NEW j \in Jobs,
         RequestApproval(j) \/ \E d \in {"approved", "rejected"} : Decide(j, d)
  PROVE  Kept
<1>1. PICK s \in {"pending", "approved", "rejected"} :
        /\ approval' = [approval EXCEPT ![j] = s] /\ approval[j] # "approved"
        /\ UNCHANGED <<run, refs, job, pods, queue, stack, inbox>>
  <2>1. CASE RequestApproval(j)
    BY <2>1 DEF RequestApproval
  <2>2. CASE \E d \in {"approved", "rejected"} : Decide(j, d)
    BY <2>2 DEF Decide
  <2>. QED  BY <2>1, <2>2
<1>2. /\ Lasting /\ Messages' /\ JobOutcomes'
      /\ approval' \in [Jobs -> {"none", "pending", "approved", "rejected"}]
  BY <1>1, ApprovalSet
<1>3. Calls' /\ Alone'
  BY <1>1, <1>2, Aside
<1>4. Typed'
  BY <1>1, <1>2 DEF RunnerInv, Typed
<1>. QED  BY <1>2, <1>3, <1>4 DEF Kept, RunnerInv

-----------------------------------------------------------------------------
(* startRun()                                                              *)

LEMMA StartRunStep ==
  ASSUME Definition, RunnerInv, NEW w \in Workers, StartRun(w)
  PROVE  Kept
<1>1. /\ run = "absent" /\ run' = "Pending"
      /\ stack' = [stack EXCEPT ![w] = <<Start(JobSeq)>>]
      /\ UNCHANGED <<refs, job, pods, approval, queue, inbox>>
  BY DEF StartRun
<1>2. Fresh /\ \A v \in Workers : inbox[v] = {} /\ stack[v] = <<>>
  BY <1>1 DEF RunnerInv, Messages, Calls
<1>3. PICK f : f = Start(JobSeq)
  OBVIOUS
<1>4. f \in Frame /\ f.call = "start" /\ f.todo = JobSeq
  BY <1>3 DEF Start, Frame, Definition
<1>5. PICK t : t = <<f>>
  OBVIOUS
<1>6. t \in Seq(Frame) /\ t # <<>> /\ Len(t) = 1 /\ t[1] = f
  BY <1>4, <1>5
<1>7. /\ stack' \in [Workers -> Seq(Frame)] /\ stack'[w] = t
      /\ \A v \in Workers : v # w => stack'[v] = <<>>
  BY <1>1, <1>2, <1>3, <1>5, <1>6 DEF RunnerInv, Typed
<1>8. \A j \in Jobs : \E k \in DOMAIN JobSeq : JobSeq[k] = j
  BY DEF Jobs, Range
<1>9. Knows(f)'
  BY <1>4, <1>8 DEF Knows, Doing
<1>10. stack'[w][1] = f
  BY <1>6, <1>7
<1>11. Knows(stack[w][1])'
  BY <1>9, <1>10 DEF Knows, Doing
<1>12. Fresh' /\ \A v \in Workers : inbox'[v] = {}
  BY <1>1, <1>2 DEF Fresh
<1>13. Calls'
  <2>. SUFFICES ASSUME NEW v \in Workers, stack'[v] # <<>>
                PROVE  /\ \A k \in 2 .. Len(stack'[v]) : Resting(stack'[v][k])
                       /\ Knows(stack[v][1])'
                       /\ run' # "absent"
                       /\ stack'[v][1].call = "start"
                       /\ Fresh' /\ \A u \in Workers : inbox'[u] = {} /\ (u # v => stack'[u] = <<>>)
    BY DEF Calls
  <2>1. v = w
    BY <1>7
  <2>. QED  BY <2>1, <1>1, <1>4, <1>6, <1>7, <1>10, <1>11, <1>12
<1>14. Alone'
  BY <1>7 DEF Alone
<1>15. Typed'
  BY <1>1, <1>7 DEF RunnerInv, Typed
<1>16. Messages'
  BY <1>1, <1>2 DEF Messages, Fresh
<1>17. JobOutcomes'
  BY <1>1 DEF RunnerInv, JobOutcomes, Cleared, AllDone, Failed
<1>18. Lasting
  BY <1>1 DEF Lasting
<1>. QED  BY <1>13, <1>14, <1>15, <1>16, <1>17, <1>18 DEF Kept, RunnerInv

LEMMA StartFacts ==
  ASSUME RunnerInv, NEW w \in Workers, In(w, "start", "jobs")
  PROVE  /\ stack[w] # <<>> /\ stack[w][1] \in Frame /\ stack[w][1].call = "start"
         /\ Top(w) = stack[w][1] /\ Knows(stack[w][1])
         /\ stack[w] \in Seq(Frame) /\ stack[w][1].todo \in Seq(Jobs)
         /\ \A k \in 2 .. Len(stack[w]) : Resting(stack[w][k])
         /\ stack[w][1].todo # <<>> => J(w) = stack[w][1].todo[1] /\ J(w) \in Jobs
<1>1. stack[w] # <<>> /\ stack \in [Workers -> Seq(Frame)]
  BY DEF In, RunnerInv, Typed
<1>2. Head(stack[w]) = stack[w][1] /\ stack[w][1].call = "start"
  BY <1>1 DEF In
<1>. QED  BY <1>1, <1>2, TopIs DEF RunnerInv, Calls

LEMMA CreateJobRunStep ==
  ASSUME Definition, RunnerInv, NEW w \in Workers, CreateJobRun(w)
  PROVE  Kept
<1>1. In(w, "start", "jobs") /\ UNCHANGED <<run, refs, pods, approval, queue, inbox>>
  BY DEF CreateJobRun
<1>2. PICK f : f = stack[w][1]
  OBVIOUS
<1>3. /\ stack[w] # <<>> /\ f \in Frame /\ f.call = "start" /\ f.todo \in Seq(Jobs) /\ Top(w) = f
      /\ Knows(f) /\ stack[w] \in Seq(Frame) /\ \A k \in 2 .. Len(stack[w]) : Resting(stack[w][k])
      /\ f.todo # <<>> => J(w) = f.todo[1] /\ J(w) \in Jobs
  BY <1>1, <1>2, StartFacts
<1>4. f.todo # <<>> /\ stack' = [stack EXCEPT ![w][1].todo = Tail(@)] /\ SetJob(J(w), "Queued")
  BY <1>3 DEF CreateJobRun
<1>5. /\ \A v \in Workers : inbox[v] = {} /\ (v # w => stack[v] = <<>>)
      /\ \A j \in Jobs : queue[j] = 0
      /\ Fresh /\ run # "absent"
  BY <1>2, <1>3, StartsAlone
<1>6. PICK j : j = J(w)
  OBVIOUS
<1>7. j \in Jobs /\ j = f.todo[1]
  BY <1>3, <1>4, <1>6
<1>8. PICK l : l = Tail(f.todo)
  OBVIOUS
<1>9. l \in Seq(Jobs) /\ \A k \in 2 .. Len(f.todo) : k - 1 \in DOMAIN l /\ l[k - 1] = f.todo[k]
  BY <1>3, <1>4, <1>8
<1>10. PICK g : g = [f EXCEPT !.todo = l]
  OBVIOUS
<1>11. f \in [call : {"start"}, at : {"jobs"}, todo : Seq(Jobs)]
  BY <1>3 DEF Frame
<1>12. g \in Frame /\ g.call = "start" /\ g.todo = l
  BY <1>9, <1>10, <1>11 DEF Frame
<1>13. PICK t : t = [stack[w] EXCEPT ![1] = g]
  OBVIOUS
<1>14. /\ t \in Seq(Frame) /\ t # <<>> /\ Len(t) = Len(stack[w]) /\ t[1] = g
       /\ \A k \in 2 .. Len(t) : t[k] = stack[w][k]
  BY <1>3, <1>12, <1>13, TopReplaced
<1>15. stack' = [stack EXCEPT ![w] = t]
  BY <1>2, <1>4, <1>8, <1>10, <1>13
<1>16. stack' \in [Workers -> Seq(Frame)] /\ stack'[w] = t /\ \A v \in Workers : v # w => stack'[v] = <<>>
  BY <1>5, <1>14, <1>15 DEF RunnerInv, Typed
<1>17. /\ job' \in [Jobs -> Done \cup {"absent", "Queued", "Running"}] /\ job'[j] = "Queued"
       /\ \A k \in Jobs : k # j => job'[k] = job[k]
  BY <1>4, <1>6, <1>7 DEF SetJob, RunnerInv, Typed
<1>18. Fresh'
  BY <1>1, <1>5, <1>17 DEF Fresh
<1>19. \A k \in Jobs : job'[k] = "absent" => \E i \in DOMAIN l : l[i] = k
  <2>. SUFFICES ASSUME NEW k \in Jobs, job'[k] = "absent"
                PROVE  \E i \in DOMAIN l : l[i] = k
    OBVIOUS
  <2>1. k # j /\ job[k] = "absent"
    BY <1>17
  <2>2. PICK i \in DOMAIN f.todo : f.todo[i] = k
    BY <2>1, <1>3 DEF Knows
  <2>3. i \in 2 .. Len(f.todo)
    BY <2>1, <2>2, <1>3, <1>7
  <2>. QED  BY <2>2, <2>3, <1>9
<1>20. Knows(g)'
  BY <1>12, <1>19 DEF Knows, Doing
<1>21. stack'[w][1] = g
  BY <1>14, <1>16
<1>22. Knows(stack[w][1])'
  BY <1>20, <1>21 DEF Knows, Doing
<1>23. \A k \in 2 .. Len(t) : Resting(t[k])
  BY <1>3, <1>14
<1>24. Calls'
  <2>. SUFFICES ASSUME NEW v \in Workers, stack'[v] # <<>>
                PROVE  /\ \A k \in 2 .. Len(stack'[v]) : Resting(stack'[v][k])
                       /\ Knows(stack[v][1])'
                       /\ run' # "absent"
                       /\ stack'[v][1].call = "start"
                       /\ Fresh' /\ \A u \in Workers : inbox'[u] = {} /\ (u # v => stack'[u] = <<>>)
    BY DEF Calls
  <2>1. v = w
    BY <1>16
  <2>. QED  BY <2>1, <1>1, <1>5, <1>12, <1>16, <1>18, <1>21, <1>22, <1>23
<1>25. Alone'
  <2>1. \A v \in Workers : stack'[v] # <<>> => v = w
    BY <1>16
  <2>. QED  BY <2>1 DEF Alone
<1>26. Typed'
  BY <1>1, <1>16, <1>17 DEF RunnerInv, Typed
<1>27. Messages'
  BY <1>1, <1>5 DEF Messages
<1>28. Lasting
  BY <1>1, <1>5, <1>17 DEF Lasting, Fresh, Done
<1>29. JobOutcomes'
  <2>1. run' \notin {"Success", "Failure"}
    BY <1>1, <1>5, <1>7 DEF RunnerInv, JobOutcomes, AllDone, Fresh, Done
  <2>2. \A k \in Jobs : job'[k] \in {"absent", "Queued"} /\ pods'[k] = 0
    BY <1>18 DEF Fresh
  <2>. QED  BY <2>1, <2>2 DEF JobOutcomes
<1>. QED  BY <1>24, <1>25, <1>26, <1>27, <1>28, <1>29 DEF Kept, RunnerInv

LEMMA SaveRefsStep ==
  ASSUME Definition, RunnerInv, NEW w \in Workers, SaveRefs(w)
  PROVE  Kept
<1>1. /\ In(w, "start", "jobs") /\ refs' = JobSeq
      /\ stack' = [stack EXCEPT ![w] = <<Ready(JobSeq)>>]
      /\ UNCHANGED <<run, job, pods, approval, queue, inbox>>
  BY DEF SaveRefs
<1>2. PICK f : f = stack[w][1]
  OBVIOUS
<1>3. stack[w] # <<>> /\ f.call = "start" /\ f.todo = <<>> /\ Knows(f)
  BY <1>1, <1>2, StartFacts DEF SaveRefs
<1>4. /\ \A v \in Workers : inbox[v] = {} /\ (v # w => stack[v] = <<>>)
      /\ \A j \in Jobs : queue[j] = 0
      /\ Fresh /\ run # "absent"
  BY <1>2, <1>3, StartsAlone
<1>5. Prepared'
  <2>1. \A j \in Jobs : job[j] # "absent"
    BY <1>3 DEF Knows
  <2>. QED  BY <2>1, <1>1 DEF Prepared
<1>6. Lasting
  BY <1>1 DEF Lasting
<1>7. Steady(w)
  BY <1>1, <1>5, <1>6 DEF Steady
<1>8. NoneStarts(w)
  BY <1>4 DEF NoneStarts
<1>9. PICK h : h = Ready(JobSeq)
  OBVIOUS
<1>10. h \in Frame /\ h.call = "ready" /\ h.at = "look"
  BY <1>9, ReadyFrame DEF Ready, Definition
<1>11. Resting(h)
  BY <1>10 DEF Resting
<1>12. PICK t : t = <<h>>
  OBVIOUS
<1>13. t \in Seq(Frame) /\ t # <<>> /\ Len(t) = 1 /\ t[1] = h
  BY <1>10, <1>12
<1>14. Knows(t[1])' /\ t[1].call # "start" /\ \A k \in Jobs : ~Owns(t[1], k)
  BY <1>11, <1>13, RestingKnows
<1>15. GoesOn(w, t)
  BY <1>1, <1>4, <1>5, <1>9, <1>12, <1>13, <1>14 DEF GoesOn
<1>16. Calls' /\ Alone'
  BY <1>7, <1>8, <1>13, <1>15, Turned DEF RunnerInv
<1>17. stack' \in [Workers -> Seq(Frame)]
  BY <1>1, <1>9, <1>12, <1>13 DEF RunnerInv, Typed
<1>18. refs' \in Seq(Jobs)
  BY <1>1 DEF Definition
<1>19. Typed'
  BY <1>1, <1>17, <1>18 DEF RunnerInv, Typed
<1>20. Messages'
  BY <1>1, <1>4 DEF Messages
<1>21. JobOutcomes'
  BY <1>1 DEF RunnerInv, JobOutcomes, Cleared, AllDone, Failed
<1>. QED  BY <1>6, <1>16, <1>19, <1>20, <1>21 DEF Kept, RunnerInv

-----------------------------------------------------------------------------
(* The theorems                                                            *)

LEMMA RunnerStarts ==
  ASSUME Definition, Init
  PROVE  RunnerInv
<1>1. <<>> \in Seq(Frame) /\ <<>> \in Seq(Jobs)
  OBVIOUS
<1>2. Typed
  BY <1>1 DEF Init, Typed, Done
<1>3. Calls /\ Alone
  BY DEF Init, Calls, Alone
<1>4. Messages
  BY DEF Init, Messages, Fresh
<1>5. JobOutcomes
  BY DEF Init, JobOutcomes
<1>. QED  BY <1>2, <1>3, <1>4, <1>5 DEF RunnerInv

LEMMA RunnerStutters ==
  ASSUME Definition, RunnerInv, UNCHANGED vars
  PROVE  Kept
<1>1. UNCHANGED <<run, refs, job, pods, approval, queue, stack, inbox>>
  BY DEF vars
<1>2. Lasting
  BY <1>1 DEF Lasting
<1>3. Calls' /\ Alone'
  BY <1>1, <1>2, Aside
<1>4. Typed'
  BY <1>1 DEF RunnerInv, Typed
<1>5. Messages'
  BY <1>1 DEF RunnerInv, Messages, Prepared, Cleared, Fresh
<1>6. JobOutcomes'
  BY <1>1 DEF RunnerInv, JobOutcomes, Cleared, AllDone, Failed
<1>. QED  BY <1>2, <1>3, <1>4, <1>5, <1>6 DEF Kept, RunnerInv

LEMMA RunnerKept ==
  ASSUME Definition, RunnerInv, [Next]_vars
  PROVE  Kept
<1>1. ASSUME NEW w \in Workers, Work(w)
      PROVE  Kept
  BY <1>1, CreateJobRunStep, SaveRefsStep, LookStep, SkipStep, SendStep, InlineStep, ReadJobStep,
     ClaimStep, GateStep, ProvisionStep, StepStep, FinishStep, BillStep, CheckStep, CloseStep,
     AckStep DEF Work
<1>2. ASSUME NEW w \in Workers, StartRun(w) \/ Crash(w) \/ \E j \in Jobs : Deliver(w, j)
      PROVE  Kept
  BY <1>2, StartRunStep, CrashStep, DeliverStep
<1>3. ASSUME NEW j \in Jobs,
             Duplicate(j) \/ RequestApproval(j) \/ \E d \in {"approved", "rejected"} : Decide(j, d)
      PROVE  Kept
  BY <1>3, DuplicateStep, ApprovalStep
<1>4. CASE UNCHANGED vars
  BY <1>4, RunnerStutters
<1>. QED  BY <1>1, <1>2, <1>3, <1>4 DEF Next

(* In every state of every run, who has claimed a job owns it alone, and     *)
(* what a worker knows of a job from what it read earlier is still so.       *)
THEOREM RunnerSound ==
  ASSUME Definition
  PROVE  Spec => []RunnerInv
<1>1. Init => RunnerInv
  BY RunnerStarts
<1>2. RunnerInv /\ [Next]_vars => RunnerInv'
  BY RunnerKept DEF Kept
<1>. QED  BY <1>1, <1>2, PTL DEF Spec

(* executeJob() provisions a pod for a job at most once, only after its      *)
(* needs have succeeded and, behind a gate, only after the approval: for     *)
(* any graph of jobs, any workers, any duplicates of messages and crashes.   *)
THEOREM JobsStartOnce ==
  ASSUME Definition
  PROVE  Spec => []StartedOnce
<1>1. RunnerInv => StartedOnce
  BY NeedsAreJobs DEF RunnerInv, JobOutcomes, StartedOnce, DepStatuses, Cleared
<1>. QED  BY <1>1, RunnerSound, PTL

(* checkWorkflowCompletion() closes a run once, when all its jobs have       *)
(* ended, with the outcome of the jobs, and an ended job stays ended.        *)
THEOREM RunsCloseOnce ==
  ASSUME Definition
  PROVE  Spec => ClosedOnce
<1>1. ASSUME RunnerInv, RunnerInv', [Next]_vars
      PROVE  CompletionAgrees
  <2>1. Lasting
    BY <1>1, RunnerKept DEF Kept
  <2>2. run \in {"Pending", run'} \/ (run = "absent" /\ run' = "Pending")
    <3>1. ASSUME NEW w \in Workers, StartRun(w)
          PROVE  run = "absent" /\ run' = "Pending"
      BY <3>1 DEF StartRun
    <3>2. ASSUME NEW w \in Workers, Work(w)
          PROVE  run \in {"Pending", run'}
      BY <3>2 DEF Work, CreateJobRun, SaveRefs, Look, Skip, Send, Inline, ReadJob, Claim, Gate,
         Provision, Step, Finish, Bill, Check, Close, Ack
    <3>3. ASSUME NEW w \in Workers, Crash(w) \/ \E j \in Jobs : Deliver(w, j)
          PROVE  run' = run
      BY <3>3 DEF Crash, Deliver
    <3>4. ASSUME NEW j \in Jobs,
                 Duplicate(j) \/ RequestApproval(j) \/ \E d \in {"approved", "rejected"} : Decide(j, d)
          PROVE  run' = run
      BY <3>4 DEF Duplicate, RequestApproval, Decide
    <3>5. CASE UNCHANGED vars
      BY <3>5 DEF vars
    <3>. QED  BY <1>1, <3>1, <3>2, <3>3, <3>4, <3>5 DEF Next
  <2>3. run' \in {"Success", "Failure"} => AllDone' /\ (run' = "Success" => ~Failed') /\ (run' = "Failure" => Failed')
    BY <1>1 DEF RunnerInv, JobOutcomes
  <2>. QED  BY <2>1, <2>2, <2>3 DEF CompletionAgrees, Lasting, AllDone, Failed
<1>. QED  BY <1>1, RunnerSound, PTL DEF Spec, ClosedOnce

-----------------------------------------------------------------------------
(* The DAG.  The only way to store an instance is to append a new one, and *)
(* a tick does so with the state NONE: what it makes of an instance later  *)
(* stays in its memory.  So every read finds instances that are NONE, and  *)
(* from these a tick gets no further than SCHEDULED.  None of it rests on  *)
(* how many ticks there are or on how old the runs are that they read.     *)

Statuses == {"absent", "QUEUED", "RUNNING", "FAILED"}
Stored == [task : Tasks, state : {"NONE"}]
Held == [task : Tasks, state : {"NONE", "SCHEDULED"}]

\* What a tick has in memory: some of the runs, and of one of them the
\* instances that its index listed some time ago.
Memory(t) ==
  /\ DOMAIN t = {"phase", "runs", "run", "tis", "todo"}
  /\ DOMAIN t.runs \subseteq DagRuns
  /\ t.run \in DagRuns \cup {None}
  /\ t.tis \in Seq(Held)
  /\ t.todo \in Seq(Tasks)
  /\ t.run # None => Len(t.tis) <= Len(tis[t.run])

DagInv ==
  /\ dagRun \in [DagRuns -> Statuses]
  /\ tis \in [DagRuns -> Seq(Stored)]
  /\ late \subseteq overdue
  /\ \A r \in DagRuns : dagRun[r] = "FAILED" => ~def \/ r \in overdue
  /\ DOMAIN tick = Ticks /\ \A i \in Ticks : Memory(tick[i])

-----------------------------------------------------------------------------
\* Some positions of a sequence have a highest one.
LEMMA LowestBy ==
  ASSUME NEW R, IsWellFoundedOn(R, Nat), NEW S, S \subseteq Nat, S # {}
  PROVE  \E x \in S : \A y \in S : ~ (<<y, x>> \in R)
BY WFMin

LEMMA Highest ==
  ASSUME NEW len \in Nat, NEW S, S \subseteq 1 .. len, S # {}
  PROVE  \E x \in S : \A y \in S : y <= x
<1>. DEFINE D == {d \in Nat : \E n \in S : d = len - n}
<1>0. \A n \in S : len - n \in D
  OBVIOUS
<1>1. D \subseteq Nat /\ D # {}
  BY <1>0
<1>2. PICK d \in D : \A e \in D : ~ (<<e, d>> \in OpToRel(<, Nat))
  <2>. HIDE DEF D
  <2>. QED  BY <1>1, NatLessThanWellFounded, LowestBy, Zenon
<1>3. \A e \in Nat : e < d => <<e, d>> \in OpToRel(<, Nat)
  BY <1>1 DEF OpToRel
<1>4. \A e \in D : d <= e
  <2>. SUFFICES ASSUME NEW e \in D PROVE d <= e
    OBVIOUS
  <2>1. d \in Nat /\ e \in Nat
    BY <1>1
  <2>2. ~ (e < d)
    <3>. HIDE DEF D
    <3>. QED  BY <1>2, <1>3, <2>1, Zenon
  <2>. QED  BY <2>1, <2>2
<1>5. PICK x \in S : d = len - x
  OBVIOUS
<1>6. \A y \in S : y <= x
  <2>. SUFFICES ASSUME NEW y \in S PROVE y <= x
    OBVIOUS
  <2>1. d <= len - y
    BY <1>0, <1>4
  <2>. QED  BY <1>5, <2>1
<1>. QED
  BY <1>6

\* An instance that is found is one of those listed.
LEMMA Found ==
  ASSUME NEW s \in Seq(Held), NEW t
  PROVE  Instance(s, t) = 0 \/ Instance(s, t) \in DOMAIN s
<1>. DEFINE at == {n \in DOMAIN s : s[n].task = t}
<1>1. CASE at = {}
  BY <1>1 DEF Instance
<1>2. CASE at # {}
  <2>1. at \subseteq 1 .. Len(s) /\ Len(s) \in Nat
    OBVIOUS
  <2>2. \E n \in at : \A m \in at : m <= n
    <3>. HIDE DEF at
    <3>. QED  BY <1>2, <2>1, Highest
  <2>3. Instance(s, t) = CHOOSE n \in at : \A m \in at : m <= n
    BY <1>2 DEF Instance
  <2>4. Instance(s, t) \in at
    <3>. HIDE DEF at
    <3>. QED  BY <2>2, <2>3
  <2>. QED  BY <2>4
<1>. QED
  BY <1>1, <1>2

\* So tasks are seen as NONE or SCHEDULED, and no run is seen to have ended.
LEMMA Seen ==
  ASSUME NEW s \in Seq(Held), NEW t
  PROVE  StateOf(s, t) \in {"NONE", "SCHEDULED"}
<1>1. CASE Instance(s, t) = 0
  BY <1>1 DEF StateOf
<1>2. CASE Instance(s, t) # 0
  <2>1. s[Instance(s, t)] \in Held
    BY <1>2, Found
  <2>. QED  BY <1>2, <2>1 DEF StateOf, Held
<1>. QED
  BY <1>1, <1>2

LEMMA NeverEnded ==
  ASSUME NEW s \in Seq(Held)
  PROVE  ~AllEnded(s)
<1>1. SUFFICES ASSUME NEW t \in Tasks PROVE StateOf(s, t) \notin Terminal
  BY DEF AllEnded
<1>. QED
  BY Seen DEF Terminal, FailedStates

\* schedule() makes no more of an instance than SCHEDULED.
LEMMA AdvancedHeld ==
  ASSUME NEW s \in Seq(Held), NEW ti \in Held, NEW due
  PROVE  Advanced(ti, Upstream(s, ti.task), due) \in Held
<1>. DEFINE up == Upstream(s, ti.task)
<1>1. up \subseteq {"NONE", "SCHEDULED"}
  BY Seen DEF Upstream
<1>. HIDE DEF up
<1>2. up \cap FailedStates = {}
  BY <1>1 DEF FailedStates
<1>3. up \subseteq Terminal => up = {}
  BY <1>1 DEF Terminal, FailedStates
<1>4. up = {} => EvaluateTriggerRule(Rule[ti.task], up)
  BY DEF EvaluateTriggerRule
<1>5. ti.state \in {"NONE", "SCHEDULED"} /\ [ti EXCEPT !.state = "SCHEDULED"] \in Held
  BY DEF Held
<1>6. Advanced(ti, up, due) \in {ti, [ti EXCEPT !.state = "SCHEDULED"]}
  BY <1>2, <1>3, <1>4, <1>5 DEF Advanced
<1>7. Advanced(ti, up, due) \in Held
  BY <1>5, <1>6
<1>. QED
  BY <1>7 DEF up

-----------------------------------------------------------------------------
\* A step that stores no instance and fails no run without a reason, and the
\* memory of the tick that takes it.
LEMMA Rests ==
  ASSUME DagInv, UNCHANGED <<def, tis, overdue>>, late' \subseteq overdue,
         dagRun' \in [DagRuns -> Statuses],
         \A r \in DagRuns : dagRun'[r] = "FAILED" => dagRun[r] = "FAILED" \/ ~def \/ r \in overdue,
         NEW i \in Ticks, NEW z, tick' = [tick EXCEPT ![i] = z], Memory(z)
  PROVE  DagInv'
<1>1. \A j \in Ticks : Memory(tick'[j])
  BY DEF DagInv
<1>2. (\A j \in Ticks : Memory(tick[j]))'
  BY <1>1 DEF Memory
<1>. QED
  BY <1>2 DEF DagInv

LEMMA Written ==
  ASSUME DagInv, NEW r \in DagRuns, NEW s \in {"RUNNING", "FAILED"}, Write(r, s),
         s = "FAILED" => ~def \/ r \in overdue
  PROVE  /\ late' \subseteq overdue
         /\ dagRun' \in [DagRuns -> Statuses]
         /\ \A q \in DagRuns : dagRun'[q] = "FAILED" => dagRun[q] = "FAILED" \/ ~def \/ q \in overdue
BY DEF Write, DagInv, Statuses

\* A tick that leaves a run keeps the others.
LEMMA Dropped ==
  ASSUME NEW t, Memory(t), NEW r
  PROVE  Memory(Drop(t, r))
<1>. DEFINE rest == Restrict(t.runs, DOMAIN t.runs \ {r})
<1>1. DOMAIN rest = DOMAIN t.runs \ {r}
  BY DEF Restrict
<1>2. Drop(t, r) = [Idle EXCEPT !.phase = t.phase, !.runs = rest]
  BY DEF Drop
<1>. HIDE DEF rest
<1>. QED
  BY <1>1, <1>2 DEF Idle, Memory

\* A tick that opens a run reads as much of its index as it is served.
LEMMA Opened ==
  ASSUME DagInv, NEW i \in Ticks, NEW r \in DagRuns, Open(i, r)
  PROVE  \E z : tick' = [tick EXCEPT ![i] = z] /\ Memory(z)
<1>1. PICK s \in ListedInstances(r) :
        tick' = [tick EXCEPT ![i].run = r, ![i].tis = s, ![i].todo = TaskSeq]
  BY Zenon DEF Open
<1>2. PICK n \in 0 .. Len(tis[r]) : s = SubSeq(tis[r], 1, n)
  BY <1>1 DEF ListedInstances
<1>3. tis[r] \in Seq(Held) /\ Len(tis[r]) \in Nat
  <2>1. tis[r] \in Seq(Stored) /\ Stored \subseteq Held
    BY DEF DagInv, Stored, Held
  <2>. QED  BY <2>1
<1>4. s \in Seq(Held) /\ Len(s) <= Len(tis[r])
  BY <1>2, <1>3
<1>. DEFINE z == [tick[i] EXCEPT !.run = r, !.tis = s, !.todo = TaskSeq]
<1>5. Memory(tick[i]) /\ DOMAIN tick = Ticks
  BY DEF DagInv
<1>6. Memory(z)
  BY <1>4, <1>5, DagAssumption DEF Memory
<1>7. tick' = [tick EXCEPT ![i] = z]
  BY <1>1, <1>5
<1>. QED
  BY <1>6, <1>7

LEMMA Visited ==
  ASSUME DagInv, NEW i \in Ticks, NEW r \in DagRuns, Visit(i, r)
  PROVE  DagInv'
<1>1. Memory(tick[i]) /\ Memory(Drop(tick[i], r))
  BY Dropped DEF DagInv
<1>2. Leave(i, r) => tick' = [tick EXCEPT ![i] = Drop(tick[i], r)]
  BY DEF Leave, DagInv
<1>3. late \subseteq overdue /\ dagRun \in [DagRuns -> Statuses]
  BY DEF DagInv
<1>4. CASE NoDefinition(i, r)
  <2>1. /\ UNCHANGED <<def, tis, overdue>> /\ ~def /\ Write(r, "FAILED")
        /\ tick' = [tick EXCEPT ![i] = Drop(tick[i], r)]
    BY <1>2, <1>4 DEF NoDefinition
  <2>. QED  BY <1>1, <2>1, Written, Rests
<1>5. CASE BeginRun(i, r)
  <2>1. UNCHANGED <<def, tis, overdue>>
    BY <1>5 DEF BeginRun
  <2>2. CASE Leave(i, r) /\ UNCHANGED <<dagRun, served, late>>
    BY <1>1, <1>2, <1>3, <2>1, <2>2, Rests
  <2>3. CASE Write(r, "RUNNING") /\ Open(i, r)
    BY <2>1, <2>3, Written, Opened, Rests
  <2>. QED  BY <1>5, <2>2, <2>3 DEF BeginRun
<1>6. CASE ResumeRun(i, r)
  BY <1>3, <1>6, Opened, Rests DEF ResumeRun
<1>7. CASE TimeOut(i, r)
  <2>1. /\ UNCHANGED <<def, tis, overdue>> /\ r \in overdue /\ Write(r, "FAILED")
        /\ tick' = [tick EXCEPT ![i] = Drop(tick[i], r)]
    BY <1>2, <1>7 DEF TimeOut
  <2>. QED  BY <1>1, <2>1, Written, Rests
<1>8. CASE Beat(i, r)
  BY <1>1, <1>2, <1>3, <1>8, Rests DEF Beat
<1>. QED
  BY <1>4, <1>5, <1>6, <1>7, <1>8 DEF Visit

-----------------------------------------------------------------------------
LEMMA NextPhaseKept ==
  ASSUME DagInv, NEW i \in Ticks, NextPhase(i)
  PROVE  DagInv'
<1>. DEFINE next == (tick[i].phase + 1) % (Len(Phases) + 1)
<1>1. PICK f \in Readings :
        tick' = [tick EXCEPT ![i] = [Idle EXCEPT !.phase = next,
                   !.runs = Restrict(f, IF next = 0 THEN {} ELSE Active(f))]]
  BY Zenon DEF NextPhase
<1>. DEFINE some == IF next = 0 THEN {} ELSE Active(f)
            runs == Restrict(f, some)
            z == [Idle EXCEPT !.phase = next, !.runs = runs]
<1>2. DOMAIN f = DagRuns
  BY DEF Readings
<1>3. some \subseteq DagRuns
  BY <1>2 DEF Active
<1>4. DOMAIN runs = some
  BY DEF Restrict
<1>5. tick' = [tick EXCEPT ![i] = z]
  BY <1>1
<1>. HIDE DEF next, runs, some
<1>6. Memory(z)
  BY <1>3, <1>4 DEF Idle, Memory
<1>7. /\ UNCHANGED <<def, tis, overdue, dagRun, late>>
      /\ late \subseteq overdue /\ dagRun \in [DagRuns -> Statuses]
  BY DEF NextPhase, DagInv
<1>. HIDE DEF z
<1>. QED
  BY <1>5, <1>6, <1>7, Rests

\* A step that changes only the instances of one run and what one tick holds.
LEMMA Saves ==
  ASSUME DagInv, UNCHANGED <<def, dagRun, overdue, late>>, NEW r \in DagRuns, NEW more \in Seq(Stored),
         tis' = [tis EXCEPT ![r] = more], Len(tis[r]) <= Len(more),
         NEW i \in Ticks, NEW z, tick' = [tick EXCEPT ![i] = z], Memory(z)
  PROVE  DagInv'
<1>1. tis' \in [DagRuns -> Seq(Stored)] /\ \A q \in DagRuns : Len(tis[q]) <= Len(tis'[q])
  BY DEF DagInv
<1>2. ASSUME NEW t, Memory(t) PROVE t.run # None => Len(t.tis) <= Len(tis'[t.run])
  <2>. SUFFICES ASSUME t.run # None PROVE Len(t.tis) <= Len(tis'[t.run])
    OBVIOUS
  <2>1. t.run \in DagRuns /\ Len(t.tis) <= Len(tis[t.run]) /\ Len(t.tis) \in Nat
    BY <1>2 DEF Memory
  <2>2. Len(tis[t.run]) \in Nat /\ Len(tis'[t.run]) \in Nat
    BY <1>1, <2>1 DEF DagInv
  <2>. QED  BY <1>1, <2>1, <2>2
<1>3. \A j \in Ticks : Memory(tick'[j])
  BY DEF DagInv
<1>4. (\A j \in Ticks : Memory(tick[j]))'
  BY <1>2, <1>3 DEF Memory
<1>. QED
  BY <1>1, <1>4 DEF DagInv

LEMMA ScheduleTaskKept ==
  ASSUME DagInv, NEW i \in Ticks, ScheduleTask(i)
  PROVE  DagInv'
<1>. DEFINE r == tick[i].run  t == Head(tick[i].todo)  s == tick[i].tis  n == Instance(s, t)
<1>1. Memory(tick[i]) /\ r # None /\ tick[i].todo # <<>> /\ DOMAIN tick = Ticks
  BY DEF ScheduleTask, Working, DagInv
<1>2. r \in DagRuns /\ s \in Seq(Held) /\ t \in Tasks /\ Len(s) <= Len(tis[r])
  BY <1>1 DEF Memory
<1>3. tis[r] \in Seq(Stored) /\ Len(tis[r]) \in Nat
  BY <1>2 DEF DagInv
<1>4. UNCHANGED <<def, dagRun, overdue, late>> /\ late \subseteq overdue /\ dagRun \in [DagRuns -> Statuses]
  BY DEF ScheduleTask, DagInv
<1>5. CASE n = 0
  <2>. DEFINE ti == [task |-> t, state |-> "NONE"]
              z == [tick[i] EXCEPT !.todo = Tail(@)]
  <2>1. tick' = [tick EXCEPT ![i] = z] /\ Memory(z)
    <3>1. tick' = [tick EXCEPT ![i].todo = Tail(@)]
      BY <1>5 DEF ScheduleTask
    <3>. QED  BY <1>1, <3>1 DEF Memory
  <2>2. SaveTaskInstance(r, Len(tis[r]) + 1, ti)
    BY <1>5 DEF ScheduleTask
  <2>3. tis' = tis \/ tis' = [tis EXCEPT ![r] = Append(tis[r], ti)]
    BY <1>2, <2>2 DEF SaveTaskInstance, DagInv
  <2>4. CASE tis' = tis
    <3>. HIDE DEF z
    <3>. QED  BY <1>4, <2>1, <2>4, Rests
  <2>5. CASE tis' = [tis EXCEPT ![r] = Append(tis[r], ti)]
    <3>1. Append(tis[r], ti) \in Seq(Stored) /\ Len(tis[r]) <= Len(Append(tis[r], ti))
      BY <1>2, <1>3 DEF Stored
    <3>. HIDE DEF z, ti, r
    <3>. QED  BY <1>2, <1>4, <2>1, <2>5, <3>1, Saves
  <2>. QED  BY <2>3, <2>4, <2>5
<1>6. CASE n # 0
  <2>0. n \in DOMAIN s /\ s[n] \in Held
    BY <1>2, <1>6, Found
  <2>1. PICK due \in BOOLEAN :
          LET ti == Advanced(s[n], Upstream(s, t), due) IN
          /\ IF ti = s[n] THEN UNCHANGED tis ELSE SaveTaskInstance(r, n, ti)
          /\ tick' = [tick EXCEPT ![i].tis[n] = ti, ![i].todo = Tail(@)]
    BY <1>6 DEF ScheduleTask
  <2>. DEFINE ti == Advanced(s[n], Upstream(s, t), due)
              z == [tick[i] EXCEPT !.tis = [s EXCEPT ![n] = ti], !.todo = Tail(@)]
  <2>2. s[n].task = t
    <3>. DEFINE at == {k \in DOMAIN s : s[k].task = t}
    <3>1. at # {} /\ n = CHOOSE k \in at : \A m \in at : m <= k
      BY <1>6 DEF Instance
    <3>2. at \subseteq 1 .. Len(s) /\ Len(s) \in Nat
      BY <1>2
    <3>3. n \in at
      <4>. HIDE DEF at, n
      <4>. QED  BY <3>1, <3>2, Highest
    <3>. QED  BY <3>3
  <2>3. ti \in Held
    BY <1>2, <2>0, <2>2, AdvancedHeld
  <2>4. tis' = tis
    BY <1>2, <1>3, <2>0, <2>1 DEF SaveTaskInstance
  <2>5. tick' = [tick EXCEPT ![i] = z]
    BY <1>1, <2>1
  <2>6. [s EXCEPT ![n] = ti] \in Seq(Held) /\ Len([s EXCEPT ![n] = ti]) = Len(s)
    <3>. HIDE DEF ti, s, n
    <3>. QED  BY <1>2, <2>0, <2>3
  <2>7. Memory(z)
    <3>. DEFINE s2 == [s EXCEPT ![n] = ti]
    <3>1. s2 \in Seq(Held) /\ Len(s2) = Len(s)
      BY <2>6
    <3>. HIDE DEF s2
    <3>2. z = [tick[i] EXCEPT !.tis = s2, !.todo = Tail(@)]
      BY DEF s2
    <3>. HIDE DEF z
    <3>. QED  BY <1>1, <1>2, <3>1, <3>2 DEF Memory
  <2>. HIDE DEF z
  <2>. QED  BY <1>4, <2>4, <2>5, <2>7, Rests
<1>. QED
  BY <1>5, <1>6

LEMMA ScheduleDoneKept ==
  ASSUME DagInv, NEW i \in Ticks, ScheduleDone(i)
  PROVE  DagInv'
<1>. DEFINE z == Drop(tick[i], tick[i].run)
<1>1. Memory(tick[i]) /\ Memory(z)
  BY Dropped DEF DagInv
<1>2. ~AllEnded(tick[i].tis)
  BY <1>1, NeverEnded DEF Memory
<1>3. /\ UNCHANGED <<def, tis, overdue, dagRun, late>>
      /\ late \subseteq overdue /\ dagRun \in [DagRuns -> Statuses]
  BY <1>2 DEF ScheduleDone, DagInv
<1>4. tick' = [tick EXCEPT ![i] = z]
  BY DEF ScheduleDone, Leave, DagInv
<1>. HIDE DEF z
<1>. QED
  BY <1>1, <1>3, <1>4, Rests

\* A step of another.
LEMMA Aloof ==
  ASSUME DagInv, UNCHANGED <<tis, tick>>, late' \subseteq overdue', overdue \subseteq overdue',
         def' => def, dagRun' \in [DagRuns -> Statuses],
         \A r \in DagRuns : dagRun'[r] = "FAILED" => dagRun[r] = "FAILED"
  PROVE  DagInv'
<1>1. (\A j \in Ticks : Memory(tick[j]))'
  BY DEF DagInv, Memory
<1>. QED
  BY <1>1 DEF DagInv

LEMMA DagStarts ==
  ASSUME DagInit
  PROVE  DagInv
<1>1. \A i \in Ticks : tick[i] = Idle
  BY DEF DagInit
<1>2. Memory(Idle)
  BY DEF Idle, Memory
<1>. QED
  BY <1>1, <1>2 DEF DagInit, DagInv, Statuses

LEMMA DagKept ==
  ASSUME DagInv, [DagNext]_dagVars
  PROVE  DagInv'
<1>0. late \subseteq overdue /\ dagRun \in [DagRuns -> Statuses]
  BY DEF DagInv
<1>1. CASE UNCHANGED dagVars
  BY <1>0, <1>1, Aloof DEF dagVars
<1>2. ASSUME NEW r \in DagRuns, Trigger(r) PROVE DagInv'
  <2>1. /\ dagRun' \in [DagRuns -> Statuses]
        /\ \A q \in DagRuns : dagRun'[q] = "FAILED" => dagRun[q] = "FAILED"
    BY <1>0, <1>2 DEF Trigger, Statuses
  <2>. QED  BY <1>0, <1>2, <2>1, Aloof DEF Trigger
<1>3. ASSUME NEW r \in DagRuns, Expire(r) PROVE DagInv'
  BY <1>0, <1>3, Aloof DEF Expire
<1>4. ASSUME NEW r \in DagRuns, RunLate(r) PROVE DagInv'
  <2>1. late' \subseteq overdue' /\ overdue \subseteq overdue'
    BY <1>0, <1>4 DEF RunLate
  <2>. QED  BY <1>0, <1>4, <2>1, Aloof DEF RunLate
<1>5. CASE DeleteDagDef \/ ExpireDef
  BY <1>0, <1>5, Aloof DEF DeleteDagDef, ExpireDef
<1>6. ASSUME NEW i \in Ticks, CutOff(i) PROVE DagInv'
  <2>1. Memory(Idle)
    BY DEF Idle, Memory
  <2>. QED  BY <1>0, <1>6, <2>1, Rests DEF CutOff
<1>7. ASSUME NEW i \in Ticks, TickStep(i) PROVE DagInv'
  BY <1>7, NextPhaseKept, Visited, ScheduleTaskKept, ScheduleDoneKept DEF TickStep
<1>. QED
  BY <1>1, <1>2, <1>3, <1>4, <1>5, <1>6, <1>7 DEF DagNext

\* The invariant, for any ticks that overlap and however old their reads are:
\* saveTaskInstance() stores new instances only, and these are NONE.
THEOREM DagSound ==
  DagSpec => []DagInv
<1>1. DagInit => DagInv
  BY DagStarts
<1>2. DagInv /\ [DagNext]_dagVars => DagInv'
  BY DagKept
<1>. QED
  BY <1>1, <1>2, PTL DEF DagSpec

\* A run is closed as a success only with all its tasks, which as wired is never;
\* and it fails only for want of its definition or of time.
THEOREM RunsKept ==
  DagSpec => []RunsAgree
<1>1. DagInv => RunsAgree
  BY DEF DagInv, Statuses, RunsAgree
<1>. QED
  BY <1>1, DagSound, PTL

\* No instance is ever stored as SCHEDULED or QUEUED, so that process and execute
\* pass every run over and the scheduler as wired runs no task.
THEOREM NothingPicked ==
  DagSpec => [](\A r \in DagRuns : Without(r, {"SCHEDULED", "QUEUED", "RUNNING"}))
<1>1. ASSUME DagInv, NEW r \in DagRuns
      PROVE  Without(r, {"SCHEDULED", "QUEUED", "RUNNING"})
  <2>1. \A n \in DOMAIN tis[r] : tis[r][n] \in Stored
    BY <1>1 DEF DagInv
  <2>. QED  BY <2>1 DEF Without, Stored
<1>2. DagInv => \A r \in DagRuns : Without(r, {"SCHEDULED", "QUEUED", "RUNNING"})
  BY <1>1
<1>. QED
  BY <1>2, DagSound, PTL
=============================================================================
