----------------------------- MODULE EventLoop -----------------------------
(***************************************************************************)
(* EventLoop (src/core/event-bus/loop.ts) in several Worker isolates that  *)
(* share the persisted queue `events:pending', with the EventBus that      *)
(* dispatches a batch and the health check (src/core/events/               *)
(* health-check.ts) that keeps itself going by enqueueing its successor.   *)
(*                                                                         *)
(* Every await is a point where other steps happen: handlers finish one by *)
(* one, and a store transaction is a read and a commit, refused when       *)
(* another commit came in between (DurableStore).                          *)
(***************************************************************************)
EXTENDS Integers, Sequences, FiniteSets, SequencesExt

CONSTANTS Isolates,      \* Workers that run the loop
          Pulls,         \* image.pull events: PERSISTED_TYPES
          Others,        \* events that are not persisted
          Health,        \* the health:pod:check event
          MaxQueueSize,  \* config.maxQueueSize, 0 for no limit
          BatchSize,     \* config.batchSize, 0 for no limit
          Timer,         \* TRUE: setInterval backend, FALSE: DO alarm callback
          MaxRestarts    \* bound on the isolates' restarts

ASSUME EventsAssumption == /\ Pulls \cap Others = {} /\ Health \notin Pulls \cup Others
ASSUME SizesAssumption == /\ MaxQueueSize \in Nat /\ BatchSize \in Nat
                          /\ MaxRestarts \in Nat /\ Timer \in BOOLEAN

Events == Pulls \cup Others \cup {Health}

\* A batch that a tick took off the queue, `left' with handlers still running,
\* and the transaction of #persistDequeue() after them, which has `seen' the
\* list in the store.  Timer batches with the
\* same record are one element: their transactions write the same.
Batch == [by : {"timer", "trigger"}, events : SUBSET Events, left : SUBSET Events,
          stage : {"dispatch", "read", "valid", "stale"}, seen : SUBSET Pulls]
\* The transaction of #persistEnqueue(event) or #recover().
Persist == [op : {"add", "recover"}, event : Events,
            stage : {"read", "valid", "stale"}, seen : SUBSET Pulls]

VARIABLES queue,      \* per isolate: #queue
          batches,    \* per isolate: the ticks in progress
          persists,   \* per isolate: the transactions in progress
          ticking,    \* per isolate: #ticking
          paused,     \* per isolate: #paused
          running,    \* per isolate: #timerHandle is set
          pending,    \* the value of events:pending
          written,    \* events:pending was written once
          sent,       \* events given to enqueue() (history)
          persisted,  \* events that reached events:pending (history)
          handled,    \* events whose handlers have run (history)
          restarts    \* number of restarts

vars == <<queue, batches, persists, ticking, paused, running, pending, written,
          sent, persisted, handled, restarts>>
control == <<ticking, paused, running>>
history == <<sent, persisted, handled, restarts>>

TypeOK == /\ queue \in [Isolates -> Seq(Events)]
          /\ batches \in [Isolates -> SUBSET Batch]
          /\ persists \in [Isolates -> SUBSET Persist]
          /\ {ticking, paused, running} \subseteq [Isolates -> BOOLEAN]
          /\ pending \subseteq Pulls
          /\ written \in BOOLEAN
          /\ sent \subseteq Pulls \cup Others
          /\ persisted \subseteq Pulls
          /\ handled \subseteq Events
          /\ restarts \in 0..MaxRestarts

\* The constructor starts the loop; registerPodHealthCheck() enqueues the first
\* check.
Init == /\ queue = [i \in Isolates |-> <<Health>>]
        /\ batches = [i \in Isolates |-> {}]
        /\ persists = [i \in Isolates |-> {}]
        /\ ticking = [i \in Isolates |-> FALSE]
        /\ paused = [i \in Isolates |-> FALSE]
        /\ running = [i \in Isolates |-> TRUE]
        /\ pending = {} /\ written = FALSE
        /\ sent = {} /\ persisted = {} /\ handled = {} /\ restarts = 0

-----------------------------------------------------------------------------
\* The transactions of all isolates on events:pending: a commit makes the other
\* reads stale.
Stale(t) == IF t.stage = "valid" THEN [t EXCEPT !.stage = "stale"] ELSE t
StaleAll(f) == [i \in Isolates |-> {Stale(t) : t \in f[i]}]

\* Mutant: a transaction commits whatever happened since it read.
MayCommitAnyway(t) == t.stage \in {"valid", "stale"}

MayCommit(t) == t.stage = "valid"

\* enqueue(), enqueueTrigger(): below the limit.
Admits(i) == MaxQueueSize = 0 \/ Len(queue[i]) < MaxQueueSize

\* #PERSISTED_TYPES.
Persisted(e) == e \in Pulls

Enqueue(i, e) ==
  /\ e \notin sent
  /\ sent' = sent \cup {e}
  /\ IF Admits(i)
       THEN /\ queue' = [queue EXCEPT ![i] = Append(@, e)]
            /\ persists' = IF Persisted(e)
                 THEN [persists EXCEPT ![i] = @ \cup
                        {[op |-> "add", event |-> e, stage |-> "read", seen |-> {}]}]
                 ELSE persists
       ELSE UNCHANGED <<queue, persists>>
  /\ UNCHANGED <<batches, control, pending, written, persisted, handled, restarts>>

\* Mutant: the recovery does not wait its turn.
NotRecovering(i) == FALSE

\* The isolate's requests reach the store in order: the recovery it began when
\* it was constructed reads first.
Recovering(i) == \E t \in persists[i] : t.op = "recover" /\ t.stage = "read"

PersistRead(i, t) ==
  /\ t \in persists[i] /\ t.op = "add" /\ t.stage = "read"
  /\ ~Recovering(i)
  /\ persists' = [persists EXCEPT ![i] = (@ \ {t}) \cup
                    {[t EXCEPT !.stage = "valid", !.seen = pending]}]
  /\ UNCHANGED <<queue, batches, control, pending, written, history>>

\* #recover() puts what it reads on the queue before its commit is known.
RecoverRead(i, t) ==
  /\ t \in persists[i] /\ t.op = "recover" /\ t.stage = "read"
  /\ queue' = [queue EXCEPT ![i] = @ \o SetToSeq(pending)]
  /\ persists' = [persists EXCEPT ![i] = (@ \ {t}) \cup
                    IF written THEN {[t EXCEPT !.stage = "valid", !.seen = pending]} ELSE {}]
  /\ UNCHANGED <<batches, control, pending, written, history>>

PersistCommit(i, t) ==
  /\ t \in persists[i] /\ MayCommit(t)
  /\ pending' = IF t.op = "add" THEN t.seen \cup {t.event} ELSE {}
  /\ persisted' = IF t.op = "add" THEN persisted \cup {t.event} ELSE persisted
  /\ written' = TRUE
  /\ persists' = StaleAll([persists EXCEPT ![i] = @ \ {t}])
  /\ batches' = StaleAll(batches)
  /\ UNCHANGED <<queue, control, sent, handled, restarts>>

\* The transaction conflicts, or the store fails: reported, not retried.
PersistFail(i, t) ==
  /\ t \in persists[i] /\ t.stage # "read"
  /\ persists' = [persists EXCEPT ![i] = @ \ {t}]
  /\ UNCHANGED <<queue, batches, control, pending, written, history>>

-----------------------------------------------------------------------------
\* Mutant: triggerTick() does not look at #ticking.
MayTickAlways(i, by) == IF by = "trigger" THEN TRUE ELSE Timer /\ running[i]

\* triggerTick() returns when one of its ticks is in progress; the timer's
\* callback does not ask.
MayTick(i, by) == IF by = "trigger" THEN ~ticking[i] ELSE Timer /\ running[i]

Limit(i) == IF BatchSize > 0 /\ BatchSize < Len(queue[i]) THEN BatchSize ELSE Len(queue[i])

Tick(i, by) ==
  /\ MayTick(i, by)
  /\ ~paused[i] /\ queue[i] # <<>>
  /\ LET batch == ToSet(SubSeq(queue[i], 1, Limit(i)))
     IN batches' = [batches EXCEPT ![i] = @ \cup
          {[by |-> by, events |-> batch, left |-> batch, stage |-> "dispatch", seen |-> {}]}]
  /\ queue' = [queue EXCEPT ![i] = SubSeq(@, Limit(i) + 1, Len(@))]
  /\ ticking' = IF by = "trigger" THEN [ticking EXCEPT ![i] = TRUE] ELSE ticking
  /\ UNCHANGED <<persists, paused, running, pending, written, history>>

\* Mutant: the health check enqueues its successor through enqueue(), which may
\* drop it.
SuccessorDroppable(i, e) == IF e = Health /\ Admits(i) THEN <<Health>> ELSE <<>>

\* The health check enqueues the next one, in `finally', with enqueuePriority().
Successor(i, e) == IF e = Health THEN <<Health>> ELSE <<>>

\* A handler returns or throws; dispatch() reports what it threw.
Handle(i, b, e) ==
  /\ b \in batches[i] /\ e \in b.left
  /\ handled' = handled \cup {e}
  /\ batches' = [batches EXCEPT ![i] = (@ \ {b}) \cup
       {[b EXCEPT !.left = @ \ {e}, !.stage = IF b.left = {e} THEN "read" ELSE @]}]
  /\ queue' = [queue EXCEPT ![i] = @ \o Successor(i, e)]
  /\ UNCHANGED <<persists, control, pending, written, sent, persisted, restarts>>

\* #persistDequeue(): take the batch out of events:pending.
DequeueRead(i, b) ==
  /\ b \in batches[i] /\ b.stage = "read"
  /\ ~Recovering(i)
  /\ batches' = [batches EXCEPT ![i] = (@ \ {b}) \cup
                   {[b EXCEPT !.stage = "valid", !.seen = pending]}]
  /\ UNCHANGED <<queue, persists, control, pending, written, history>>

\* Mutant: triggerTick() leaves its guard set.
EndTickNever(i, b) == UNCHANGED ticking

\* triggerTick()'s finally.
EndTick(i, b) == ticking' = IF b.by = "trigger" THEN [ticking EXCEPT ![i] = FALSE] ELSE ticking

DequeueCommit(i, b) ==
  /\ b \in batches[i] /\ MayCommit(b)
  /\ pending' = b.seen \ b.events
  /\ written' = TRUE
  /\ persists' = StaleAll(persists)
  /\ batches' = StaleAll([batches EXCEPT ![i] = @ \ {b}])
  /\ EndTick(i, b)
  /\ UNCHANGED <<queue, paused, running, history>>

DequeueFail(i, b) ==
  /\ b \in batches[i] /\ b.stage \in {"valid", "stale"}
  /\ batches' = [batches EXCEPT ![i] = @ \ {b}]
  /\ EndTick(i, b)
  /\ UNCHANGED <<queue, persists, paused, running, pending, written, history>>

-----------------------------------------------------------------------------
Start(i) == /\ ~running[i]
            /\ running' = [running EXCEPT ![i] = TRUE]
            /\ paused' = [paused EXCEPT ![i] = FALSE]
            /\ UNCHANGED <<queue, batches, persists, ticking, pending, written, history>>

Stop(i) == /\ running[i]
           /\ running' = [running EXCEPT ![i] = FALSE]
           /\ paused' = [paused EXCEPT ![i] = FALSE]
           /\ UNCHANGED <<queue, batches, persists, ticking, pending, written, history>>

SetPaused(i, p) == /\ paused' = [paused EXCEPT ![i] = p]
                   /\ UNCHANGED <<queue, batches, persists, ticking, running,
                                  pending, written, history>>
Pause(i) == ~paused[i] /\ SetPaused(i, TRUE)
Resume(i) == paused[i] /\ SetPaused(i, FALSE)

\* The isolate is evicted and a later request constructs the app again.
Restart(i) ==
  /\ restarts < MaxRestarts
  /\ restarts' = restarts + 1
  /\ queue' = [queue EXCEPT ![i] = <<Health>>]
  /\ batches' = [batches EXCEPT ![i] = {}]
  /\ persists' = [persists EXCEPT ![i] =
                    {[op |-> "recover", event |-> Health, stage |-> "read", seen |-> {}]}]
  /\ ticking' = [ticking EXCEPT ![i] = FALSE]
  /\ paused' = [paused EXCEPT ![i] = FALSE]
  /\ running' = [running EXCEPT ![i] = TRUE]
  /\ UNCHANGED <<pending, written, sent, persisted, handled>>

TickStep(i) ==
  \/ \E by \in {"timer", "trigger"} : Tick(i, by)
  \/ \E b \in batches[i] :
       \/ \E e \in b.left : Handle(i, b, e)
       \/ DequeueRead(i, b) \/ DequeueCommit(i, b) \/ DequeueFail(i, b)

StoreStep(i) ==
  \E t \in persists[i] : \/ PersistRead(i, t) \/ RecoverRead(i, t)
                         \/ PersistCommit(i, t) \/ PersistFail(i, t)

Next == \E i \in Isolates :
          \/ \E e \in Pulls \cup Others : Enqueue(i, e)
          \/ TickStep(i) \/ StoreStep(i)
          \/ Start(i) \/ Stop(i) \/ Pause(i) \/ Resume(i)
          \/ Restart(i)

Spec == Init /\ [][Next]_vars

\* Requests keep coming and trigger ticks (the middleware of app.ts), handlers
\* and store calls return.
Fairness == \A i \in Isolates :
  /\ WF_vars(\E by \in {"timer", "trigger"} : Tick(i, by))
  /\ \A e \in Events : WF_vars(\E b \in batches[i] : e \in b.left /\ Handle(i, b, e))
  /\ WF_vars(\E b \in batches[i] : DequeueRead(i, b) \/ DequeueCommit(i, b) \/ DequeueFail(i, b))
  /\ WF_vars(StoreStep(i))
FairSpec == Spec /\ Fairness

-----------------------------------------------------------------------------
\* Where an event is in an isolate's memory.
Queued(i, e) == {n \in 1..Len(queue[i]) : queue[i][n] = e}
Running(i, e) == {b \in batches[i] : e \in b.left}
InMemory(i, e) == Queued(i, e) # {} \/ Running(i, e) # {}

\* An isolate always has exactly one health check, waiting or running: a second
\* one would double with every tick, none at all would end the garbage
\* collection of pods (health-check.ts, finally).
OneHealthCheck ==
  \A i \in Isolates : Cardinality(Queued(i, Health)) + Cardinality(Running(i, Health)) = 1

\* Between two restarts an isolate runs the handlers of an event once, although
\* it has it both from enqueue() and from the store.
NoDuplicates ==
  \A i \in Isolates, e \in Pulls \cup Others :
    Cardinality(Queued(i, e)) + Cardinality(Running(i, e)) <= 1

\* "they survive Worker restarts and are recovered on the next construction"
\* (loop.ts, EventLoop): what reached the store is there, in some isolate's
\* memory, or has been handled.
PersistedSurvive ==
  \A e \in persisted : e \in handled \cup pending \/ \E i \in Isolates : InMemory(i, e)

\* "only one batch processes at a time" (loop.ts, #tick), and the guard of triggerTick()
\* is released exactly when its tick is over: left set, it would end all ticks of a
\* production Worker.
OneBatch ==
  /\ TypeOK
  /\ \A i \in Isolates : /\ Cardinality(batches[i]) <= 1
                         /\ ticking[i] <=> \E b \in batches[i] : b.by = "trigger"

\* A loop that is not kept paused or restarted runs its health check for ever.
HealthCheckRecurs ==
  \A i \in Isolates : <>[]~paused[i] => []<>(Running(i, Health) # {})

\* An event that was admitted is handled unless the loop stays paused or the
\* isolate goes.
AdmittedHandled ==
  \A i \in Isolates : <>[]~paused[i] =>
    \A e \in Pulls \cup Others : (Queued(i, e) # {}) ~> (e \in handled \/ restarts > 0)
=============================================================================
