------------------------------ MODULE ImagePull ------------------------------
(***************************************************************************)
(* Asynchronous image pulls: POST /images/{id}/pull writes a task entity   *)
(* and emits image.pull; the handler of the event hands the task to the    *)
(* queue and notes that it did, or pulls by itself when there is no queue; *)
(* the consumer of the queue, which delivers a message at least once and   *)
(* to several Workers, pulls the image and notes the outcome.  Everybody   *)
(* writes the one task entity with the version read before the long call.  *)
(***************************************************************************)
EXTENDS Naturals, FiniteSets

CONSTANTS
    Tasks,          \* task ids, all of one repository
    Handlers,       \* invocations of the event handler and of the consumer
    MaxRetries,     \* max_retries of the queue
    MaxVersion      \* bound: an event is not handled again past it

VARIABLES
    task,       \* [status, version] of each pull-task entity
    listed,     \* [ids, version] under pull-task:repo:<id>
    posting,    \* requests under way: the step and the index they read
    events,     \* image.pull events not yet dispatched
    messages,   \* attempt at which each task's message is, 0 if it has none
    handler,    \* what each invocation does: [kind, task, step, seen]
    image       \* is the image in the provider's store

vars == <<task, listed, posting, events, messages, handler, image>>

-----------------------------------------------------------------------------
Idle == [kind |-> "idle", task |-> "none", step |-> "none",
         seen |-> [status |-> "none", version |-> 0]]

Final == {"completed", "failed"}

Init ==
    /\ task = [t \in Tasks |-> [status |-> "none", version |-> 0]]
    /\ listed = [ids |-> {}, version |-> 0]
    /\ posting = [t \in Tasks |-> [step |-> "none", seen |-> 0, ids |-> {}]]
    /\ events = {}
    /\ messages = [t \in Tasks |-> 0]
    /\ handler = [h \in Handlers |-> Idle]
    /\ image \in BOOLEAN

\* Mutant: the version is not compared.
NotedAnyway(t, seen, status) ==
    [task EXCEPT ![t] = [status |-> status, version |-> @.version + 1]]

\* set() with the version that was read: answers null when it is stale, which
\* no caller looks at.
Noted(t, seen, status) ==
    IF seen.version # task[t].version THEN task
    ELSE [task EXCEPT ![t] = [status |-> status, version |-> @.version + 1]]

-----------------------------------------------------------------------------
(* The request: the task, the index of the repository, the event. *)

PostTask(t) ==
    /\ posting[t].step = "none"
    /\ task' = [task EXCEPT ![t] = [status |-> "pulling", version |-> 1]]
    /\ posting' = [posting EXCEPT ![t].step = "index"]
    /\ UNCHANGED <<listed, events>>

PostReadsIndex(t) ==
    /\ posting[t].step = "index"
    /\ posting' = [posting EXCEPT ![t] = [step |-> "append",
                                          seen |-> listed.version,
                                          ids |-> listed.ids]]
    /\ UNCHANGED <<task, listed, events>>

\* A refused append is not tried again: the task is there and not listed.
PostAppends(t) ==
    /\ posting[t].step = "append"
    /\ listed' = IF posting[t].seen = listed.version
                 THEN [ids |-> posting[t].ids \cup {t},
                       version |-> listed.version + 1]
                 ELSE listed
    /\ posting' = [posting EXCEPT ![t].step = "emit"]
    /\ UNCHANGED <<task, events>>

PostEmits(t) ==
    /\ posting[t].step = "emit"
    /\ posting' = [posting EXCEPT ![t].step = "done"]
    /\ events' = events \cup {t}
    /\ UNCHANGED <<task, listed>>

Post ==
    /\ \E t \in Tasks : PostTask(t) \/ PostReadsIndex(t) \/ PostAppends(t)
                           \/ PostEmits(t)
    /\ UNCHANGED <<messages, handler, image>>

-----------------------------------------------------------------------------
(* The handler of image.pull. *)

At(h, kind, step) == handler[h].kind = kind /\ handler[h].step = step

Goes(h, step) == handler' = [handler EXCEPT ![h].step = step]

\* Dispatch takes the event out of the loop; a recovery may have put it back.
EventBegins(h) ==
    \E t \in events, again \in BOOLEAN :
        /\ handler[h] = Idle
        /\ task[t].version < MaxVersion
        /\ events' = IF again THEN events ELSE events \ {t}
        /\ handler' = [handler EXCEPT ![h] = [kind |-> "event", task |-> t,
                                              step |-> "send",
                                              seen |-> task[t]]]
        /\ UNCHANGED <<task, messages>>

\* sendImagePull() is true when the queue took the message; false makes the
\* handler pull by itself.
EventSends(h) ==
    /\ At(h, "event", "send")
    /\ \/ /\ messages' = [messages EXCEPT ![handler[h].task] = 1]
          /\ Goes(h, "queued")
       \/ /\ messages' = messages
          /\ Goes(h, "pull")
    /\ UNCHANGED <<task, events>>

EventNotes(h) ==
    /\ At(h, "event", "queued")
    /\ task' = Noted(handler[h].task, handler[h].seen, "queued")
    /\ handler' = [handler EXCEPT ![h] = Idle]
    /\ UNCHANGED <<events, messages>>

Event ==
    /\ \E h \in Handlers : EventBegins(h) \/ EventSends(h) \/ EventNotes(h)
    /\ UNCHANGED <<listed, posting, image>>

-----------------------------------------------------------------------------
(* The consumer. *)

\* The queue delivers a message until it is acknowledged, and may deliver it
\* to two invocations.
Deliver(h) ==
    \E t \in Tasks :
        /\ handler[h] = Idle
        /\ messages[t] > 0
        /\ handler' = [handler EXCEPT ![h] = [kind |-> "message", task |-> t,
                                              step |-> "pull",
                                              seen |-> task[t]]]
        /\ UNCHANGED <<task, messages, image>>

\* pull() of a provider: podman asks its daemon and then inspects the image;
\* ECI asks for a cache and does not wait for it.
Pull(h) ==
    /\ handler[h].step = "pull"
    /\ \E ok \in BOOLEAN :
        /\ image' = (image \/ ok)
        /\ Goes(h, IF ok THEN "completed" ELSE "failed")
    /\ UNCHANGED <<task, messages>>

\* ack(), or retry() until the queue gives up; a message that is gone by then
\* stays gone.
Answered(t, step) ==
    IF messages[t] = 0 \/ step = "completed" \/ messages[t] > MaxRetries
    THEN [messages EXCEPT ![t] = 0]
    ELSE [messages EXCEPT ![t] = @ + 1]

PullNoted(h) ==
    /\ handler[h].step \in Final
    /\ task' = Noted(handler[h].task, handler[h].seen, handler[h].step)
    /\ messages' = IF handler[h].kind = "event" THEN messages
                   ELSE Answered(handler[h].task, handler[h].step)
    /\ handler' = [handler EXCEPT ![h] = Idle]
    /\ UNCHANGED image

\* The Worker ends between two steps: the queue delivers again.
Crash(h) ==
    /\ handler[h] # Idle
    /\ handler' = [handler EXCEPT ![h] = Idle]
    /\ UNCHANGED <<task, messages, image>>

\* getApp() throws: the batch ends without retry(), which acknowledges it.
Panic(h) ==
    /\ handler[h] = Idle
    /\ \E t \in Tasks :
        /\ messages[t] > 0
        /\ messages' = [messages EXCEPT ![t] = 0]
    /\ UNCHANGED <<task, handler, image>>

RemoveImage ==
    /\ image /\ image' = FALSE
    /\ UNCHANGED <<task, messages, handler>>

Consume ==
    /\ \/ \E h \in Handlers : \/ Deliver(h) \/ Pull(h) \/ PullNoted(h)
                              \/ Crash(h) \/ Panic(h)
       \/ RemoveImage
    /\ UNCHANGED <<listed, posting, events>>

Next == Post \/ Event \/ Consume

Spec == Init /\ [][Next]_vars

-----------------------------------------------------------------------------
(* Properties. *)

\* The outcome of a pull is replaced only by an invocation that began after
\* it was written: neither the note "queued", which the handler of the event
\* writes after the consumer may have finished, nor a second delivery that
\* read the task before the first one ended hides a result (image-pull.ts,
\* handleImagePull()).
ResultsOutlive ==
    \A t \in Tasks :
        task[t].status \in Final /\ task'[t] # task[t] =>
            \E h \in Handlers : /\ handler[h].task = t
                                /\ handler[h].seen = task[t]
                                /\ handler'[h] = Idle
=============================================================================
