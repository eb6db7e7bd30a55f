----------------------------- MODULE AlarmTimer -----------------------------
(***************************************************************************)
(* The timer backends of src/core/scheduler: AlarmTimerDO, a Durable Object *)
(* whose alarm calls the Worker back and is set again, the DoAlarmBackend   *)
(* of an isolate in front of it, and setInterval.  The fields of the object *)
(* are in memory, its alarm is in storage; while alarm() awaits the answer  *)
(* of the callback other requests are served.                              *)
(***************************************************************************)
EXTENDS Naturals, FiniteSets

CONSTANTS
    Isolates,       \* Workers with an event loop each
    HasCallback,    \* TRUE: WORKER_URL is set, the alarm drives the ticks
    Interval,       \* intervalMs
    MaxEvictions,   \* bound: evictions of the object
    MaxStarts,      \* bound: calls of start()
    MaxTime         \* bound: units of time

ASSUME IntervalAssumption == Interval \in Nat

VARIABLES
    now,
    local,      \* isolates whose setInterval runs
    asked,      \* requests on their way to the object
    running, tickCount, firstAlarmAt,       \* its fields
    alarm,      \* its alarm: set of at most one time
    calling,    \* alarm() awaits the callback
    evictions,
    starts

timerVars == <<now, local, asked, running, tickCount, firstAlarmAt, alarm, calling,
              evictions, starts>>

-----------------------------------------------------------------------------
\* createTimerBackend: without a callback the isolate runs setInterval too.
Start(i) ==
    /\ starts < MaxStarts
    /\ starts' = starts + 1
    /\ local' = IF HasCallback THEN local ELSE local \cup {i}
    /\ asked' = asked \cup {[call |-> "start", n |-> starts]}
    /\ UNCHANGED <<now, running, tickCount, firstAlarmAt, alarm, calling,
                   evictions>>

\* clear() of any isolate stops the one object.
Clear(i) ==
    /\ starts > 0
    /\ local' = local \ {i}
    /\ asked' = asked \cup {[call |-> "stop", n |-> starts]}
    /\ UNCHANGED <<now, running, tickCount, firstAlarmAt, alarm, calling,
                   evictions, starts>>

ServeStart(r) ==
    /\ r.call = "start"
    /\ running' = TRUE
    /\ tickCount' = 0
    /\ firstAlarmAt' = now
    /\ alarm' = {now + Interval}

ServeStop(r) ==
    /\ r.call = "stop"
    /\ running' = FALSE
    /\ alarm' = {}
    /\ UNCHANGED <<tickCount, firstAlarmAt>>

Serve ==
    \E r \in asked :
        /\ asked' = asked \ {r}
        /\ ServeStart(r) \/ ServeStop(r)
        /\ UNCHANGED <<now, local, calling, evictions, starts>>

\* Mutant: the next alarm is not later than the first.
NextAtFirst == firstAlarmAt + Interval

\* nextAt, when the object knows when it was started.
NextAt == firstAlarmAt + tickCount * Interval

\* The alarm is over once it fires; an object that does not run lets it be.
AlarmFires ==
    /\ ~calling /\ \E at \in alarm : at <= now
    /\ alarm' = {}
    /\ IF running THEN calling' = TRUE /\ tickCount' = tickCount + 1
                  ELSE UNCHANGED <<calling, tickCount>>
    /\ UNCHANGED <<now, local, asked, running, firstAlarmAt, evictions, starts>>

\* The callback answered or failed; the alarm is set whatever happened since.
AlarmEnds ==
    /\ calling
    /\ calling' = FALSE
    /\ alarm' = {NextAt}
    /\ UNCHANGED <<now, local, asked, running, tickCount, firstAlarmAt,
                   evictions, starts>>

\* The object is evicted between two requests: the fields start again.
Evict ==
    /\ ~calling
    /\ evictions < MaxEvictions
    /\ evictions' = evictions + 1
    /\ running' = FALSE
    /\ tickCount' = 0
    /\ firstAlarmAt' = 0
    /\ UNCHANGED <<now, local, asked, alarm, calling, starts>>

Pass ==
    /\ now < MaxTime
    /\ now' = now + 1
    /\ UNCHANGED <<local, asked, running, tickCount, firstAlarmAt, alarm,
                   calling, evictions, starts>>

TimerInit ==
    /\ now = 1
    /\ local = {}
    /\ asked = {}
    /\ running = FALSE
    /\ tickCount = 0
    /\ firstAlarmAt = 0
    /\ alarm = {}
    /\ calling = FALSE
    /\ evictions = 0
    /\ starts = 0

TimerNext ==
    \/ \E i \in Isolates : Start(i) \/ Clear(i)
    \/ Serve \/ AlarmFires \/ AlarmEnds \/ Evict \/ Pass

TimerSpec == TimerInit /\ [][TimerNext]_timerVars

-----------------------------------------------------------------------------
\* The object ticks at most once per interval and once more, counted from its
\* start, whoever starts and stops it while a callback is under way
\* (alarm-timer-do.ts:54: no accumulated jitter, and no burst either).
TicksBounded ==
    running => tickCount * Interval <= now - firstAlarmAt + Interval

\* Unless it was evicted, a started object has its alarm or is about to set it.
StillArmed == running => calling \/ alarm # {}

TimerSound == TicksBounded /\ StillArmed
=============================================================================
