----------------------------- MODULE LogStream -----------------------------
(***************************************************************************)
(* LogStreamDO: the log of one container pushed to the browsers that watch *)
(* it.  The first one starts a stream from Podman; the stream is aborted   *)
(* when the last one goes, or when the alarm of the object fires.          *)
(***************************************************************************)
EXTENDS Naturals, Sequences, FiniteSets

CONSTANTS
    Clients,        \* browsers
    MaxStreams,     \* bound: streams started
    MaxLines,       \* bound: lines the container writes
    MaxRestarts     \* bound: restarts of the container

VARIABLES
    container,  \* "running", "stopped" or "deleted"
    restarts,
    lines,      \* lines it wrote
    sessions,   \* #sessions
    since,      \* lines written before the session and its stream were there
    inbox,      \* lines each session got, in order
    controller, \* #abortController: the stream it belongs to, 0 for null
    streams,    \* [id -> step] of the streams started
    sent,       \* lines the current stream has read
    alarm       \* "none", "idle" or "cleanup"

vars == <<container, restarts, lines, sessions, since, inbox, controller,
          streams, sent, alarm>>

-----------------------------------------------------------------------------
(* The container.                                                          *)

Line ==
    /\ container = "running" /\ lines < MaxLines
    /\ lines' = lines + 1
    /\ UNCHANGED <<container, restarts, sessions, since, inbox, controller,
                   streams, sent, alarm>>

Stops ==
    /\ container = "running"
    /\ container' = "stopped"
    /\ UNCHANGED <<restarts, lines, sessions, since, inbox, controller, streams,
                   sent, alarm>>

Restarts ==
    /\ container = "stopped" /\ restarts < MaxRestarts
    /\ container' = "running"
    /\ restarts' = restarts + 1
    /\ UNCHANGED <<lines, sessions, since, inbox, controller, streams, sent, alarm>>

Deleted ==
    /\ container = "stopped"
    /\ container' = "deleted"
    /\ UNCHANGED <<restarts, lines, sessions, since, inbox, controller, streams,
                   sent, alarm>>

-----------------------------------------------------------------------------
Step(id) == streams[id]
Goes(id, step) == streams' = [streams EXCEPT ![id] = step]

\* #stop: only what awaits with the signal ends; the inspection goes on.
Aborted ==
    [id \in DOMAIN streams |->
        IF id = controller /\ streams[id] \in {"fetching", "reading"}
        THEN "over" ELSE streams[id]]
stop == controller' = 0 /\ streams' = Aborted
stopNot == UNCHANGED <<controller, streams>>

\* A session; the first one starts a stream, the alarm is set again.
Connect(c) ==
    /\ c \notin sessions
    /\ sessions' = sessions \cup {c}
    /\ alarm' = "idle"
    /\ inbox' = [inbox EXCEPT ![c] = <<>>]
    /\ since' = [since EXCEPT ![c] = IF controller = 0 THEN lines ELSE sent]
    /\ IF controller # 0
       THEN UNCHANGED <<controller, streams, sent>>
       ELSE /\ Len(streams) < MaxStreams
            /\ controller' = Len(streams) + 1
            /\ streams' = Append(streams, "fetching")
            /\ sent' = lines
    /\ UNCHANGED <<container, restarts, lines>>

\* The close or the error event of a socket.
Closed(c) ==
    /\ c \in sessions
    /\ sessions' = sessions \ {c}
    /\ IF sessions' = {} THEN stop ELSE stopNot
    /\ UNCHANGED <<container, restarts, lines, since, inbox, sent, alarm>>

\* Podman's answer to the log request; "over" leaves the controller behind.
Answered(id) ==
    /\ Step(id) = "fetching"
    /\ \/ container # "deleted" /\ Goes(id, "reading") /\ UNCHANGED alarm
       \/ container = "deleted" /\ Goes(id, "over") /\ alarm' = "cleanup"
       \/ Goes(id, "over") /\ UNCHANGED alarm           \* any other status
    /\ UNCHANGED <<container, restarts, lines, sessions, since, inbox,
                   controller, sent>>

\* #broadcast of what the stream read.
Reads(id) ==
    /\ Step(id) = "reading" /\ sent < lines
    /\ sent' = sent + 1
    /\ inbox' = [c \in Clients |-> IF c \in sessions
                                   THEN Append(inbox[c], sent + 1) ELSE inbox[c]]
    /\ UNCHANGED <<container, restarts, lines, sessions, since, controller,
                   streams, alarm>>

\* The stream ends with the container, or with an error.
Ends(id) ==
    /\ Step(id) = "reading"
    /\ \/ container # "running" /\ sent = lines /\ Goes(id, "checking")
       \/ Goes(id, "over")
    /\ UNCHANGED <<container, restarts, lines, sessions, since, inbox,
                   controller, sent, alarm>>

\* #checkContainer: a deleted container schedules the end of the sessions.
Checked(id) ==
    /\ Step(id) = "checking"
    /\ Goes(id, "over")
    /\ \/ container = "deleted" /\ alarm' = "cleanup"
       \/ UNCHANGED alarm
    /\ UNCHANGED <<container, restarts, lines, sessions, since, inbox,
                   controller, sent>>

Alarm ==
    /\ alarm # "none"
    /\ alarm' = "none"
    /\ sessions' = {}
    /\ stop
    /\ UNCHANGED <<container, restarts, lines, since, inbox, sent>>

Init ==
    /\ container = "running"
    /\ restarts = 0
    /\ lines = 0
    /\ sessions = {}
    /\ since = [c \in Clients |-> 0]
    /\ inbox = [c \in Clients |-> <<>>]
    /\ controller = 0
    /\ streams = <<>>
    /\ sent = 0
    /\ alarm = "none"

Next ==
    \/ Line \/ Stops \/ Restarts \/ Deleted \/ Alarm
    \/ \E c \in Clients : Connect(c) \/ Closed(c)
    \/ \E id \in DOMAIN streams :
          Answered(id) \/ Reads(id) \/ Ends(id) \/ Checked(id)

Spec == Init /\ [][Next]_vars

-----------------------------------------------------------------------------
Live == {id \in DOMAIN streams : streams[id] \in {"fetching", "reading"}}

\* One stream at a time, the one that can be aborted, and none without a
\* session, however sessions come, go and are timed out (log-stream-do.ts:65).
OneStream == Live \subseteq {controller} /\ (Live # {} => sessions # {})

\* Every session has an alarm that will end it.
SessionsEnd == sessions # {} => alarm # "none"

\* A session gets every line the stream reads after it came, once and in order.
LinesInOrder ==
    \A c \in sessions :
        inbox[c] = [i \in 1..(sent - since[c]) |-> since[c] + i]

LogStreamSound == OneStream /\ SessionsEnd /\ LinesInOrder
=============================================================================
