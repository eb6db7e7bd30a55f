--------------------------- MODULE Notifications ---------------------------
(***************************************************************************)
(* Events of the bus pushed to browsers: DoBridge forwards four types of   *)
(* events to the one NotificationDO, which keeps the sockets and what each *)
(* subscribed to.  Forwards are not awaited, so they overtake each other.  *)
(*                                                                         *)
(* Channels are abstract: Matches says which types a channel covers, what  *)
(* #matches does with "*", "pod.*" and exact names.                        *)
(***************************************************************************)
EXTENDS Naturals, Sequences, FiniteSets

CONSTANTS
    Clients,        \* browsers
    Bridged,        \* types DoBridge subscribes to
    Allowed,        \* ALLOWED_EVENT_TYPES of the object
    Channels,       \* names a client may subscribe to
    Covers,         \* [Channels -> SUBSET Bridged], #matches
    MaxEvents,      \* bound: events on the bus
    MaxFailures     \* bound: forwards that fail

VARIABLES
    sessions,   \* #sessions
    filters,    \* #filters: [channels] or none, per client
    broken,     \* sockets whose peer is gone while no close event came
    emitted,    \* types of the events on the bus, in order
    forwards,   \* events on their way to the object
    failed,     \* events whose forward failed
    inbox,      \* events each client got, in order
    joined      \* events emitted before the client's current subscription

vars == <<sessions, filters, broken, emitted, forwards, failed, inbox, joined>>

-----------------------------------------------------------------------------
NoFilter == {}      \* the client never subscribed
Subscribed(c) == filters[c] # NoFilter

\* GET /ws/notifications and #handleUpgrade.
Connect(c) ==
    /\ c \notin sessions
    /\ sessions' = sessions \cup {c}
    /\ broken' = broken \ {c}
    /\ UNCHANGED <<filters, emitted, forwards, failed, inbox, joined>>

\* #handleMessage: the last subscription counts.
Subscribe(c, channels) ==
    /\ c \in sessions \ broken
    /\ filters' = [filters EXCEPT ![c] = {channels}]
    /\ joined' = [joined EXCEPT ![c] = Len(emitted)]
    /\ UNCHANGED <<sessions, broken, emitted, forwards, failed, inbox>>

Closed(c) ==
    /\ c \in sessions
    /\ sessions' = sessions \ {c}
    /\ filters' = [filters EXCEPT ![c] = NoFilter]
    /\ UNCHANGED <<broken, emitted, forwards, failed, inbox, joined>>

Break(c) ==
    /\ c \in sessions \ broken
    /\ broken' = broken \cup {c}
    /\ UNCHANGED <<sessions, filters, emitted, forwards, failed, inbox, joined>>

\* bus.emit: the handler of the bridge starts a forward.
Emit(type) ==
    /\ Len(emitted) < MaxEvents
    /\ emitted' = Append(emitted, type)
    /\ forwards' = forwards \cup {Len(emitted) + 1}
    /\ UNCHANGED <<sessions, filters, broken, failed, inbox, joined>>

\* Mutant: all channels must match, and none matches nothing.
MatchesOne(channels, type) ==
    channels # {} /\ \A ch \in channels : type \in Covers[ch]

\* An empty list of channels is no filter.
Matches(channels, type) ==
    channels = {} \/ \E ch \in channels : type \in Covers[ch]

Listens(c, type) == \E channels \in filters[c] : Matches(channels, type)

\* POST /broadcast: a type that is not allowed is answered 400, which the
\* bridge does not look at; a socket that cannot be sent to is dropped.
Broadcast(e) ==
    /\ e \in forwards
    /\ forwards' = forwards \ {e}
    /\ IF emitted[e] \notin Allowed
       THEN UNCHANGED <<inbox, sessions, filters>>
       ELSE LET to == {c \in Clients : Listens(c, emitted[e])}
            IN  /\ inbox' = [c \in Clients |->
                       IF c \in to \ broken THEN Append(inbox[c], e) ELSE inbox[c]]
                /\ sessions' = sessions \ (to \cap broken)
                /\ filters' = [c \in Clients |->
                       IF c \in to \cap broken THEN NoFilter ELSE filters[c]]
    /\ UNCHANGED <<broken, emitted, failed, joined>>

\* The stub throws: an error in the console.
ForwardFails(e) ==
    /\ e \in forwards
    /\ Cardinality(failed) < MaxFailures
    /\ forwards' = forwards \ {e}
    /\ failed' = failed \cup {e}
    /\ UNCHANGED <<sessions, filters, broken, emitted, inbox, joined>>

Init ==
    /\ sessions = {}
    /\ filters = [c \in Clients |-> NoFilter]
    /\ broken = {}
    /\ emitted = <<>>
    /\ forwards = {}
    /\ failed = {}
    /\ inbox = [c \in Clients |-> <<>>]
    /\ joined = [c \in Clients |-> 0]

Next ==
    \/ \E c \in Clients :
          \/ Connect(c) \/ Closed(c) \/ Break(c)
          \/ \E channels \in SUBSET Channels : Subscribe(c, channels)
    \/ \E type \in Bridged : Emit(type)
    \/ \E e \in forwards : Broadcast(e) \/ ForwardFails(e)

Spec == Init /\ [][Next]_vars

-----------------------------------------------------------------------------
Got(c) == {inbox[c][i] : i \in DOMAIN inbox[c]}

\* What a client is owed: events of one of its channels, or all if it named
\* none, since it subscribed.
Wants(c, type) ==
    \E channels \in filters[c] :
        type \in UNION {Covers[ch] : ch \in channels} \/ channels = {}
Owed(c) == {e \in 1..Len(emitted) :
               c \in sessions \ broken /\ joined[c] < e /\ Wants(c, emitted[e])}

\* Every allowed event reaches every client that subscribed to it before it was
\* emitted, once, unless its forward failed; sockets that went leave no filter
\* behind (do.ts:86).
NothingMissed ==
    \A c \in Clients :
        /\ \A e \in Owed(c) :
              emitted[e] \in Allowed /\ e \notin forwards \cup failed => e \in Got(c)
        /\ Cardinality(Got(c)) = Len(inbox[c])
        /\ Subscribed(c) => c \in sessions
=============================================================================
