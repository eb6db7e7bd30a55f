----------------------------- MODULE Gatekeeper -----------------------------
(* The middleware every request passes, in the order in which createApp()     *)
(* installs it: the token bucket of its address, the stored response of its   *)
(* idempotency key, session and route check, then the handler.  The buckets   *)
(* are in the memory of an isolate, one Map per rateLimit(), and are lost     *)
(* with it; what is stored under an idempotency key is shared.                *)
EXTENDS Cells, FiniteSets

CONSTANTS Arrivals,      \* numbers, in the order in which the requests come
          Hosts,         \* the isolates that serve requests
          Ips, IdempotencyKeys, NoKey,
          Burst, Interval, Enabled, BypassIps, HasBypassToken,     \* RateLimitConfig
          MaxTime              \* bound: the time

ASSUME RateAssumption == Burst \in Nat /\ Interval \in Nat

VARIABLES time,
          bucket,    \* per isolate and address, in units of 1/Interval token
          idem,      \* idempotency:<key>, a cell of responses
          req,       \* each request: where it is, its address and key, its response
          passed     \* history: when a bucket let requests through, since the isolate started

gateVars == <<time, bucket, idem, req, passed>>

Doors == Hosts \X Ips

Full == Burst * Interval

\* No entry in the Map: a full one is made, which is what one full since the start is.
NoBucket == [tokens |-> Full, lastRefill |-> 0]

Statuses == {"below500", "5xx"}
NoResponse == [status |-> "none", by |-> 0]

Waiting == [pc |-> "new", ip |-> "none", key |-> NoKey, response |-> NoResponse, after |-> {}]

GateInit ==
    /\ time = 0
    /\ bucket = [d \in Doors |-> NoBucket]
    /\ idem = [k \in IdempotencyKeys |-> Empty]
    /\ req = [r \in Arrivals |-> Waiting]
    /\ passed = [d \in Doors |-> <<>>]

Tick == time < MaxTime /\ time' = time + 1 /\ UNCHANGED <<bucket, idem, req, passed>>

Least(a, b) == IF a < b THEN a ELSE b

\* Mutant: the bucket may hold more than the burst.
RefillUncapped(b) ==
    [tokens |-> b.tokens + (time - b.lastRefill) * Burst, lastRefill |-> time]

\* tokens += (elapsed / intervalMs) * burst, at most burst.
Refill(b) ==
    [tokens |-> Least(Full, b.tokens + (time - b.lastRefill) * Burst), lastRefill |-> time]

\* An isolate is replaced by a new one, with no bucket.
IsolateLost(h) ==
    /\ bucket' = [d \in Doors |-> IF d[1] = h THEN NoBucket ELSE bucket[d]]
    /\ passed' = [d \in Doors |-> IF d[1] = h THEN <<>> ELSE passed[d]]
    /\ UNCHANGED <<time, idem, req>>

Limits(i) == Enabled /\ i \notin BypassIps

\* A request of address i with key k that is next to be looked at goes on, or not.
Enters(r, i, k, pass) ==
    /\ req[r].pc = "new"
    /\ \A s \in Arrivals : s < r => req[s].pc # "new"
    /\ req' = [req EXCEPT ![r] =
         [pc |-> IF pass THEN IF k = NoKey THEN "handler" ELSE "lookup" ELSE "limited",
          ip |-> i, key |-> k, response |-> NoResponse,
          after |-> {Value(v) : v \in {v \in {idem[j] : j \in {k} \ {NoKey}} : Present(v)}}]]

\* rateLimit() is off, or does not ask the bucket: an exempt address, or the token.
Bypass(r) ==
    /\ \E i \in Ips, k \in IdempotencyKeys \cup {NoKey} :
         (~Limits(i) \/ HasBypassToken) /\ Enters(r, i, k, TRUE)
    /\ UNCHANGED <<time, bucket, idem, passed>>

\* rateLimit(): no await between the refill and the decision.
RateLimit(r) ==
    /\ \E d \in Doors, k \in IdempotencyKeys \cup {NoKey} :
         LET b == Refill(bucket[d])
             pass == b.tokens >= Interval
         IN  /\ Limits(d[2]) /\ Enters(r, d[2], k, pass)
             /\ bucket' = [bucket EXCEPT ![d] = IF pass THEN [b EXCEPT !.tokens = @ - Interval] ELSE b]
             /\ passed' = IF pass THEN [passed EXCEPT ![d] = Append(@, time)] ELSE passed
    /\ UNCHANGED <<time, idem>>

\* idempotency(): a stored response is replayed.
Lookup(r) ==
    LET e == idem[req[r].key] IN
    /\ req[r].pc = "lookup"
    /\ req' = [req EXCEPT ![r] = IF Present(e) THEN [@ EXCEPT !.pc = "replayed", !.response = Value(e)]
                                 ELSE [@ EXCEPT !.pc = "handler"]]
    /\ UNCHANGED <<time, bucket, idem, passed>>

\* authz() answers 401 or 403, the handler whatever it does; what is thrown
\* becomes a response of its status, or 500.
Handle(r) ==
    /\ req[r].pc = "handler"
    /\ \E s \in Statuses :
         req' = [req EXCEPT ![r].pc = IF req[r].key = NoKey \/ s = "5xx" THEN "done" ELSE "store",
                            ![r].response = [status |-> s, by |-> r]]
    /\ UNCHANGED <<time, bucket, idem, passed>>

\* Create-only: the first of two overlapping requests stores its response.
StoredResponse(c, response) == Put(c, Null, response)

Keep(r) ==
    LET q == req[r] IN
    /\ q.pc = "store"
    /\ idem' = [idem EXCEPT ![q.key] = StoredResponse(@, q.response)]
    /\ req' = [req EXCEPT ![r].pc = "done"]
    /\ UNCHANGED <<time, bucket, passed>>

GateNext ==
    \/ Tick
    \/ \E h \in Hosts : IsolateLost(h)
    \/ \E r \in Arrivals : Bypass(r) \/ RateLimit(r) \/ Lookup(r) \/ Handle(r) \/ Keep(r)

GateSpec == GateInit /\ [][GateNext]_gateVars

----------------------------------------------------------------------------
\* Over any stretch of time an isolate's bucket lets through at most the burst of
\* an address and what it regained meanwhile, however the requests are spread and
\* refused.  It is a bound per isolate and for as long as the isolate lives: the
\* program has none over all isolates, and none for what bypasses the limiter.
RateBounded ==
    \A d \in Doors : \A m, n \in 1..Len(passed[d]) :
        m <= n => (n - m + 1) * Interval <= Full + Burst * (passed[d][n] - passed[d][m])

\* A request that comes when a response is stored under its key gets that one
\* and is not handled again, and all replays of a key are of one response.
ReplaysAgree ==
    /\ \A r \in Arrivals : req[r].after # {} /\ req[r].pc \in {"replayed", "done", "store", "handler"} =>
         req[r].pc = "replayed" /\ {req[r].response} = req[r].after
    /\ \A r, s \in Arrivals : req[r].pc = "replayed" /\ req[s].pc = "replayed" /\ req[r].key = req[s].key =>
         req[r].response = req[s].response

GateSound == RateBounded /\ ReplaysAgree
=============================================================================
