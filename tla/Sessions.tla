------------------------------ MODULE Sessions ------------------------------
(* UserService: logging in.  A login checks the password or a signed one-time *)
(* key, and gives a session token, the user's last one while it lives.  The   *)
(* calls are those that the throttle lets pass: it only refuses.  Time is a   *)
(* bounded clock in units of 30 seconds; keys with a TTL go when it has       *)
(* passed.  Calls interleave at every await.                                  *)
(* A one-time key is recorded by the text of its nonce and verified by the    *)
(* bytes that text decodes to: KeyTexts are keys as they are sent, and two of *)
(* them may be one key.  Where the store is a CachedAtomicStore               *)
(* (store/factory.ts, the Workers deployment) a read may get what is older.   *)
EXTENDS Cells, FiniteSets

CONSTANTS Visitors, Accounts, Tokens, KeyTexts,
          KeyOf, KeyTime, \* the account that signed what k decodes to, its timestamp
          KeyWindow,      \* how far a key's timestamp may be off
          NonceTtl, SessionTtl,
          Offers,         \* Offers[c]: the calls visitor c may make
          Visits,         \* bound: how many
          MaxClock        \* bound of the clock

\* In the code: NonceTtl 90 seconds and KeyWindow 30.
ASSUME TimesAssumption == /\ KeyWindow \in Nat /\ NonceTtl \in Nat /\ 2 * KeyWindow < NonceTtl
                          /\ SessionTtl \in Nat
                          /\ KeyTime \in [KeyTexts -> Nat]

VARIABLES clock,
          session,     \* session:<token>, cells of [user, exp]
          last,        \* user:lastSession:<id>, cells of tokens
          listed,      \* user:sessions:<id>, cells of sets of tokens
          nonce,       \* nonce:<email>:<nonce text>, cells of [exp]
          admitted,    \* history: how often a key passed as this text
          users,       \* the accounts that exist
          viaCache,    \* constant: the store is a CachedAtomicStore
          served,      \* revoked sessions that a cache still gives, per token
          lingering,   \* deleted accounts that a cache still gives
          intruders,   \* history: requests let in that should not be
          visits,      \* how many calls each visitor has left
          visit        \* where each visitor's call stands, with its locals

sessionVars == <<clock, session, last, listed, nonce, admitted, visits, visit,
                 users, intruders, viaCache, served, lingering>>
access == <<users, intruders, viaCache, served, lingering>>

NoToken == "none"
Away == [at |-> "idle", user |-> "none", key |-> "none", token |-> NoToken, seen |-> Empty, out |-> FALSE]

SessionsInit ==
    /\ clock = 0
    /\ session = [t \in Tokens |-> Empty]
    /\ last = [u \in Accounts |-> Empty] /\ listed = [u \in Accounts |-> Empty]
    /\ nonce = [x \in Accounts \X KeyTexts |-> Empty]
    /\ admitted = [k \in KeyTexts |-> 0]
    /\ users = Accounts /\ intruders = {} /\ lingering = {}
    /\ viaCache \in BOOLEAN /\ served = [t \in Tokens |-> {}]
    /\ visits = Visits /\ visit = [c \in Visitors |-> Away]

Doing(c, at) == visit[c].at = at
GoOn(c, at) == visit' = [visit EXCEPT ![c].at = at]
Leave(c) == visit' = [visit EXCEPT ![c] = Away]
Enter(c, op, q) == /\ Doing(c, "idle") /\ visits[c] > 0 /\ op \in Offers[c]
                   /\ visits' = [visits EXCEPT ![c] = @ - 1]
                   /\ visit' = [visit EXCEPT ![c] = q]

\* The sessions that a read of t may find, and the users.
Readable(t) == served[t] \cup (IF Present(session[t]) THEN {Value(session[t])} ELSE {})
MayBeUsers == users \cup lingering
\* A compare-and-set from a reading older than its key is refused.
Outcomes(before, after) == {after} \cup (IF viaCache THEN {before} ELSE {})
Running(s) == clock < s.exp

----------------------------------------------------------------------------
(* login and loginNoPassword                                                  *)

\* With the right password.
Login(c) == \E u \in Accounts :
    /\ Enter(c, "login", [Away EXCEPT !.at = "verify", !.user = u])
    /\ UNCHANGED <<clock, session, last, listed, nonce, admitted, access>>

\* The copy of the user is read, the password verified, the policy applied.
Verify(c) ==
    LET u == visit[c].user IN
    /\ Doing(c, "verify")
    /\ \/ u \in MayBeUsers /\ GoOn(c, "lastRead")
       \/ u \notin users /\ Leave(c)
    /\ UNCHANGED <<clock, session, last, listed, nonce, admitted, visits, access>>

InWindow(k) == clock - KeyTime[k] <= KeyWindow /\ KeyTime[k] - clock <= KeyWindow

\* The one-time key: a timestamp out of the window is refused.
LoginNoPassword(c) == \E u \in Accounts, k \in KeyTexts :
    /\ InWindow(k)
    /\ Enter(c, "key", [Away EXCEPT !.at = "nonce", !.user = u, !.key = k])
    /\ UNCHANGED <<clock, session, last, listed, nonce, admitted, access>>

NonceLife == NonceTtl

\* checkNonce: a create-only write decides who used this text first.
CheckNonce(c) ==
    LET x == <<visit[c].user, visit[c].key>> IN
    /\ Doing(c, "nonce")
    /\ nonce' = [nonce EXCEPT ![x] = Put(@, Null, [exp |-> clock + NonceLife])]
    /\ IF Accepts(nonce[x], Null) THEN GoOn(c, "proof") ELSE Leave(c)
    /\ UNCHANGED <<clock, session, last, listed, admitted, visits, access>>

\* The copy of the user is read, its policy applied, the signature verified.  A
\* key that fails here is used up all the same.
CheckProof(c) ==
    /\ Doing(c, "proof")
    /\ \/ /\ visit[c].user \in MayBeUsers /\ KeyOf[visit[c].key] = visit[c].user
          /\ GoOn(c, "lastRead") /\ admitted' = [admitted EXCEPT ![visit[c].key] = @ + 1]
       \/ Leave(c) /\ UNCHANGED admitted
    /\ UNCHANGED <<clock, session, last, listed, nonce, visits, access>>

----------------------------------------------------------------------------
(* createSession: the last token while it lives, else a new one, recorded     *)
(* under the user and in the list of the user's sessions.                     *)

\* A cache may give what was before: no token yet, or one that is given again
\* while its session is read.
LastRead(c) ==
    /\ Doing(c, "lastRead")
    /\ \/ \E l \in Outcomes(Empty, last[visit[c].user]) :
            visit' = [visit EXCEPT ![c].seen = l, ![c].at = IF Present(l) THEN "reuse" ELSE "create"]
       \/ viaCache /\ Leave(c)
    /\ UNCHANGED <<clock, session, last, listed, nonce, admitted, visits, access>>

Reuse(c) == LET t == Value(visit[c].seen) IN
    /\ Doing(c, "reuse")
    /\ \/ Leave(c) /\ \E s \in Readable(t) : Running(s)
       \/ GoOn(c, "create") /\ (Present(session[t]) => ~Running(Value(session[t])))
    /\ UNCHANGED <<clock, session, last, listed, nonce, admitted, visits, access>>

FreshToken == CHOOSE t \in Tokens : session[t] = Empty

Create(c) == LET t == FreshToken IN
    /\ Doing(c, "create")
    /\ session' = [session EXCEPT ![t] = Put(@, Null, [user |-> visit[c].user, exp |-> clock + SessionTtl])]
    /\ visit' = [visit EXCEPT ![c].token = t, ![c].at = "lastWrite"]
    /\ UNCHANGED <<clock, last, listed, nonce, admitted, visits, access>>

LastWrite(c) ==
    LET q == visit[c] IN
    /\ Doing(c, "lastWrite")
    /\ last' \in Outcomes(last, [last EXCEPT ![q.user] = Put(@, Version(q.seen), q.token)])
    /\ GoOn(c, "listRead")
    /\ UNCHANGED <<clock, session, listed, nonce, admitted, visits, access>>

ListRead(c) ==
    /\ Doing(c, "listRead")
    /\ visit' = [visit EXCEPT ![c].seen = listed[visit[c].user], ![c].at = "listWrite"]
    /\ UNCHANGED <<clock, session, last, listed, nonce, admitted, visits, access>>

\* One try: a list that changed meanwhile does not get the token.
ListWrite(c) ==
    LET q == visit[c]
        old == IF Present(q.seen) THEN Value(q.seen) ELSE {}
    IN  /\ Doing(c, "listWrite")
        /\ listed' \in Outcomes(listed, [listed EXCEPT ![q.user] = Put(@, Version(q.seen), old \cup {q.token})])
        /\ Leave(c)
        /\ UNCHANGED <<clock, session, last, nonce, admitted, visits, access>>

----------------------------------------------------------------------------
(* listSessions and revokeSession                                             *)

\* The tokens of the list that have expired are taken out of it.
StartList(c) == \E u \in Accounts :
    /\ Present(listed[u])
    /\ Enter(c, "list", [Away EXCEPT !.at = "prune", !.user = u, !.seen = listed[u]])
    /\ UNCHANGED <<clock, session, last, listed, nonce, admitted, access>>

\* The sessions themselves are "removed" with a create-only version: they stay.
Prune(c) == LET q == visit[c] IN
    /\ Doing(c, "prune")
    /\ \E dead \in SUBSET {t \in Value(q.seen) : \E s \in Readable(t) : ~Running(s)} :
         /\ \A t \in Value(q.seen) \ dead : Present(session[t]) => Running(Value(session[t]))
         /\ listed' \in Outcomes(listed, [listed EXCEPT ![q.user] =
                         IF dead = {} THEN @ ELSE Put(@, Version(q.seen), Value(q.seen) \ dead)])
         /\ session' = [t \in Tokens |-> IF t \in dead THEN Erase(session[t], Null) ELSE session[t]]
    /\ Leave(c)
    /\ UNCHANGED <<clock, last, nonce, admitted, visits, access>>

\* Where only a cache gives the session, the write is refused.
StartRevoke(c) == \E t \in Tokens : \E s \in Readable(t) :
    /\ Enter(c, "revoke", [Away EXCEPT !.at = "revoke", !.user = s.user,
                                       !.token = t, !.seen = session[t]])
    /\ UNCHANGED <<clock, session, last, listed, nonce, admitted, access>>

Revoke(c) ==
    LET q == visit[c] IN
    /\ Doing(c, "revoke")
    /\ session' = [session EXCEPT ![q.token] = Erase(@, Version(q.seen))]
    /\ served' = IF viaCache THEN [served EXCEPT ![q.token] = Readable(q.token)] ELSE served
    /\ GoOn(c, "unlistRead")
    /\ UNCHANGED <<clock, last, listed, nonce, admitted, visits, users, intruders, viaCache, lingering>>

UnlistRead(c) ==
    /\ Doing(c, "unlistRead")
    /\ IF Present(listed[visit[c].user])
       THEN visit' = [visit EXCEPT ![c].seen = listed[visit[c].user], ![c].at = "unlistWrite"]
       ELSE Leave(c)
    /\ UNCHANGED <<clock, session, last, listed, nonce, admitted, visits, access>>

UnlistWrite(c) ==
    LET q == visit[c] IN
    /\ Doing(c, "unlistWrite")
    /\ listed' \in Outcomes(listed, [listed EXCEPT ![q.user] = Put(@, Version(q.seen), Value(q.seen) \ {q.token})])
    /\ Leave(c)
    /\ UNCHANGED <<clock, session, last, nonce, admitted, visits, access>>

----------------------------------------------------------------------------
(* authz: a request shows a token; its session is read and then its user.     *)

\* Whatever a read may get: no session, one that is over, or one of a user who is
\* gone.
KeepsOut(t) == \A s \in Readable(t) : ~Running(s) \/ s.user \notin MayBeUsers

\* Requests of public paths do not come here, nor those without a token.
Arrive(c) == \E t \in Tokens :
    /\ session[t] # Empty
    /\ Enter(c, "request", [Away EXCEPT !.at = "session", !.token = t, !.out = KeepsOut(t)])
    /\ UNCHANGED <<clock, session, last, listed, nonce, admitted, access>>

\* 401 without a session, or with one that is over; a store that fails is none.
ReadSession(c) ==
    LET t == visit[c].token IN
    /\ Doing(c, "session")
    /\ \/ \E s \in Readable(t) :
            Running(s) /\ visit' = [visit EXCEPT ![c].user = s.user, ![c].at = "user"]
       \/ Leave(c)
    /\ UNCHANGED <<clock, session, last, listed, nonce, admitted, access, visits>>

\* Mutant: the session is trusted.
IsUserAnyhow(u) == TRUE

IsUser(u) == u \in MayBeUsers

\* 401 without the user; then its routes are checked (RouteAcls) and the handler runs.
ReadCurrentUser(c) ==
    /\ Doing(c, "user")
    /\ intruders' = intruders \cup {t \in {visit[c].token} : visit[c].out /\ IsUser(visit[c].user)}
    /\ Leave(c)
    /\ UNCHANGED <<clock, session, last, listed, nonce, admitted, visits, users, viaCache, served, lingering>>

\* UserService.delete leaves the sessions of the user where they are.
DeleteUser(c) == \E u \in users :
    /\ Enter(c, "delete", Away)
    /\ users' = users \ {u}
    /\ lingering' = IF viaCache THEN lingering \cup {u} ELSE lingering
    /\ UNCHANGED <<clock, session, last, listed, nonce, admitted, intruders, viaCache, served>>

----------------------------------------------------------------------------
\* Time passes; what has a TTL that is over is gone.  The check of a key's
\* timestamp and the write of its nonce are consecutive statements: a unit of
\* the clock does not pass between them (the code's margin is 30 seconds).
Reaped(f) == [x \in DOMAIN f |-> IF Present(f[x]) /\ Value(f[x]).exp <= clock' THEN Expire(f[x]) ELSE f[x]]

Pass ==
    /\ clock < MaxClock /\ \A c \in Visitors : ~Doing(c, "nonce")
    /\ clock' = clock + 1
    /\ nonce' = Reaped(nonce)
    /\ UNCHANGED <<session, last, listed, admitted, visits, visit, access>>

\* The copies of what a read gets from a cache end after 30 seconds.
ExpireCopies ==
    /\ \/ \E t \in Tokens : served[t] # {} /\ served' = [served EXCEPT ![t] = {}] /\ UNCHANGED lingering
       \/ \E u \in lingering : lingering' = lingering \ {u} /\ UNCHANGED served
    /\ UNCHANGED <<clock, session, last, listed, nonce, admitted, visits, visit, users, intruders, viaCache>>

SessionsNext ==
    \/ Pass \/ ExpireCopies
    \/ \E c \in Visitors :
         \/ Login(c) \/ Verify(c) \/ LoginNoPassword(c) \/ CheckNonce(c) \/ CheckProof(c)
         \/ LastRead(c) \/ Reuse(c) \/ Create(c) \/ LastWrite(c) \/ ListRead(c) \/ ListWrite(c)
         \/ StartList(c) \/ Prune(c) \/ StartRevoke(c) \/ Revoke(c) \/ UnlistRead(c) \/ UnlistWrite(c)
         \/ Arrive(c) \/ ReadSession(c) \/ ReadCurrentUser(c) \/ DeleteUser(c)

SessionsSpec == SessionsInit /\ [][SessionsNext]_sessionVars

----------------------------------------------------------------------------
\* The text of a one-time key lets one login in, ever: two calls that race with
\* it, or one that comes when the record of its use has expired, do not pass (the
\* nonce outlives every moment at which the timestamp is still accepted).  The same
\* key in another text is another entry, and passes again.
OneTime == \A k \in KeyTexts : admitted[k] <= 1

\* Who is out stays out: a request that arrives when no read finds its session any
\* more, or none that runs, or its user no more, is never let in.  Sessions outlive
\* their users, a login under way may open one after the deletion, and a cache may
\* still give either when the request arrives (then it may be let in).
GoneStaysOut == intruders = {}

LoginsSound == OneTime /\ GoneStaysOut
=============================================================================
