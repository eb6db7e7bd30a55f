-------------------------- MODULE PermissionGrants --------------------------
(* PermissionService: temporary elevations and group invitations.  Requests   *)
(* of several clients interleave at every await; a transaction is one step,   *)
(* or, retried in vain while others write, none.                              *)
EXTENDS Cells, FiniteSets

CONSTANTS Clients, Users, Invites,
          Calls, MaxTime,            \* bounds: requests per client, ticks
          Duration, InviteLife       \* of an elevation, of an invitation

VARIABLES now,
          ids,         \* temp:elev:ids, a cell of a set of users
          elev,        \* temp:elev:<user>, cells of an expiry
          invite,      \* invite:<id>, cells of invitations
          index,       \* the ids of the invitations sent
          group,       \* usergroup:<id>, the members, if the group is there
          left, p      \* per client: requests left, and the one under way

vars == <<now, ids, elev, invite, index, group, left, p>>
elevation == <<ids, elev>>
invitation == <<invite, index, group>>

Idle == [at |-> "idle", user |-> "none", id |-> "none", expiry |-> 0,
         seen |-> Empty, todo |-> {}, stale |-> {}]

Init == /\ now = 0
        /\ ids = Empty /\ elev = [u \in Users |-> Empty]
        /\ invite = [i \in Invites |-> Empty] /\ index = {}
        /\ group = {{}}
        /\ left = Calls
        /\ p = [c \in Clients |-> Idle]

Busy(c, at) == p[c].at = at
Go(c, q) == p' = [p EXCEPT ![c] = q]
End(c) == Go(c, Idle)
Contended(c) == \E d \in Clients \ {c} : ~Busy(d, "idle")
Begin(c, q) == /\ Busy(c, "idle") /\ left[c] > 0
               /\ left' = [left EXCEPT ![c] = @ - 1]
               /\ Go(c, q)
               /\ UNCHANGED <<now, elevation, invitation>>

----------------------------------------------------------------------------
(* Elevations                                                                 *)

Listed == IF Present(ids) THEN Value(ids) ELSE {}

StartElevation(c) ==
    \/ \E u \in Users, at \in {"grant", "revoke"} :
         Begin(c, [Idle EXCEPT !.at = at, !.user = u, !.expiry = now + Duration])
    \/ \E u \in Users : Begin(c, [Idle EXCEPT !.at = "listIds", !.user = u])
    \/ \E u \in Users : Begin(c, [Idle EXCEPT !.at = "checkIds", !.user = u])

GrantedIds(u) == PutTxn(ids, Listed \cup {u})     \* written, whether or not it changes

Grant(c) ==
    LET u == p[c].user IN
    /\ Busy(c, "grant")
    /\ \/ ids' = GrantedIds(u) /\ elev' = [elev EXCEPT ![u] = PutTxn(@, p[c].expiry)]
       \/ Contended(c) /\ UNCHANGED elevation
    /\ End(c)
    /\ UNCHANGED <<now, invitation, left>>

Revoke(c) ==
    LET u == p[c].user IN
    /\ Busy(c, "revoke")
    /\ \/ ids' = PutTxn(ids, Listed \ {u}) /\ elev' = [elev EXCEPT ![u] = PutTxn(@, 0)]
       \/ Contended(c) /\ UNCHANGED elevation
    /\ End(c)
    /\ UNCHANGED <<now, invitation, left>>

Active(u, t) == Present(elev[u]) /\ Value(elev[u]) > t

\* listTempElevations: what has expired by now is taken off the list it read.
ListIds(c) ==
    /\ Busy(c, "listIds")
    /\ IF Present(ids)
       THEN Go(c, [p[c] EXCEPT !.at = "listEach", !.seen = ids, !.todo = Value(ids), !.expiry = now])
       ELSE End(c)
    /\ UNCHANGED <<now, elevation, invitation, left>>

ListEach(c) ==
    /\ Busy(c, "listEach")
    /\ \/ \E u \in p[c].todo :
            Go(c, [p[c] EXCEPT !.todo = @ \ {u},
                               !.stale = IF Active(u, p[c].expiry) THEN @ ELSE @ \cup {u}])
       \/ /\ p[c].todo = {}
          /\ IF p[c].stale = {} THEN End(c) ELSE Go(c, [p[c] EXCEPT !.at = "prune"])
    /\ UNCHANGED <<now, elevation, invitation, left>>

Prune(c) ==
    /\ Busy(c, "prune")
    /\ ids' = Put(ids, Version(p[c].seen), Value(p[c].seen) \ p[c].stale)
    /\ End(c)
    /\ UNCHANGED <<now, elev, invitation, left>>

CheckIds(c) ==
    /\ Busy(c, "checkIds")
    /\ IF p[c].user \in Listed THEN Go(c, [p[c] EXCEPT !.at = "checkUser"]) ELSE End(c)
    /\ UNCHANGED <<now, elevation, invitation, left>>

CheckUser(c) ==
    /\ Busy(c, "checkUser") /\ End(c)
    /\ UNCHANGED <<now, elevation, invitation, left>>

----------------------------------------------------------------------------
(* Invitations                                                                *)

Sent(u) == [invitee |-> u, status |-> "pending", expires |-> now + InviteLife]

StartInvitation(c) ==
    \/ \E i \in Invites, u \in Users :
         /\ i \notin index /\ \A d \in Clients : p[d].id # i
         /\ Begin(c, [Idle EXCEPT !.at = "sendGroup", !.id = i, !.user = u])
    \/ \E i \in Invites, at \in {"accept", "reject"} :
         Begin(c, [Idle EXCEPT !.at = at, !.id = i])

\* Only an admin of a group that is there may invite.
SendGroup(c) ==
    /\ Busy(c, "sendGroup")
    /\ End(c) \/ (group # {} /\ Go(c, [p[c] EXCEPT !.at = "send"]))
    /\ UNCHANGED <<now, elevation, invitation, left>>

Send(c) ==
    LET i == p[c].id IN
    /\ Busy(c, "send")
    /\ \/ /\ index' = index \cup {i}
          /\ invite' = [invite EXCEPT ![i] = PutTxn(@, Sent(p[c].user))]
       \/ Contended(c) /\ UNCHANGED <<index, invite>>
    /\ End(c)
    /\ UNCHANGED <<now, elevation, group, left>>

Pending(cell) == Present(cell) /\ Value(cell).status = "pending"

\* acceptInvite and rejectInvite first look at the invitation.
Accept(c) ==
    LET cell == invite[p[c].id] IN
    /\ Busy(c, "accept")
    /\ IF Pending(cell) /\ now <= Value(cell).expires
       THEN Go(c, [p[c] EXCEPT !.at = "acceptTxn", !.user = Value(cell).invitee])
       ELSE End(c)
    /\ UNCHANGED <<now, elevation, invitation, left>>

StillPending(cell) == Pending(cell)

\* The group the transaction reads is the value itself; its field "value" is
\* missing, so parsing it throws and nothing is written.  Without the group
\* the invitation alone is written.
AcceptTxn(c) ==
    LET i == p[c].id
        cell == invite[i]
    IN  /\ Busy(c, "acceptTxn")
        /\ \/ /\ IF StillPending(cell) /\ group = {}
                 THEN invite' = [invite EXCEPT ![i] = PutTxn(@, [Value(cell) EXCEPT !.status = "accepted"])]
                 ELSE UNCHANGED invite
           \/ Contended(c) /\ UNCHANGED invite
        /\ End(c)
        /\ UNCHANGED <<now, elevation, index, group, left>>

Reject(c) ==
    LET cell == invite[p[c].id] IN
    /\ Busy(c, "reject")
    /\ IF Pending(cell) THEN Go(c, [p[c] EXCEPT !.at = "rejectSet", !.seen = cell]) ELSE End(c)
    /\ UNCHANGED <<now, elevation, invitation, left>>

RejectSet(c) ==
    LET i == p[c].id IN
    /\ Busy(c, "rejectSet")
    /\ invite' = [invite EXCEPT ![i] =
           Put(@, Version(p[c].seen), [Value(p[c].seen) EXCEPT !.status = "rejected"])]
    /\ End(c)
    /\ UNCHANGED <<now, elevation, index, group, left>>

DeleteGroup == /\ group # {} /\ group' = {}
               /\ UNCHANGED <<now, elevation, invite, index, left, p>>

Tick == /\ now < MaxTime /\ now' = now + 1
        /\ UNCHANGED <<elevation, invitation, left, p>>

Elevate(c) == StartElevation(c) \/ Grant(c) \/ Revoke(c) \/ ListIds(c) \/ ListEach(c)
              \/ Prune(c) \/ CheckIds(c) \/ CheckUser(c)
Invite(c) == StartInvitation(c) \/ SendGroup(c) \/ Send(c) \/ Accept(c) \/ AcceptTxn(c)
             \/ Reject(c) \/ RejectSet(c)

Next == Tick \/ DeleteGroup \/ \E c \in Clients : Elevate(c) \/ Invite(c)
Spec == Init /\ [][Next]_vars

----------------------------------------------------------------------------
\* Whoever is elevated is on the list by which elevations are found: an expired
\* entry pruned by a slow listing never takes a renewed one off.
ElevationListed == \A u \in Users : Active(u, now) => u \in Listed

\* An answered invitation keeps its answer, however its two answers overlap.
AnswerFinal == \A i \in Invites :
    Present(invite[i]) /\ ~Pending(invite[i]) => invite'[i].val = invite[i].val
=============================================================================
