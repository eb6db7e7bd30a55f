------------------------------- MODULE Users -------------------------------
(* UserService: the user directory.  A user is stored under its id, and again *)
(* (a full copy) under its e-mail; ids are listed in an index, numbered by a  *)
(* uid counter and counted.  Calls of several clients interleave at every     *)
(* await; transact() is one step, since the store serialises transactions.    *)
EXTENDS Cells, FiniteSets

CONSTANTS Clients, UserIds, Emails,
          Menu,          \* Menu[c]: the operations client c may call
          Calls          \* bound: how many calls each client makes

ASSUME DirectoryAssumption == UserIds # {} /\ Emails # {}

VARIABLES user,       \* user:<id>, a cell of user records
          mail,       \* user:email:<email>, a cell of copies of the record
          uidIndex,   \* user:uid:<uid>, pairs of a uid and its user
          index,      \* user:idx:<shard>, the ids listed
          counter,    \* _sys:uid_counter
          count,      \* user:count
          claimed,    \* _sys:initialized
          members,    \* usergroup:<id>, the members of a named group
          left,       \* how many calls each client has left
          call        \* where each client's call stands, with its locals

userVars == <<user, mail, uidIndex, index, counter, count, claimed, members, left, call>>
store == <<user, mail, uidIndex, index, counter, count, claimed, members>>

Existing == {i \in UserIds : Present(user[i])}
Groups == {"users", "root", "wheel"}
None == "none"
Idle == [at |-> "idle", id |-> None, email |-> None, root |-> FALSE, uid |-> 0,
         seen |-> Empty, tries |-> 0, step |-> 0]

Record(i, e, uid, root) == [id |-> i, email |-> e, uid |-> uid, root |-> root,
                            profile |-> 0, groups |-> {}]

\* A system nobody registered with yet, or one with its first user.
UsersInit ==
    /\ LET i == CHOOSE i \in UserIds : TRUE
           e == CHOOSE e \in Emails : TRUE
           r == Record(i, e, 1, TRUE)
       IN  /\ claimed \in BOOLEAN
           /\ user = [x \in UserIds |-> IF claimed /\ x = i THEN Holding(r) ELSE Empty]
           /\ mail = [x \in Emails |-> IF claimed /\ x = e THEN Holding(r) ELSE Empty]
           /\ uidIndex = (IF claimed THEN {<<1, i>>} ELSE {})
           /\ index = (IF claimed THEN {i} ELSE {})
           /\ counter = (IF claimed THEN Holding(2) ELSE Empty)
           /\ count = (IF claimed THEN Holding(1) ELSE Empty)
           /\ members = [g \in Groups |-> index]
    /\ left = Calls
    /\ call = [c \in Clients |-> Idle]

Go(c, at) == call' = [call EXCEPT ![c].at = at]
End(c) == call' = [call EXCEPT ![c] = Idle]
At(c, at) == call[c].at = at
Begin(c, op, r) == /\ At(c, "idle") /\ left[c] > 0 /\ op \in Menu[c]
                   /\ left' = [left EXCEPT ![c] = @ - 1]
                   /\ call' = [call EXCEPT ![c] = r]
                   /\ UNCHANGED store
Contended(c) == \E d \in Clients \ {c} : ~At(d, "idle")

----------------------------------------------------------------------------
(* register, with the claim of the first user in POST /register               *)

Fresh == {i \in UserIds : /\ ~Present(user[i]) /\ user[i].ver = Null
                      /\ \A c \in Clients : call[c].id # i}

StartRegister(c) == \E e \in Emails, i \in Fresh :
    Begin(c, "register", [Idle EXCEPT !.at = "claim", !.id = i, !.email = e])

\* Mutant: whoever comes before the first claimant has an account is first too.
FirstUser == Existing = {}

First == ~claimed

\* The first registration of all claims the root role with a create-only write.
Claim(c) ==
    /\ At(c, "claim")
    /\ claimed' = TRUE
    /\ call' = [call EXCEPT ![c].root = First, ![c].at = "uidRead"]
    /\ UNCHANGED <<user, mail, uidIndex, index, counter, count, members, left>>

\* #nextUid: read the counter, write it back plus one, three tries.
NextUidRead(c) ==
    /\ At(c, "uidRead")
    /\ call' = [call EXCEPT ![c].seen = counter, ![c].at = "uidWrite"]
    /\ UNCHANGED <<store, left>>

\* Mutant: the uid counter is written blindly.
CounterAcceptsAll(ver) == TRUE

CounterAccepts(ver) == Accepts(counter, ver)

NextUidWrite(c) ==
    LET q == call[c]
        next == IF Present(q.seen) THEN Value(q.seen) ELSE 1
    IN  /\ At(c, "uidWrite")
        /\ IF CounterAccepts(Version(q.seen))
           THEN /\ counter' = PutTxn(counter, next + 1)
                /\ call' = [call EXCEPT ![c].uid = next, ![c].tries = 0, ![c].at = "insert"]
           ELSE /\ call' = [call EXCEPT ![c] = IF q.tries = 2 THEN Idle
                                         ELSE [q EXCEPT !.tries = q.tries + 1, !.at = "uidRead"]]
                /\ UNCHANGED counter
        /\ UNCHANGED <<user, mail, uidIndex, index, count, claimed, members, left>>

Taken(e) == Present(mail[e])

\* One transaction: the user, its copy, its place in the index, its uid.
Insert(c) ==
    LET q == call[c]
        r == Record(q.id, q.email, q.uid, q.root)
    IN  /\ At(c, "insert")
        /\ \/ /\ ~Taken(q.email)
              /\ user' = [user EXCEPT ![q.id] = PutTxn(@, r)]
              /\ mail' = [mail EXCEPT ![q.email] = PutTxn(@, r)]
              /\ uidIndex' = {x \in uidIndex : x[1] # q.uid} \cup {<<q.uid, q.id>>}
              /\ index' = index \cup {q.id}
              /\ call' = [call EXCEPT ![c].at = "countRead", ![c].step = 1]
           \/ \* EMAIL_EXISTS, or three conflicts in a row
              /\ Taken(q.email) \/ Contended(c)
              /\ End(c) /\ UNCHANGED <<user, mail, uidIndex, index>>
        /\ UNCHANGED <<counter, count, claimed, members, left>>

\* #incrCounter (step 1) and #decrCounter (step 2): best effort, given up after three
\* conflicts, so that the count may be off in either direction.
CountRead(c) ==
    /\ At(c, "countRead")
    /\ call' = [call EXCEPT ![c].seen = count, ![c].at = "countWrite"]
    /\ UNCHANGED <<store, left>>

AfterCount(q) == IF q.step = 1 THEN [q EXCEPT !.at = "join"] ELSE Idle

CountWrite(c) ==
    LET q == call[c]
        n == IF Present(q.seen) THEN Value(q.seen) ELSE 0
    IN  /\ At(c, "countWrite")
        /\ IF q.step = 2 /\ n = 0
           THEN call' = [call EXCEPT ![c] = AfterCount(q)] /\ UNCHANGED count
           ELSE /\ count' = Put(count, Version(q.seen), IF q.step = 1 THEN n + 1 ELSE n - 1)
                /\ call' = [call EXCEPT ![c] = IF count' # count \/ q.tries = 2 THEN AfterCount(q)
                                         ELSE [q EXCEPT !.tries = q.tries + 1, !.at = "countRead"]]
        /\ UNCHANGED <<user, mail, uidIndex, index, counter, claimed, members, left>>

\* #joinNamedGroup: "users", and "root" and "wheel" for a root user; a
\* transaction that fails makes register fail, with the user already there.
GroupsOf(root) == IF root THEN <<"users", "root", "wheel">> ELSE <<"users">>

Join(c) ==
    LET q == call[c] IN
    /\ At(c, "join")
    /\ \/ /\ members' = [members EXCEPT ![GroupsOf(q.root)[q.step]] = @ \cup {q.id}]
          /\ call' = [call EXCEPT ![c] = IF q.step = Len(GroupsOf(q.root)) THEN Idle
                                   ELSE [q EXCEPT !.step = q.step + 1]]
       \/ Contended(c) /\ End(c) /\ UNCHANGED members
    /\ UNCHANGED <<user, mail, uidIndex, index, counter, count, claimed, left>>

----------------------------------------------------------------------------
(* update, clearLoginPolicy and clearPublicKey change the profile; add- and   *)
(* removeSupplementaryGroup change the groups.                                *)

Targets == {i \in UserIds : user[i].ver # Null}      \* ids a caller may know

Knows(i, at) == [Idle EXCEPT !.at = at, !.id = i]
StartUpdate(c) == \E i \in Targets : Begin(c, "update", Knows(i, "updRead"))
StartGroup(c) == \E i \in Targets : Begin(c, "group", Knows(i, "grpRead"))

ReadUser(c, at, next) ==
    /\ At(c, at)
    /\ LET u == user[call[c].id] IN
       IF Present(u)
       THEN call' = [call EXCEPT ![c].seen = u, ![c].email = Value(u).email, ![c].at = next]
       ELSE End(c)                                        \* USER_NOT_FOUND
    /\ UNCHANGED <<store, left>>

UpdateRead(c) == ReadUser(c, "updRead", "updWrite")
GroupRead(c) == ReadUser(c, "grpRead", "grpWrite")
DeleteRead(c) == ReadUser(c, "delRead", "remove")

\* Mutant: the version is read again when the record is written.
WriteVersionNow(q) == Version(user[q.id])

\* The record is written back under the version it was read with: CONFLICT.
WriteVersion(q) == Version(q.seen)

UpdateWrite(c) ==
    LET q == call[c]
        r == [Value(q.seen) EXCEPT !.profile = @ + 1]
    IN  /\ At(c, "updWrite")
        /\ user' = [user EXCEPT ![q.id] = Put(@, WriteVersion(q), r)]
        /\ call' = [call EXCEPT ![c] = IF user' = user THEN Idle
                                 ELSE [q EXCEPT !.at = "mailRead", !.seen.val = <<r>>]]
        /\ UNCHANGED <<mail, uidIndex, index, counter, count, claimed, members, left>>

\* Then the copy under the e-mail: read for its version, and overwritten.
MailRead(c) ==
    /\ At(c, "mailRead")
    /\ IF Present(mail[call[c].email])
       THEN call' = [call EXCEPT ![c].seen.ver = Version(mail[call[c].email]), ![c].at = "mailWrite"]
       ELSE End(c)
    /\ UNCHANGED <<store, left>>

MailWrite(c) ==
    LET q == call[c] IN
    /\ At(c, "mailWrite")
    /\ mail' = [mail EXCEPT ![q.email] = Put(@, q.seen.ver, Value(q.seen))]
    /\ End(c)
    /\ UNCHANGED <<user, uidIndex, index, counter, count, claimed, members, left>>

GroupWrite(c) ==
    LET q == call[c]
        r == [Value(q.seen) EXCEPT !.groups = IF "wheel" \in @ THEN @ \ {"wheel"} ELSE @ \cup {"wheel"}]
    IN  /\ At(c, "grpWrite")
        /\ user' = [user EXCEPT ![q.id] = Put(@, WriteVersion(q), r)]
        /\ End(c)
        /\ UNCHANGED <<mail, uidIndex, index, counter, count, claimed, members, left>>

----------------------------------------------------------------------------
(* delete                                                                     *)

StartDelete(c) == \E i \in Targets : Begin(c, "delete", Knows(i, "delRead"))

\* One transaction: the user, its copy and its place in the index, read again.
\* The uid index keeps the entry of the deleted user.
Gone(q) == ~Present(user[q.id])

Remove(c) ==
    LET q == call[c] IN
    /\ At(c, "remove")
    /\ \/ /\ ~Gone(q)
          /\ user' = [user EXCEPT ![q.id] = EraseTxn(@)]
          /\ mail' = [mail EXCEPT ![q.email] = IF Present(@) THEN EraseTxn(@) ELSE @]
          /\ index' = index \ {q.id}
          /\ call' = [call EXCEPT ![c].at = "countRead", ![c].step = 2]
       \/ /\ Gone(q) \/ Contended(c)
          /\ End(c) /\ UNCHANGED <<user, mail, index>>
    /\ UNCHANGED <<uidIndex, counter, count, claimed, members, left>>

----------------------------------------------------------------------------
UsersNext == \E c \in Clients :
    \/ StartRegister(c) \/ Claim(c) \/ NextUidRead(c) \/ NextUidWrite(c) \/ Insert(c)
    \/ CountRead(c) \/ CountWrite(c) \/ Join(c)
    \/ StartUpdate(c) \/ UpdateRead(c) \/ UpdateWrite(c) \/ MailRead(c) \/ MailWrite(c)
    \/ StartGroup(c) \/ GroupRead(c) \/ GroupWrite(c)
    \/ StartDelete(c) \/ DeleteRead(c) \/ Remove(c)

UsersSpec == UsersInit /\ [][UsersNext]_userVars

----------------------------------------------------------------------------
\* No two accounts under one e-mail, none without one, none unlisted: however
\* registrations and deletions interleave, the index lists exactly the users
\* that exist, an e-mail has a copy exactly when one user has it, and every uid
\* is of one user, the one the uid index names.
DirectoryAgrees ==
    /\ index = Existing
    /\ \A i, j \in Existing : Value(user[i]).email = Value(user[j]).email => i = j
    /\ \A e \in Emails :
         Present(mail[e]) <=> \E i \in Existing : Value(user[i]).email = e
    /\ \A i, j \in Existing : i # j => Value(user[i]).uid # Value(user[j]).uid
    /\ \A i \in Existing : {x \in uidIndex : x[1] = Value(user[i]).uid} = {<<Value(user[i]).uid, i>>}

\* Nobody's change to a user is lost: a step changes the profile or the groups
\* of a stored user, never both, and the profile only forward (the versions
\* update() and addSupplementaryGroup() check see to it).
NoUpdateLost ==
    \A i \in UserIds : Present(user[i]) /\ Present(user[i])' =>
      LET u == Value(user[i])
          v == Value(user[i])'
      IN  \/ v = [u EXCEPT !.profile = @ + 1]
          \/ v = [u EXCEPT !.groups = v.groups]
LosesNoUpdate == [][NoUpdateLost]_userVars

\* One root: the open registration gives the root role to one account at most,
\* however many calls find that nobody has registered yet.
IsRoot(i) == \/ \E c \in Clients : call[c].id = i /\ call[c].root
             \/ Present(user[i]) /\ Value(user[i]).root
OneRoot == \A i, j \in UserIds : IsRoot(i) /\ IsRoot(j) => i = j

DirectorySound == DirectoryAgrees /\ OneRoot
=============================================================================
