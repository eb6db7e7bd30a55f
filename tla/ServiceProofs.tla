-------------------------- MODULE ServiceProofs --------------------------
(***************************************************************************)
(* What MCServices checks of the modules it extends, for all constants:    *)
(* secrets, the first start, the directory of users, the rules of the      *)
(* routes, logins, the middleware and the subnet pool, with any number of  *)
(* calls and requests.                                                     *)
(***************************************************************************)
EXTENDS Secrets, Seed, Users, RouteAcls, Sessions, Gatekeeper, SubnetPool, TLAPS

-----------------------------------------------------------------------------
(* Secrets read back as they were put in: a value that lies in the store   *)
(* is what encrypt() makes of the text last put in.                        *)

PutTexts == Texts \cup {CHOOSE t \in Texts : TRUE}      \* also before the first put

Kept(cell, t) == Present(cell) => t \in Texts /\ Value(cell) = encrypt(Plain(t))

SecretsInv ==
    /\ put \in [credential : PutTexts, workflow : PutTexts, container : [Ids -> PutTexts]]
    /\ Kept(credential, put.credential)
    /\ \/ workflow = Empty
       \/ workflow = Holding(encrypt(Plain(put.workflow))) /\ put.workflow \in Texts
    /\ container = [id \in Ids |-> container[id]]
    /\ \A id \in Ids : Present(container[id]) /\ ~Value(container[id]).sealed /\ ~master
                           => Value(container[id]).value = Plain(put.container[id])
    /\ cached \in [Isolates -> SUBSET {Plain(t) : t \in Texts}]

\* A write under the version of the moment leaves what it wrote, or nothing at all.
LEMMA PutHolds ==
  ASSUME NEW c, NEW v, Present(Put(c, Version(c), v))
  PROVE  Value(Put(c, Version(c), v)) = v
BY DEF Put, Stored, Accepts, Version, Present, Value

LEMMA RoundTrip ==
  ASSUME NEW t
  PROVE  /\ decrypt(encrypt(Plain(t))) = Plain(t)
         /\ master => encrypt(Plain(t)).layers # <<>>
         /\ ~master => encrypt(Plain(t)) = Plain(t)
<1>1. Wrapped(Plain(t), Aes) = [text |-> t, layers |-> <<Aes>>]
  <2>1. <<Aes>> \o <<>> = <<Aes>>
    BY DEF Aes
  <2>. QED
    BY <2>1 DEF Wrapped, Plain
<1>2. Outermost([text |-> t, layers |-> <<Aes>>], Aes)
  BY DEF Outermost
<1>3. Unwrapped([text |-> t, layers |-> <<Aes>>]) = Plain(t)
  <2>1. Tail(<<Aes>>) = <<>>
    OBVIOUS
  <2>. QED
    BY <2>1 DEF Unwrapped, Plain
<1>. QED
  BY <1>1, <1>2, <1>3 DEF encrypt, decrypt

LEMMA SecretsStep == SecretsInv /\ [Next]_vars => SecretsInv'
<1>. SUFFICES ASSUME SecretsInv, [Next]_vars PROVE SecretsInv'
  OBVIOUS
<1>. USE DEF SecretsInv, Kept
<1>0. master' = master /\ \A t : encrypt(t)' = encrypt(t)
  <2>1. master' = master
    BY DEF Next, vars, CredentialCreate, CredentialUpdate, WorkflowSet, WorkflowDelete, CreateInline, CreateSealed,
           GenerateKey, ContainerUpdate, ContainerUpload, Sign, Recycle
  <2>. QED
    BY <2>1 DEF encrypt
<1>1. ASSUME NEW t \in Texts, CredentialCreate(t) PROVE SecretsInv'
  <2>1. credential = Empty /\ credential' = Put(credential, Version(credential), encrypt(Plain(t)))
    BY <1>1 DEF CredentialCreate, Version, Empty, Present
  <2>2. put'.credential = t /\ put'.workflow = put.workflow /\ put'.container = put.container
        /\ put' \in [credential : PutTexts, workflow : PutTexts, container : [Ids -> PutTexts]]
    BY <1>1 DEF CredentialCreate, PutTexts
  <2>. QED
    BY <1>0, <1>1, <2>1, <2>2, PutHolds DEF CredentialCreate
<1>2. ASSUME NEW t \in Texts, WorkflowSet(t) PROVE SecretsInv'
  <2>1. CASE workflow = Empty
    <3>1. workflow' = Holding(encrypt(Plain(t)))
      BY <1>2, <2>1 DEF WorkflowSet, ReplaceVersion, Put, Stored, Accepts, Empty, Present, Null, Holding
    <3>2. put'.workflow = t /\ put'.credential = put.credential /\ put'.container = put.container
          /\ put' \in [credential : PutTexts, workflow : PutTexts, container : [Ids -> PutTexts]]
      BY <1>2, <2>1 DEF WorkflowSet, PutTexts, Empty, Present
    <3>. QED
      BY <1>0, <1>2, <3>1, <3>2 DEF WorkflowSet
  <2>2. CASE workflow # Empty
    <3>. PICK v : v = encrypt(Plain(put.workflow)) /\ workflow = [val |-> <<v>>, ver |-> 1, n |-> 1]
      BY <2>2 DEF Holding
    <3>1. workflow.val # <<>> /\ workflow.ver # workflow.n + 1
      OBVIOUS
    <3>2. workflow' = workflow /\ put' = put
      BY <1>2, <3>1 DEF WorkflowSet, ReplaceVersion, OwnVersion, Put, Stored, Accepts, Present
    <3>. QED
      BY <1>0, <1>2, <3>2 DEF WorkflowSet
  <2>. QED
    BY <2>1, <2>2
<1>3. ASSUME NEW new \in AtMostOne(Texts), CredentialUpdate(new) PROVE SecretsInv'
  <2>. PICK u : u = IF new = {} THEN put.credential ELSE CHOOSE t \in new : TRUE
    OBVIOUS
  <2>1. u \in Texts
    BY <1>3 DEF CredentialUpdate, AtMostOne
  <2>2. credential' = Put(credential, Version(credential), encrypt(Plain(u)))
    <3>1. Merged(Value(credential)) = Plain(put.credential)
      BY <1>3, RoundTrip DEF CredentialUpdate, Merged
    <3>. QED
      BY <1>3, <3>1 DEF CredentialUpdate
  <2>3. put' = [put EXCEPT !.credential = u]
    BY <1>3 DEF CredentialUpdate
  <2>4. put'.credential = u /\ put'.workflow = put.workflow /\ put'.container = put.container
        /\ put' \in [credential : PutTexts, workflow : PutTexts, container : [Ids -> PutTexts]]
    BY <2>1, <2>3 DEF PutTexts
  <2>. QED
    BY <1>0, <1>3, <2>1, <2>2, <2>4, PutHolds DEF CredentialUpdate
<1>. DEFINE Sound(id) == Present(container[id]) /\ ~Value(container[id]).sealed /\ ~master
                           => Value(container[id]).value = Plain(put.container[id])
\* A step that changes one container secret and what was put into it.
<1>4. ASSUME NEW id \in Ids, NEW t \in PutTexts, Sound(id)',
             container' = [container EXCEPT ![id] = container'[id]],
             put' = [put EXCEPT !.container[id] = t],
             UNCHANGED <<credential, workflow, cached>>
      PROVE  SecretsInv'
  <2>1. /\ put'.credential = put.credential /\ put'.workflow = put.workflow
        /\ put'.container = [put.container EXCEPT ![id] = t]
        /\ put' \in [credential : PutTexts, workflow : PutTexts, container : [Ids -> PutTexts]]
    BY <1>4
  <2>2. \A i \in Ids \ {id} : container'[i] = container[i] /\ put'.container[i] = put.container[i]
    BY <1>4, <2>1
  <2>3. \A i \in Ids : Sound(i)'
    BY <1>0, <1>4, <2>2
  <2>4. container' = [i \in Ids |-> container'[i]]
    BY <1>4
  <2>. QED
    BY <1>0, <1>4, <2>1, <2>3, <2>4
\* What was put in before stays.
<1>5. \A id \in Ids : /\ put.container[id] \in PutTexts
                      /\ put = [put EXCEPT !.container[id] = put.container[id]]
                      /\ container = [container EXCEPT ![id] = container[id]]
                      /\ \A t : [put EXCEPT !.container[id] = t].container[id] = t
  OBVIOUS
<1>6. ASSUME NEW id \in Ids, NEW sealed, NEW v, Stores(id, sealed, v)
      PROVE  /\ container' = [container EXCEPT ![id] = container'[id]]
             /\ Present(container'[id]) => /\ Value(container'[id]).sealed = sealed
                                           /\ Value(container'[id]).value = v
  <2>1. container'[id] = Put(container[id], Version(container[id]), [sealed |-> sealed, value |-> v])
        /\ container' = [container EXCEPT ![id] = container'[id]]
    BY <1>6 DEF Stores
  <2>2. Present(container'[id]) => Value(container'[id]) = [sealed |-> sealed, value |-> v]
    BY <2>1, PutHolds
  <2>3. [sealed |-> sealed, value |-> v].sealed = sealed /\ [sealed |-> sealed, value |-> v].value = v
    OBVIOUS
  <2>. QED
    BY <2>1, <2>2, <2>3
<1>. HIDE DEF SecretsInv, Kept
<1>7. ASSUME NEW id \in Ids, NEW t \in Texts, CreateInline(id, t) PROVE SecretsInv'
  <2>. PICK v : v = encryptFields(FALSE, encrypt(Plain(t)))
    OBVIOUS
  <2>1. Stores(id, FALSE, v)
    BY <1>7 DEF CreateInline
  <2>2. ~master => v = Plain(t)
    BY DEF encryptFields, encrypt
  <2>3. t \in PutTexts /\ put' = [put EXCEPT !.container[id] = t] /\ put'.container[id] = t
    BY <1>5, <1>7 DEF CreateInline, PutTexts
  <2>4. Sound(id)'
    BY <1>0, <1>6, <2>1, <2>2, <2>3
  <2>. QED
    BY <1>4, <1>6, <1>7, <2>1, <2>3, <2>4 DEF CreateInline
<1>8. ASSUME NEW id \in Ids, NEW t \in Texts, CreateSealed(id, t) PROVE SecretsInv'
  <2>1. t \in PutTexts /\ put' = [put EXCEPT !.container[id] = t] /\ container[id] = Empty
    BY <1>8 DEF CreateSealed, PutTexts
  <2>2. /\ container' = [container EXCEPT ![id] = container'[id]]
        /\ Present(container'[id]) => Value(container'[id]).sealed
    <3>1. CASE Present(keyring)
      <4>. PICK v : v = seal(Value(keyring), Plain(t))
        OBVIOUS
      <4>1. Stores(id, TRUE, v)
        BY <1>8, <3>1 DEF CreateSealed
      <4>. QED
        BY <1>6, <4>1
    <3>2. CASE ~Present(keyring)
      BY <1>5, <1>8, <2>1, <3>2 DEF CreateSealed, Empty, Present
    <3>. QED
      BY <3>1, <3>2
  <2>. QED
    BY <1>4, <1>8, <2>1, <2>2 DEF CreateSealed
<1>9. ASSUME NEW id \in Ids, GenerateKey(id) PROVE SecretsInv'
  <2>. PICK v, t : v = seal(keys + 1, Plain(put.container[id])) /\ t = put.container[id]
    OBVIOUS
  <2>1. Stores(id, TRUE, v) /\ t \in PutTexts /\ put' = [put EXCEPT !.container[id] = t]
    BY <1>5, <1>9 DEF GenerateKey
  <2>2. Sound(id)'
    BY <1>6, <2>1
  <2>. QED
    BY <1>4, <1>6, <1>9, <2>1, <2>2 DEF GenerateKey
<1>10. ASSUME NEW id \in Ids, NEW new \in AtMostOne(Texts), ContainerUpdate(id, new) PROVE SecretsInv'
  <2>. PICK e, u : /\ e = Value(container[id])
                   /\ u = IF new = {} THEN put.container[id] ELSE CHOOSE t \in new : TRUE
    OBVIOUS
  <2>1. PICK v \in (IF master THEN Read(id) ELSE {e.value}) :
           Stores(id, e.sealed, encryptFields(e.sealed,
                     IF new = {} THEN v ELSE Plain(CHOOSE t \in new : TRUE)))
    BY <1>10 DEF ContainerUpdate
  <2>2. u \in PutTexts /\ put' = [put EXCEPT !.container[id] = u] /\ put'.container[id] = u
    <3>1. put' = [put EXCEPT !.container[id] = u]
      BY <1>10 DEF ContainerUpdate
    <3>2. u \in PutTexts
      BY <1>5 DEF AtMostOne, PutTexts
    <3>. QED
      BY <1>5, <3>1, <3>2
  <2>3. ~e.sealed /\ ~master => encryptFields(e.sealed,
             IF new = {} THEN v ELSE Plain(CHOOSE t \in new : TRUE)) = Plain(u)
    BY <1>10, <2>1 DEF ContainerUpdate, encryptFields, encrypt, SecretsInv
  <2>4. Sound(id)'
    <3>. PICK sealed, value : /\ sealed = e.sealed
                              /\ value = encryptFields(e.sealed,
                                     IF new = {} THEN v ELSE Plain(CHOOSE t \in new : TRUE))
      OBVIOUS
    <3>1. Present(container'[id]) => Value(container'[id]).sealed = sealed /\ Value(container'[id]).value = value
      BY <1>6, <2>1
    <3>2. ~sealed /\ ~master => value = Plain(u)
      BY <2>3
    <3>. QED
      BY <1>0, <2>2, <3>1, <3>2
  <2>. QED
    BY <1>4, <1>6, <1>10, <2>1, <2>2, <2>4 DEF ContainerUpdate
<1>11. ASSUME NEW id \in Ids, ContainerUpload(id) PROVE SecretsInv'
  <2>. PICK e, t : e = Value(container[id]) /\ t = put.container[id]
    OBVIOUS
  <2>1. /\ Stores(id, e.sealed, encryptFields(e.sealed, e.value))
        /\ t \in PutTexts /\ put' = put /\ put' = [put EXCEPT !.container[id] = t]
    BY <1>5, <1>11 DEF ContainerUpload
  <2>2. ~e.sealed /\ ~master => encryptFields(e.sealed, e.value) = Plain(put.container[id])
    BY <1>11 DEF ContainerUpload, encryptFields, encrypt, SecretsInv
  <2>3. Sound(id)'
    <3>. PICK value : value = encryptFields(e.sealed, e.value)
      OBVIOUS
    <3>1. Present(container'[id]) => Value(container'[id]).sealed = e.sealed /\ Value(container'[id]).value = value
      BY <1>6, <2>1
    <3>. QED
      BY <1>0, <2>1, <2>2, <3>1
  <2>. QED
    BY <1>4, <1>6, <1>11, <2>1, <2>3 DEF ContainerUpload
<1>12. ASSUME NEW i \in Isolates, Sign(i) PROVE SecretsInv'
  <2>1. decrypt(Value(credential)) \in {Plain(t) : t \in Texts}
    BY <1>12, RoundTrip DEF Sign, SecretsInv, Kept
  <2>. QED
    BY <1>0, <1>12, <2>1 DEF Sign, getOrCreate, SecretsInv, Kept
<1>13. ASSUME NEW i \in Isolates, Recycle(i) PROVE SecretsInv'
  BY <1>0, <1>13 DEF Recycle, SecretsInv, Kept
<1>14. ASSUME WorkflowDelete PROVE SecretsInv'
  BY <1>0, <1>14 DEF WorkflowDelete, SecretsInv, Kept
<1>15. CASE UNCHANGED vars
  BY <1>0, <1>15 DEF vars, SecretsInv, Kept
<1>. QED
  BY <1>1, <1>2, <1>3, <1>7, <1>8, <1>9, <1>10, <1>11, <1>12, <1>13, <1>14, <1>15 DEF Next

\* Credentials, and inline container secrets where there is no master key, read back as
\* they were last put in, and secrets of workflows as they were first put in until
\* they are deleted (credential/service.ts, secrets.ts).
THEOREM SecretsKept == Spec => []SecretsReadBack
<1>1. Init => SecretsInv
  BY DEF Init, SecretsInv, Kept, Empty, Present, PutTexts
<1>2. SecretsInv => SecretsReadBack
  <2>. SUFFICES ASSUME SecretsInv PROVE SecretsReadBack
    OBVIOUS
  <2>1. \A i \in Isolates : cached[i] \subseteq {Plain(t) : t \in Texts}
    BY DEF SecretsInv
  <2>2. Present(credential) => /\ decrypt(Value(credential)) = Plain(put.credential)
                               /\ master => Value(credential).layers # <<>>
    BY RoundTrip DEF SecretsInv, Kept
  <2>3. Present(workflow) => /\ decrypt(Value(workflow)) = Plain(put.workflow)
                             /\ master => Value(workflow).layers # <<>>
    BY RoundTrip DEF SecretsInv, Holding, Empty, Present, Value
  <2>4. \A id \in Ids : Present(container[id]) /\ ~Value(container[id]).sealed /\ ~master
                            => Read(id) = {Plain(put.container[id])}
    BY DEF SecretsInv, Read, decrypt
  <2>. QED
    BY <2>1, <2>2, <2>3, <2>4 DEF SecretsReadBack
<1>3. SecretsInv /\ [Next]_vars => SecretsInv'
  BY SecretsStep
<1>. QED
  BY <1>1, <1>2, <1>3, PTL DEF Spec

-----------------------------------------------------------------------------
(* The first start: what a start has passed in the section it is in, it    *)
(* has written.                                                            *)

\* Where a start that calls itself by may be, with S written.
Placed(q, by, S) ==
    /\ q = [at |-> q.at, section |-> q.section, item |-> q.item, seen |-> q.seen]
    /\ q.at \in {"down", "check", "store", "read", "write", "mark", "done"}
    /\ q.at \in {"check", "store", "read", "write", "mark"} => q.section \in 1 .. 5
    /\ q.at \in {"store", "read", "write"} => q.item \in 1 .. Len(Items(Sections[q.section]))
    /\ q.at = "store" => Wrote(S, Sections[q.section], q.item - 1, by)
    /\ q.at \in {"read", "write"} => Wrote(S, Sections[q.section], q.item, by)
    /\ q.at = "mark" => Wrote(S, Sections[q.section], Len(Items(Sections[q.section])), by)

SeedInv ==
    /\ started \in [Starters -> Nat]
    /\ p = [i \in Starters |-> p[i]]
    /\ \A i \in Starters : Placed(p[i], Self(i), stored) /\ (p[i].at # "down" => started[i] # 0)
    /\ SeedComplete

\* The data: five sections, and no item refers to one that comes after it.
Ordered(s) ==
    /\ Len(Sections) = 5
    /\ Len(Items(Sections[s])) \in Nat
    /\ \A n \in 1 .. Len(Items(Sections[s])) :
          /\ Items(Sections[s])[n].kind = "instance" => s = 3
          /\ Items(Sections[s])[n].kind \in {"caps", "permgroup", "routeacl"} =>
                \A x \in Items(Sections[s])[n].refers : \E m \in 1 .. n - 1 :
                   x = <<Items(Sections[s])[m].kind, Items(Sections[s])[m].name>>

LEMMA OrderedSections == \A s \in 1 .. 5 : Ordered(s)
<1>. SUFFICES ASSUME NEW s \in 1 .. 5 PROVE Ordered(s)
  OBVIOUS
<1>1. CASE s = 1
  BY <1>1 DEF Ordered, Sections, Items, MacRules
<1>2. CASE s = 2
  <2>1. Items(Sections[s]) = PolicyLibrary
    BY <1>2 DEF Sections, Items
  <2>2. Len(PolicyLibrary) = 6
    BY DEF PolicyLibrary
  <2>3. ASSUME NEW n \in 1 .. 6
        PROVE  /\ PolicyLibrary[n].kind # "instance"
               /\ \A x \in PolicyLibrary[n].refers : \E m \in 1 .. n - 1 :
                     x = <<PolicyLibrary[m].kind, PolicyLibrary[m].name>>
    BY <2>3 DEF PolicyLibrary, Item
  <2>. QED  BY <1>2, <2>1, <2>2, <2>3 DEF Ordered, Sections
<1>3. CASE s = 3
  BY <1>3 DEF Ordered, Sections, Items, DefaultInstance, Item
<1>4. CASE s = 4
  BY <1>4 DEF Ordered, Sections, Items, Volumes, Item
<1>5. CASE s = 5
  BY <1>5 DEF Ordered, Sections, Items, LogPolicy
<1>. QED  BY <1>1, <1>2, <1>3, <1>4, <1>5

LEMMA Order ==
  ASSUME NEW s \in 1 .. 5
  PROVE  /\ Len(Sections) = 5
         /\ Len(Items(Sections[s])) \in Nat
         /\ \A n \in 1 .. Len(Items(Sections[s])) :
               /\ Items(Sections[s])[n].kind = "instance" => s = 3
               /\ Items(Sections[s])[n].kind \in {"caps", "permgroup", "routeacl"} =>
                     \A x \in Items(Sections[s])[n].refers : \E m \in 1 .. n - 1 :
                        x = <<Items(Sections[s])[m].kind, Items(Sections[s])[m].name>>
BY OrderedSections DEF Ordered

\* What is written stays written.
LEMMA More ==
  ASSUME NEW q, NEW by, NEW S, NEW T, S \subseteq T, Placed(q, by, S)
  PROVE  Placed(q, by, T)
BY DEF Placed, Wrote

\* What a change of some fields makes of a start's place.
LEMMA Restart ==
  ASSUME NEW s \in Nat
  PROVE  [Down EXCEPT !.at = "check", !.section = s]
           = [at |-> "check", section |-> s, item |-> 0, seen |-> Empty]
<1>1. [Down EXCEPT !.at = "check"] = [at |-> "check", section |-> 0, item |-> 0, seen |-> Empty]
  BY DEF Down
<1>2. [[at |-> "check", section |-> 0, item |-> 0, seen |-> Empty] EXCEPT !.section = s]
        = [at |-> "check", section |-> s, item |-> 0, seen |-> Empty]
  OBVIOUS
<1>. QED  BY <1>1, <1>2

LEMMA Changed ==
  ASSUME NEW q, NEW a, NEW c,
         q = [at |-> q.at, section |-> q.section, item |-> q.item, seen |-> q.seen]
  PROVE  /\ [q EXCEPT !.at = a] = [at |-> a, section |-> q.section, item |-> q.item, seen |-> q.seen]
         /\ [q EXCEPT !.item = a] = [at |-> q.at, section |-> q.section, item |-> a, seen |-> q.seen]
         /\ [q EXCEPT !.at = a, !.seen = c] = [at |-> a, section |-> q.section, item |-> q.item, seen |-> c]
<1>1. [q EXCEPT !.at = a] = [at |-> a, section |-> q.section, item |-> q.item, seen |-> q.seen]
  OBVIOUS
<1>2. [q EXCEPT !.item = a] = [at |-> q.at, section |-> q.section, item |-> a, seen |-> q.seen]
  OBVIOUS
<1>3. PICK r : r = [q EXCEPT !.at = a, !.seen = c]
  OBVIOUS
<1>4. r = [at |-> a, section |-> q.section, item |-> q.item, seen |-> c]
  BY <1>3
<1>. QED  BY <1>1, <1>2, <1>3, <1>4

\* After an item, and after a section, a start is where it may be.
LEMMA NextItem ==
  ASSUME NEW q, NEW by, NEW S,
         q = [at |-> q.at, section |-> q.section, item |-> q.item, seen |-> q.seen],
         q.section \in 1 .. 5, q.item \in 0 .. Len(Items(Sections[q.section])),
         Wrote(S, Sections[q.section], q.item, by)
  PROVE  Placed(AfterItem(q), by, S)
<1>1. Len(Items(Sections[q.section])) \in Nat
  BY Order
<1>2. CASE q.item < Len(Items(Sections[q.section]))
  <2>1. PICK r : r = [q EXCEPT !.at = "store", !.item = @ + 1]
    OBVIOUS
  <2>2. /\ r = [at |-> "store", section |-> q.section, item |-> q.item + 1, seen |-> q.seen]
        /\ r.at = "store" /\ r.section = q.section /\ r.item = q.item + 1 /\ r.seen = q.seen
    BY <2>1
  <2>3. AfterItem(q) = r /\ r.item - 1 = q.item /\ r.item \in 1 .. Len(Items(Sections[q.section]))
    BY <1>1, <1>2, <2>1, <2>2 DEF AfterItem
  <2>. QED  BY <2>2, <2>3 DEF Placed
<1>3. CASE ~(q.item < Len(Items(Sections[q.section])))
  <2>1. PICK r : r = [q EXCEPT !.at = "mark"]
    OBVIOUS
  <2>2. /\ r = [at |-> "mark", section |-> q.section, item |-> q.item, seen |-> q.seen]
        /\ r.at = "mark" /\ r.section = q.section /\ r.item = q.item /\ r.seen = q.seen
    BY <2>1
  <2>3. AfterItem(q) = r /\ q.item = Len(Items(Sections[q.section]))
    BY <1>1, <1>3, <2>1 DEF AfterItem
  <2>. QED  BY <2>2, <2>3 DEF Placed
<1>. QED  BY <1>2, <1>3

LEMMA NextSection ==
  ASSUME NEW q, NEW by, NEW S, q.section \in 1 .. 5
  PROVE  Placed(AfterSection(q), by, S)
<1>1. Len(Sections) = 5
  BY Order
<1>2. CASE q.section = 5
  BY <1>1, <1>2 DEF AfterSection, Placed, Down
<1>3. CASE q.section # 5
  <2>1. PICK r : r = [at |-> "check", section |-> q.section + 1, item |-> 0, seen |-> Empty]
    OBVIOUS
  <2>2. r.section = q.section + 1 /\ r.item = 0 /\ r.seen = Empty /\ r.at = "check"
    BY <2>1
  <2>3. r.section \in 1 .. 5
    BY <1>3, <2>2
  <2>4. AfterSection(q) = r
    <3>1. q.section + 1 \in Nat
      OBVIOUS
    <3>2. r = [Down EXCEPT !.at = "check", !.section = q.section + 1]
      BY <2>1, <3>1, Restart
    <3>. QED  BY <1>1, <1>3, <3>2 DEF AfterSection
  <2>. QED  BY <2>1, <2>2, <2>3, <2>4 DEF Placed
<1>. QED  BY <1>2, <1>3

\* Every marker, after any number of starts that were cut off anywhere, is of a
\* section that one start wrote in full, and nothing refers to what is not there.
THEOREM SeedSound == SeedSpec => []SeedComplete
<1>1. SeedInit => SeedInv
  <2>. SUFFICES ASSUME SeedInit PROVE SeedInv
    OBVIOUS
  <2>1. \A i \in Starters : p[i] = Down /\ started[i] = 0
    BY DEF SeedInit
  <2>2. \A i \in Starters : Placed(Down, Self(i), stored)
    BY DEF Placed, Down
  <2>3. /\ started \in [Starters -> Nat] /\ p = [i \in Starters |-> p[i]]
        /\ Down.at = "down"
    BY DEF SeedInit, Down
  <2>4. SeedComplete
    BY DEF SeedInit, SeedComplete
  <2>. QED  BY <2>1, <2>2, <2>3, <2>4 DEF SeedInv
<1>2. SeedInv /\ [SeedNext]_seedVars => SeedInv'
  <2>. SUFFICES ASSUME SeedInv, [SeedNext]_seedVars PROVE SeedInv'
    OBVIOUS
  <2>. USE DEF Busy
  \* What a step has to show: the isolate that moves is placed, the rest follows.
  <2>0. ASSUME NEW i \in Starters, NEW q, p' = [p EXCEPT ![i] = q],
               started' = started, stored \subseteq stored', mark' = mark,
               Placed(q, Self(i), stored'), p[i].at # "down",
               \A r \in stored' \ stored : r.what[1] \in {"caps", "permgroup", "routeacl"} =>
                  \A x \in r.refers : \E y \in stored : y.what = x /\ y.by = r.by
        PROVE  SeedInv'
    <3>1. p' = [j \in Starters |-> p'[j]]
      BY <2>0 DEF SeedInv
    <3>2. ASSUME NEW j \in Starters
          PROVE  /\ Placed(p'[j], Self(j)', stored')
                 /\ p'[j].at # "down" => started'[j] # 0
      <4>1. Self(j)' = Self(j)
        BY <2>0 DEF Self
      <4>2. CASE j = i
        BY <2>0, <4>1, <4>2 DEF SeedInv
      <4>3. CASE j # i
        <5>1. p'[j] = p[j]
          BY <2>0, <4>3 DEF SeedInv
        <5>2. Placed(p[j], Self(j), stored')
          BY <2>0, More DEF SeedInv
        <5>. QED  BY <2>0, <4>1, <5>1, <5>2 DEF SeedInv
      <4>. QED  BY <4>2, <4>3
    <3>3. SeedComplete'
      <4>1. ASSUME NEW s, NEW by, Has(s, by) PROVE Has(s, by)'
        BY <2>0, <4>1 DEF Has, Wrote
      <4>2. \A s \in mark' : \E j \in Starters : \E n \in 1 .. started'[j] : Has(s, <<j, n>>)'
        BY <2>0, <4>1 DEF SeedInv, SeedComplete
      <4>3. \A r \in stored' : r.what[1] \in {"caps", "permgroup", "routeacl"} =>
               \A x \in r.refers : \E y \in stored' : y.what = x /\ y.by = r.by
        BY <2>0 DEF SeedInv, SeedComplete
      <4>. QED  BY <4>2, <4>3 DEF SeedComplete
    <3>. QED  BY <2>0, <3>1, <3>2, <3>3 DEF SeedInv
  <2>1. ASSUME NEW i \in Starters, Start(i)
        PROVE  SeedInv'
    <3>1. PICK d : d = [at |-> "check", section |-> 1, item |-> 0, seen |-> Empty]
      OBVIOUS
    <3>2. p' = [p EXCEPT ![i] = d]
      BY <2>1, <3>1, Restart DEF Start
    <3>3. d.at = "check" /\ d.section = 1 /\ d.item = 0 /\ d.seen = Empty
      BY <3>1
    <3>4. started' \in [Starters -> Nat] /\ started'[i] = started[i] + 1
          /\ \A j \in Starters : j # i => started'[j] = started[j]
      BY <2>1 DEF Start, SeedInv
    <3>5. Placed(d, Self(i)', stored')
      BY <3>1, <3>3 DEF Placed
    <3>6. \A j \in Starters : Placed(p'[j], Self(j)', stored') /\ (p'[j].at # "down" => started'[j] # 0)
      <4>. TAKE j \in Starters
      <4>1. CASE j = i
        BY <3>2, <3>4, <3>5, <4>1 DEF SeedInv
      <4>2. CASE j # i
        BY <2>1, <3>2, <3>4, <4>2 DEF SeedInv, Start, Self
      <4>. QED  BY <4>1, <4>2
    <3>7. SeedComplete'
      <4>1. \A j \in Starters : 1 .. started[j] \subseteq 1 .. started'[j]
        BY <3>4 DEF SeedInv
      <4>2. /\ mark' = mark /\ stored' = stored /\ SeedComplete
        BY <2>1 DEF Start, SeedInv
      <4>3. ASSUME NEW j \in Starters, NEW s, NEW n \in 1 .. started[j], Has(s, <<j, n>>)
            PROVE  n \in 1 .. started'[j] /\ Has(s, <<j, n>>)'
        BY <4>1, <4>2, <4>3 DEF Has
      <4>. QED  BY <4>2, <4>3 DEF SeedComplete
    <3>8. p' = [j \in Starters |-> p'[j]]
      BY <3>2 DEF SeedInv
    <3>. QED  BY <3>4, <3>6, <3>7, <3>8 DEF SeedInv
  \* The fields of an isolate that is at work, and its section.
  <2>2. ASSUME NEW i \in Starters, p[i].at \in {"check", "store", "read", "write", "mark"}
        PROVE  /\ p[i] = [at |-> p[i].at, section |-> p[i].section, item |-> p[i].item, seen |-> p[i].seen]
               /\ Placed(p[i], Self(i), stored) /\ p[i].at # "down"
               /\ p[i].section \in 1 .. 5 /\ Len(Items(Section(i))) \in Nat
    BY <2>2, Order DEF SeedInv, Placed, Section
  <2>3. ASSUME NEW i \in Starters, CheckMark(i)
        PROVE  SeedInv'
    <3>1. PICK z : z = [p[i] EXCEPT !.item = 0]
      OBVIOUS
    <3>0. z = [at |-> p[i].at, section |-> p[i].section, item |-> 0, seen |-> p[i].seen]
      BY ZenonT(30), <2>2, <2>3, <3>1, Changed DEF CheckMark
    <3>2. z.section = p[i].section /\ z.item = 0
          /\ z = [at |-> z.at, section |-> z.section, item |-> z.item, seen |-> z.seen]
      BY <3>0
    <3>3. Placed(AfterItem(z), Self(i), stored)
      <4>1. Wrote(stored, Sections[z.section], z.item, Self(i))
        BY <3>2 DEF Wrote
      <4>2. z.section \in 1 .. 5
        BY <2>2, <2>3, <3>2 DEF CheckMark
      <4>3. z.item \in 0 .. Len(Items(Sections[z.section]))
        BY <3>2, <4>2, Order
      <4>. QED  BY <3>2, <4>1, <4>2, <4>3, NextItem
    <3>4. Placed(AfterSection(p[i]), Self(i), stored)
      BY <2>2, <2>3, NextSection DEF CheckMark
    <3>5. PICK q : q = IF Section(i) \in mark THEN AfterSection(p[i]) ELSE AfterItem(z)
      OBVIOUS
    <3>6. p' = [p EXCEPT ![i] = q] /\ Placed(q, Self(i), stored)
      BY <2>3, <3>1, <3>3, <3>4, <3>5 DEF CheckMark
    <3>. QED  BY <2>0, <2>2, <2>3, <3>6 DEF CheckMark
  <2>4. ASSUME NEW i \in Starters, Store(i)
        PROVE  SeedInv'
    <3>1. PICK rec : rec = Id(i)
      OBVIOUS
    <3>2. rec.what = <<Current(i).kind, Current(i).name>> /\ rec.by = Self(i) /\ rec.refers = Current(i).refers
      BY <3>1 DEF Id
    <3>3. stored' = stored \cup {rec} /\ p[i].at = "store" /\ p[i].item \in 1 .. Len(Items(Section(i)))
          /\ Wrote(stored, Section(i), p[i].item - 1, Self(i))
      BY <2>2, <2>4, <3>1 DEF Store, Placed, Section
    <3>4. Wrote(stored', Section(i), p[i].item, Self(i))
      <4>. SUFFICES ASSUME NEW n \in 1 .. p[i].item
                    PROVE  \E r \in stored' : /\ r.by = Self(i)
                                             /\ r.what = <<Items(Section(i))[n].kind, Items(Section(i))[n].name>>
        BY DEF Wrote
      <4>1. CASE n = p[i].item
        BY <3>2, <3>3, <4>1 DEF Current
      <4>2. CASE n # p[i].item
        <5>1. p[i].item \in Nat /\ n \in 1 .. p[i].item - 1
          BY <2>2, <3>3, <4>2
        <5>. QED  BY <3>3, <5>1 DEF Wrote
      <4>. QED  BY <4>1, <4>2
    <3>5. Placed(AfterItem(p[i]), Self(i), stored')
      <4>1. /\ p[i].section \in 1 .. 5
            /\ p[i].item \in 0 .. Len(Items(Sections[p[i].section]))
            /\ Wrote(stored', Sections[p[i].section], p[i].item, Self(i))
        <5>1. Section(i) = Sections[p[i].section]
          BY DEF Section
        <5>2. p[i].section \in 1 .. 5 /\ Len(Items(Section(i))) \in Nat
          BY <2>2, <3>3
        <5>. QED  BY <3>3, <3>4, <5>1, <5>2
      <4>2. p[i] = [at |-> p[i].at, section |-> p[i].section, item |-> p[i].item, seen |-> p[i].seen]
        BY <2>2, <3>3
      <4>. QED  BY <4>1, <4>2, NextItem
    <3>6. PICK z : z = [p[i] EXCEPT !.at = "read"]
      OBVIOUS
    <3>7. z.at = "read" /\ z.section = p[i].section /\ z.item = p[i].item
          /\ z = [at |-> z.at, section |-> z.section, item |-> z.item, seen |-> z.seen]
      <4>1. z = [at |-> "read", section |-> p[i].section, item |-> p[i].item, seen |-> p[i].seen]
        BY <2>2, <3>3, <3>6, Changed
      <4>. QED  BY <4>1
    <3>8. Placed(z, Self(i), stored')
      BY <2>2, <3>3, <3>4, <3>7 DEF Placed, Section
    <3>9. rec.what[1] \in {"caps", "permgroup", "routeacl"} =>
             \A x \in rec.refers : \E y \in stored : y.what = x /\ y.by = rec.by
      <4>. SUFFICES ASSUME Current(i).kind \in {"caps", "permgroup", "routeacl"}, NEW x \in Current(i).refers
                    PROVE  \E y \in stored : y.what = x /\ y.by = Self(i)
        BY <3>2
      <4>1. PICK m \in 1 .. p[i].item - 1 : x = <<Items(Section(i))[m].kind, Items(Section(i))[m].name>>
        BY <2>2, <3>3, Order DEF Current, Section
      <4>. QED  BY <3>3, <4>1 DEF Wrote
    <3>10. PICK q : q = IF Current(i).kind = "caps" THEN AfterItem(p[i]) ELSE z
      OBVIOUS
    <3>11. p' = [p EXCEPT ![i] = q] /\ Placed(q, Self(i), stored') /\ started' = started /\ mark' = mark
      BY <2>4, <3>5, <3>6, <3>8, <3>10 DEF Store
    <3>12. p[i].at # "down" /\ stored \subseteq stored'
      BY <3>3
    <3>13. \A r \in stored' \ stored : r.what[1] \in {"caps", "permgroup", "routeacl"} =>
             \A x \in r.refers : \E y \in stored : y.what = x /\ y.by = r.by
      BY <3>3, <3>9
    <3>. QED  BY <2>0, <3>11, <3>12, <3>13
  <2>5. ASSUME NEW i \in Starters, NoInstance(i)
        PROVE  SeedInv'
    <3>1. p[i].section = 3
      <4>1. p[i].at = "store" /\ p[i].item \in 1 .. Len(Items(Section(i)))
        BY <2>2, <2>5 DEF NoInstance, Placed, Section
      <4>. QED  BY <2>2, <2>5, <4>1, Order DEF NoInstance, Current, Section
    <3>2. PICK z : z = [p[i] EXCEPT !.section = @ + 1]
      OBVIOUS
    <3>3. z.section = 4
      BY <2>2, <2>5, <3>1, <3>2 DEF NoInstance
    <3>4. PICK q : q = AfterSection(z)
      OBVIOUS
    <3>5. Placed(q, Self(i), stored)
      BY <3>3, <3>4, NextSection
    <3>6. p' = [p EXCEPT ![i] = q]
      <4>1. p' = [p EXCEPT ![i] = AfterSection([p[i] EXCEPT !.section = p[i].section + 1])]
        BY <2>5 DEF NoInstance
      <4>2. z = [p[i] EXCEPT !.section = p[i].section + 1]
        BY <3>2
      <4>. QED  BY <3>4, <4>1, <4>2
    <3>. QED  BY <2>0, <2>2, <2>5, <3>5, <3>6 DEF NoInstance
  <2>6. ASSUME NEW i \in Starters, ReadList(i)
        PROVE  SeedInv'
    <3>1. PICK c : c = IF Current(i).kind = "volume" THEN Empty ELSE list[Current(i).kind]
      OBVIOUS
    <3>2. PICK z : z = [p[i] EXCEPT !.at = "write", !.seen = c]
      OBVIOUS
    <3>3. p[i].at = "read" /\ p' = [p EXCEPT ![i] = z]
      BY <2>6, <3>1, <3>2 DEF ReadList
    <3>4. z.at = "write" /\ z.section = p[i].section /\ z.item = p[i].item
          /\ z = [at |-> z.at, section |-> z.section, item |-> z.item, seen |-> z.seen]
      <4>1. z = [at |-> "write", section |-> p[i].section, item |-> p[i].item, seen |-> c]
        BY ZenonT(30), <2>2, <3>2, <3>3, Changed
      <4>. QED  BY <4>1
    <3>5. Placed(z, Self(i), stored)
      BY <2>2, <3>3, <3>4 DEF Placed
    <3>. QED  BY <2>0, <2>2, <2>6, <3>3, <3>5 DEF ReadList
  <2>7. ASSUME NEW i \in Starters, WriteList(i)
        PROVE  SeedInv'
    <3>1. p[i].at = "write" /\ p' = [p EXCEPT ![i] = AfterItem(p[i])]
      BY <2>7 DEF WriteList
    <3>2. Placed(AfterItem(p[i]), Self(i), stored)
      <4>1. p[i].item \in 1 .. Len(Items(Section(i))) /\ Wrote(stored, Section(i), p[i].item, Self(i))
        BY <2>2, <3>1 DEF Placed, Section
      <4>2. /\ p[i].section \in 1 .. 5
            /\ p[i].item \in 0 .. Len(Items(Sections[p[i].section]))
            /\ Wrote(stored, Sections[p[i].section], p[i].item, Self(i))
        <5>1. Section(i) = Sections[p[i].section]
          BY DEF Section
        <5>2. p[i].section \in 1 .. 5 /\ Len(Items(Section(i))) \in Nat
          BY <2>2, <3>1
        <5>. QED  BY <4>1, <5>1, <5>2
      <4>3. p[i] = [at |-> p[i].at, section |-> p[i].section, item |-> p[i].item, seen |-> p[i].seen]
        BY <2>2, <3>1
      <4>. QED  BY <4>2, <4>3, NextItem
    <3>3. PICK q : q = AfterItem(p[i])
      OBVIOUS
    <3>. QED  BY <2>0, <2>2, <2>7, <3>1, <3>2, <3>3 DEF WriteList
  <2>8. ASSUME NEW i \in Starters, Mark(i)
        PROVE  SeedInv'
    <3>1. p[i].at = "mark" /\ p' = [p EXCEPT ![i] = AfterSection(p[i])] /\ mark' = mark \cup {Section(i)}
          /\ UNCHANGED <<stored, started>>
      BY <2>8 DEF Mark, MarkNow
    <3>2. Placed(AfterSection(p[i]), Self(i), stored)
      BY <2>2, <3>1, NextSection
    <3>3. Has(Section(i), <<i, started[i]>>) /\ started[i] \in 1 .. started[i]
      BY <2>2, <3>1 DEF Placed, Section, Has, Self, SeedInv
    <3>4. SeedComplete'
      BY <3>1, <3>3 DEF SeedInv, SeedComplete, Has
    <3>5. \A j \in Starters : Placed(p'[j], Self(j)', stored') /\ (p'[j].at # "down" => started'[j] # 0)
      <4>. TAKE j \in Starters
      <4>1. CASE j = i
        BY <2>2, <3>1, <3>2, <4>1 DEF SeedInv, Self
      <4>2. CASE j # i
        BY <3>1, <4>2 DEF SeedInv, Self
      <4>. QED  BY <4>1, <4>2
    <3>6. p' = [j \in Starters |-> p'[j]]
      BY <3>1 DEF SeedInv
    <3>. QED  BY <3>1, <3>4, <3>5, <3>6 DEF SeedInv
  <2>9. CASE UNCHANGED seedVars
    BY <2>9 DEF seedVars, SeedInv, SeedComplete, Has, Self
  <2>. QED  BY <2>1, <2>3, <2>4, <2>5, <2>6, <2>7, <2>8, <2>9 DEF SeedNext
<1>. QED  BY <1>1, <1>2, PTL DEF SeedSpec, SeedInv

-----------------------------------------------------------------------------
(* The cells of the store as the services hold them: what a cell of        *)
(* elements of S is, and what a reader of it still knows later.            *)

CellsOf(S) == [val : {<<>>} \cup {<<v>> : v \in S}, ver : Nat, n : Nat]

\* No cell of these is expired: the version is the count of its writes.
Numbered(cell) == cell.ver = cell.n /\ (Present(cell) => cell.ver >= 1)

\* What was read of a cell is not newer, and at its version it is what there is.
Recalls(seen, cell) == seen.ver <= cell.ver /\ (seen.ver = cell.ver => seen.val = cell.val)

\* From one cell to a later one: the same, or under a version never given.
Follows(old, new) == new = old \/ new.ver > old.ver

LEMMA CellFacts ==
  ASSUME NEW S, NEW c \in CellsOf(S)
  PROVE  /\ c.ver \in Nat /\ c.n \in Nat
         /\ Present(c) => Value(c) \in S /\ c.val = <<Value(c)>>
         /\ ~Present(c) => c.val = <<>>
BY DEF CellsOf, Present, Value

LEMMA WriteCell ==
  ASSUME NEW S, NEW c \in CellsOf(S), NEW w, NEW v \in S
  PROVE  /\ Put(c, w, v) \in CellsOf(S) /\ Erase(c, w) \in CellsOf(S)
         /\ c.ver # w => Put(c, w, v) = c /\ Erase(c, w) = c
         /\ c.ver = w => /\ Put(c, w, v) = [val |-> <<v>>, ver |-> c.n + 1, n |-> c.n + 1]
                         /\ Erase(c, w) = [val |-> <<>>, ver |-> c.n + 1, n |-> c.n + 1]
BY DEF CellsOf, Put, Erase, Stored, Accepts

LEMMA WriteNumbered ==
  ASSUME NEW S, NEW c \in CellsOf(S), Numbered(c), NEW w, NEW v \in S
  PROVE  /\ Numbered(Put(c, w, v)) /\ Numbered(Erase(c, w))
         /\ Follows(c, Put(c, w, v)) /\ Follows(c, Erase(c, w))
         /\ c.ver = w => /\ Present(Put(c, w, v)) /\ Value(Put(c, w, v)) = v
                         /\ Put(c, w, v).ver = c.ver + 1
                         /\ ~Present(Erase(c, w)) /\ Erase(c, w).ver = c.ver + 1
<1>1. c.ver \in Nat /\ c.n \in Nat
  BY CellFacts
<1>. PICK written : written = Put(c, w, v)
  OBVIOUS
<1>. PICK e : e = Erase(c, w)
  OBVIOUS
<1>2. CASE c.ver # w
  <2>1. written = c /\ e = c
    BY <1>2, WriteCell
  <2>. QED
    BY <1>2, <2>1 DEF Follows
<1>3. CASE c.ver = w
  <2>1. written = [val |-> <<v>>, ver |-> c.n + 1, n |-> c.n + 1] /\ e = [val |-> <<>>, ver |-> c.n + 1, n |-> c.n + 1]
    BY <1>3, WriteCell
  <2>2. /\ written.val = <<v>> /\ written.ver = c.n + 1 /\ written.n = c.n + 1
        /\ e.val = <<>> /\ e.ver = c.n + 1 /\ e.n = c.n + 1
    BY <2>1
  <2>3. <<v>> # <<>> /\ <<v>>[1] = v
    OBVIOUS
  <2>4. Present(written) /\ Value(written) = v /\ ~Present(e)
    BY <2>2, <2>3 DEF Present, Value
  <2>. QED
    BY <1>1, <2>2, <2>4 DEF Numbered, Follows
<1>. QED
  BY <1>2, <1>3

LEMMA EraseCell ==
  ASSUME NEW S, NEW c \in CellsOf(S), Numbered(c), Present(c), NEW e, e = EraseTxn(c)
  PROVE  e \in CellsOf(S) /\ Numbered(e) /\ Follows(c, e) /\ ~Present(e) /\ e.ver = c.ver + 1
<1>1. Value(c) \in S
  BY CellFacts
<1>. QED
  BY <1>1, WriteCell, WriteNumbered DEF EraseTxn

LEMMA StillRecalls ==
  ASSUME NEW S, NEW seen, NEW c \in CellsOf(S), NEW d \in CellsOf(S), seen.ver \in Nat,
         Recalls(seen, c), Follows(c, d)
  PROVE  Recalls(seen, d)
BY CellFacts DEF Recalls, Follows

-----------------------------------------------------------------------------
(* The directory of users: indexes, e-mails, uids and the one root.        *)

UserRecords == [id : UserIds, email : Emails, uid : Nat, root : BOOLEAN, profile : Nat,
                groups : SUBSET {"wheel"}]

Registering == {"claim", "uidRead", "uidWrite", "insert"}
Counting == {"countRead", "countWrite"}
Writing == {"updWrite", "grpWrite"}
Mailing == {"mailRead", "mailWrite"}
Known == Counting \cup Writing \cup Mailing \cup {"join", "updRead", "grpRead", "delRead", "remove"}

UserCalls == [at : {"idle"} \cup Registering \cup Known, id : UserIds \cup {None},
              email : Emails \cup {None}, root : BOOLEAN, uid : Nat,
              seen : CellsOf(Nat) \cup CellsOf(UserRecords), tries : Nat, step : Nat]

DirectoryTyped ==
    /\ user \in [UserIds -> CellsOf(UserRecords)] /\ mail \in [Emails -> CellsOf(UserRecords)]
    /\ counter \in CellsOf(Nat) /\ count \in CellsOf(Nat) /\ claimed \in BOOLEAN
    /\ call \in [Clients -> UserCalls]

DirectoryNumbered == /\ \A i \in UserIds : Numbered(user[i])
                     /\ \A e \in Emails : Numbered(mail[e])
                     /\ Numbered(counter)

NextUid == IF Present(counter) THEN Value(counter) ELSE 1

\* What a call under way may rely on when it goes on.
CallSound(q) ==
    /\ q.at \in Registering => q.id \in UserIds /\ user[q.id].ver = 0 /\ q.email \in Emails
    /\ q.at \in Known => q.id \in UserIds /\ user[q.id].ver >= 1
    /\ q.at = "claim" => ~q.root
    /\ q.at = "uidWrite" => q.seen \in CellsOf(Nat) /\ Recalls(q.seen, counter)
    /\ q.at = "insert" => /\ q.uid < NextUid
                          /\ \A i \in UserIds : Present(user[i]) => Value(user[i]).uid # q.uid
    /\ q.at \in Writing => Recalls(q.seen, user[q.id])
    /\ q.at \in Writing \cup Mailing => q.seen \in CellsOf(UserRecords) /\ Present(q.seen)
    /\ q.at \in Writing \cup Mailing \cup {"remove"} =>
          q.email \in Emails /\ (Present(user[q.id]) => Value(user[q.id]).email = q.email)
    /\ q.at = "mailWrite" => /\ q.seen.ver >= 1 /\ q.seen.ver <= mail[q.email].ver
                             /\ q.seen.ver = mail[q.email].ver => Present(mail[q.email])
    /\ q.at = "countWrite" => q.seen \in CellsOf(Nat)
    /\ q.at \in Counting => q.step \in {1, 2}

CallsSound == \A c \in Clients : CallSound(call[c])

\* Two registrations have neither the id nor the uid in common.
Apart == \A c, d \in Clients : c # d =>
    /\ call[c].at \in Registering /\ call[d].at \in Registering => call[c].id # call[d].id
    /\ call[c].at = "insert" /\ call[d].at = "insert" => call[c].uid # call[d].uid

UidsGiven == NextUid >= 1 /\ \A i \in UserIds : Present(user[i]) => Value(user[i]).uid < NextUid

RootClaimed == OneRoot /\ (~claimed => \A i \in UserIds : ~IsRoot(i))

DirectoryInv == /\ DirectoryTyped /\ DirectoryNumbered /\ CallsSound /\ Apart
                /\ UidsGiven /\ RootClaimed /\ DirectoryAgrees

LEMMA IdleCall == Idle \in UserCalls /\ CallSound(Idle) /\ CallSound(Idle)' /\ ~Idle.root /\ Idle.at = "idle"
<1>1. Empty \in CellsOf(Nat)
  BY DEF Empty, CellsOf, Null
<1>. QED
  BY <1>1 DEF Idle, UserCalls, CallSound, Registering, Known, Counting, Writing, Mailing, None

LEMMA DirectoryInit == UsersInit => DirectoryInv
<1>. SUFFICES ASSUME UsersInit PROVE DirectoryInv
  OBVIOUS
<1>. PICK f : f = CHOOSE i \in UserIds : TRUE
  OBVIOUS
<1>. PICK e : e = CHOOSE x \in Emails : TRUE
  OBVIOUS
<1>1. f \in UserIds /\ e \in Emails
  BY DirectoryAssumption
<1>. PICK r : r = Record(f, e, 1, TRUE)
  OBVIOUS
<1>2. r \in UserRecords /\ r.email = e /\ r.uid = 1 /\ r.root
  BY <1>1 DEF Record, UserRecords
<1>3. /\ Holding(r) \in CellsOf(UserRecords) /\ Holding(2) \in CellsOf(Nat) /\ Holding(1) \in CellsOf(Nat)
      /\ Empty \in CellsOf(UserRecords) /\ Empty \in CellsOf(Nat)
  BY <1>2 DEF Holding, Empty, CellsOf, Null
<1>4. /\ Present(Holding(r)) /\ Value(Holding(r)) = r /\ Numbered(Holding(r))
      /\ Present(Holding(2)) /\ Value(Holding(2)) = 2 /\ Numbered(Holding(2))
      /\ ~Present(Empty) /\ Numbered(Empty)
  BY DEF Holding, Empty, Present, Value, Numbered, Null
<1>5. call = [c \in Clients |-> Idle]
  BY DEF UsersInit
<1>6. CallsSound /\ Apart
  BY <1>5, IdleCall DEF CallsSound, Apart, Registering
<1>7. CASE /\ user = [i \in UserIds |-> Empty] /\ mail = [x \in Emails |-> Empty]
           /\ uidIndex = {} /\ index = {} /\ counter = Empty /\ count = Empty /\ claimed = FALSE
  <2>1. DirectoryTyped /\ DirectoryNumbered
    BY <1>3, <1>4, <1>5, <1>7, IdleCall DEF DirectoryTyped, DirectoryNumbered
  <2>2. UidsGiven /\ RootClaimed
    BY <1>4, <1>5, <1>7, IdleCall DEF UidsGiven, NextUid, RootClaimed, OneRoot, IsRoot
  <2>3. Existing = {} /\ index = {} /\ \A x \in Emails : ~Present(mail[x])
    BY <1>4, <1>7 DEF Existing
  <2>4. DirectoryAgrees
    BY <2>3 DEF DirectoryAgrees
  <2>. QED
    BY <1>6, <2>1, <2>2, <2>4 DEF DirectoryInv
<1>8. CASE /\ user = [i \in UserIds |-> IF i = f THEN Holding(r) ELSE Empty]
           /\ mail = [x \in Emails |-> IF x = e THEN Holding(r) ELSE Empty]
           /\ uidIndex = {<<1, f>>} /\ index = {f}
           /\ counter = Holding(2) /\ count = Holding(1) /\ claimed = TRUE
  <2>1. DirectoryTyped /\ DirectoryNumbered
    BY <1>3, <1>4, <1>5, <1>8, IdleCall DEF DirectoryTyped, DirectoryNumbered
  <2>0. \A i \in UserIds : Present(user[i]) => i = f /\ Value(user[i]) = r
    BY <1>4, <1>8
  <2>9. NextUid = 2
    BY <1>4, <1>8 DEF NextUid
  <2>2. UidsGiven
    <3>1. \A i \in UserIds : Present(user[i]) => Value(user[i]).uid = 1
      BY <1>2, <2>0
    <3>. QED
      BY <2>9, <3>1 DEF UidsGiven
  <2>3. RootClaimed
    BY <1>5, <1>8, <2>0, IdleCall DEF RootClaimed, OneRoot, IsRoot
  <2>4. Existing = {f} /\ Value(user[f]) = r /\ Present(user[f])
    BY <1>1, <1>4, <1>8 DEF Existing
  <2>5. \A x \in Emails : Present(mail[x]) <=> x = e
    BY <1>4, <1>8
  <2>6. {x \in uidIndex : x[1] = 1} = {<<1, f>>}
    BY <1>8
  <2>7. /\ \A i \in Existing : i = f /\ Value(user[i]).uid = 1 /\ Value(user[i]).email = e
        /\ \A i \in Existing : {x \in uidIndex : x[1] = Value(user[i]).uid} = {<<Value(user[i]).uid, i>>}
    BY <1>2, <2>4, <2>6
  <2>8. DirectoryAgrees
    BY <1>8, <2>4, <2>5, <2>7 DEF DirectoryAgrees
  <2>. QED
    BY <1>6, <2>1, <2>2, <2>3, <2>8 DEF DirectoryInv
<1>. QED
  <2>1. CASE claimed
    <3>1. claimed = TRUE
      BY <2>1 DEF UsersInit
    <3>. QED
      BY <1>8, <2>1, <3>1 DEF UsersInit
  <2>2. CASE ~claimed
    <3>1. claimed = FALSE
      BY <2>2 DEF UsersInit
    <3>. QED
      BY <1>7, <2>2, <3>1 DEF UsersInit
  <2>. QED
    BY <2>1, <2>2

\* What a call relies on stays true while others change the store.
LEMMA SoundKept ==
  ASSUME NEW q \in UserCalls, CallSound(q), DirectoryTyped, DirectoryTyped', NextUid' >= NextUid,
         NextUid \in Nat, NextUid' \in Nat,
         \A i \in UserIds : Follows(user[i], user'[i]),
         \A i \in UserIds : user[i].ver >= 1 /\ Present(user'[i]) =>
              Present(user[i]) /\ Value(user'[i]).email = Value(user[i]).email,
         \A e \in Emails : Follows(mail[e], mail'[e]),
         Follows(counter, counter'),
         q.at \in Registering => user'[q.id].ver = user[q.id].ver,
         q.at = "insert" => \A i \in UserIds : Present(user'[i]) => Value(user'[i]).uid # q.uid
  PROVE  CallSound(q)'
<1>. USE DEF DirectoryTyped
<1>1. /\ \A i \in UserIds : user[i] \in CellsOf(UserRecords) /\ user'[i] \in CellsOf(UserRecords)
      /\ \A e \in Emails : mail[e] \in CellsOf(UserRecords) /\ mail'[e] \in CellsOf(UserRecords)
      /\ counter \in CellsOf(Nat) /\ counter' \in CellsOf(Nat)
  OBVIOUS
<1>2. /\ \A i \in UserIds : user[i].ver \in Nat /\ user'[i].ver \in Nat
      /\ \A e \in Emails : mail[e].ver \in Nat /\ mail'[e].ver \in Nat
      /\ q.seen.ver \in Nat /\ q.uid \in Nat
  BY <1>1 DEF CellsOf, UserCalls
<1>3. q.at \in Registering => q.id \in UserIds /\ user'[q.id].ver = 0 /\ q.email \in Emails
  BY DEF CallSound
<1>4. q.at \in Known => q.id \in UserIds /\ user'[q.id].ver >= 1
  BY <1>2 DEF CallSound, Follows
<1>5. q.at = "uidWrite" => q.seen \in CellsOf(Nat) /\ Recalls(q.seen, counter')
  BY <1>1, <1>2, StillRecalls DEF CallSound
<1>6. q.at = "insert" => q.uid < NextUid' /\ \A i \in UserIds : Present(user'[i]) => Value(user'[i]).uid # q.uid
  BY <1>2 DEF CallSound
<1>7. q.at \in Writing => Recalls(q.seen, user'[q.id])
  <2>1. q.at \in Writing => q.id \in UserIds /\ Recalls(q.seen, user[q.id])
    BY DEF CallSound, Known
  <2>. QED
    BY <1>1, <1>2, <2>1, StillRecalls
<1>8. q.at \in Writing \cup Mailing \cup {"remove"} =>
          q.email \in Emails /\ (Present(user'[q.id]) => Value(user'[q.id]).email = q.email)
  <2>. SUFFICES ASSUME q.at \in Writing \cup Mailing \cup {"remove"}
       PROVE q.email \in Emails /\ (Present(user'[q.id]) => Value(user'[q.id]).email = q.email)
    OBVIOUS
  <2>1. q.id \in UserIds /\ user[q.id].ver >= 1
    BY DEF CallSound, Known
  <2>2. q.email \in Emails /\ (Present(user[q.id]) => Value(user[q.id]).email = q.email)
    BY DEF CallSound
  <2>. QED
    BY <2>1, <2>2
<1>9. q.at = "mailWrite" => /\ q.seen.ver >= 1 /\ q.seen.ver <= mail'[q.email].ver
                            /\ q.seen.ver = mail'[q.email].ver => Present(mail'[q.email])
  <2>1. q.at = "mailWrite" => q.email \in Emails
    BY DEF CallSound, Mailing
  <2>2. q.at = "mailWrite" => /\ q.seen.ver >= 1 /\ q.seen.ver <= mail[q.email].ver
                              /\ q.seen.ver = mail[q.email].ver => Present(mail[q.email])
    BY DEF CallSound
  <2>. QED
    BY <1>2, <2>1, <2>2 DEF Follows
<1>10. /\ q.at = "claim" => ~q.root
       /\ q.at \in Writing \cup Mailing => q.seen \in CellsOf(UserRecords) /\ Present(q.seen)
       /\ q.at = "countWrite" => q.seen \in CellsOf(Nat)
       /\ q.at \in Counting => q.step \in {1, 2}
  BY DEF CallSound
<1>. QED
  BY <1>3, <1>4, <1>5, <1>6, <1>7, <1>8, <1>9, <1>10 DEF CallSound

-----------------------------------------------------------------------------

\* Who may have become root, and what keeps registrations apart, when one call
\* goes on as q.
LEMMA RootMoves ==
  ASSUME NEW c \in Clients, NEW q, call'[c] = q, \A d \in Clients \ {c} : call'[d] = call[d],
         user' = user, NEW i \in UserIds, IsRoot(i)'
  PROVE  IsRoot(i) \/ (q.root /\ q.id = i)
BY DEF IsRoot

LEMMA ApartMoves ==
  ASSUME Apart, NEW c \in Clients, NEW q, call'[c] = q, \A d \in Clients \ {c} : call'[d] = call[d],
         q.at \in Registering => \/ q.id = call[c].id /\ call[c].at \in Registering
                                 \/ \A d \in Clients : call[d].id # q.id,
         q.at = "insert" => \A d \in Clients \ {c} : call[d].at = "insert" => call[d].uid # q.uid
  PROVE  Apart'
BY DEF Apart

\* A step that leaves the directory alone, of one call that goes on as q.
LEMMA CallStep ==
  ASSUME DirectoryInv, NEW c \in Clients, NEW q \in UserCalls,
         call' = [call EXCEPT ![c] = q], CallSound(q),
         UNCHANGED <<user, mail, uidIndex, index, counter, claimed>>, count' \in CellsOf(Nat),
         q.root => call[c].root /\ q.id = call[c].id,
         q.at \in Registering => \/ q.id = call[c].id /\ call[c].at \in Registering
                                 \/ \A d \in Clients : call[d].id # q.id,
         q.at # "insert"
  PROVE  DirectoryInv'
<1>. USE DEF DirectoryInv
<1>1. call'[c] = q /\ \A d \in Clients \ {c} : call'[d] = call[d]
  BY DEF DirectoryTyped
<1>2. DirectoryTyped' /\ DirectoryNumbered'
  BY DEF DirectoryTyped, DirectoryNumbered
<1>3. \A x : CallSound(x) => CallSound(x)'
  BY DEF CallSound, NextUid
<1>4. CallsSound'
  BY <1>1, <1>3 DEF CallsSound
<1>5. Apart'
  BY <1>1 DEF Apart
<1>6. UidsGiven'
  BY DEF UidsGiven, NextUid
<1>7. \A i \in UserIds : IsRoot(i)' => IsRoot(i)
  BY <1>1 DEF IsRoot
<1>8. RootClaimed'
  BY <1>7 DEF RootClaimed, OneRoot
<1>9. DirectoryAgrees'
  BY DEF DirectoryAgrees, Existing
<1>. QED
  BY <1>2, <1>4, <1>5, <1>6, <1>8, <1>9

LEMMA CallEnds ==
  ASSUME DirectoryInv, NEW c \in Clients, End(c),
         UNCHANGED <<user, mail, uidIndex, index, counter, claimed>>, count' \in CellsOf(Nat)
  PROVE  DirectoryInv'
BY IdleCall, CallStep DEF End, Registering

LEMMA CallBegins ==
  ASSUME DirectoryInv, NEW c \in Clients, StartRegister(c) \/ StartUpdate(c) \/ StartGroup(c) \/ StartDelete(c)
  PROVE  DirectoryInv'
<1>1. ASSUME NEW e \in Emails, NEW i \in Fresh, NEW op, NEW q,
             q = [Idle EXCEPT !.at = "claim", !.id = i, !.email = e], Begin(c, op, q)
      PROVE  DirectoryInv'
  <2>1. i \in UserIds /\ user[i].ver = 0 /\ \A d \in Clients : call[d].id # i
    BY DEF Fresh, Null
  <2>2. q \in UserCalls /\ q.at = "claim" /\ q.id = i /\ q.email = e /\ ~q.root
    BY <1>1, <2>1, IdleCall DEF UserCalls, Registering
  <2>3. CallSound(q)
    BY <2>1, <2>2 DEF CallSound, Registering, Known, Writing, Mailing, Counting
  <2>4. /\ call' = [call EXCEPT ![c] = q] /\ count' = count
        /\ UNCHANGED <<user, mail, uidIndex, index, counter, claimed>>
    BY <1>1 DEF Begin, store
  <2>. QED
    BY <2>1, <2>2, <2>3, <2>4, CallStep DEF DirectoryInv, DirectoryTyped
<1>2. ASSUME NEW i \in Targets, NEW at \in {"updRead", "grpRead", "delRead"}, NEW op, NEW q,
             q = Knows(i, at), Begin(c, op, q)
      PROVE  DirectoryInv'
  <2>1. i \in UserIds /\ user[i].ver # 0
    BY DEF Targets, Null
  <2>2. user[i].ver >= 1
    BY <2>1, CellFacts DEF DirectoryInv, DirectoryTyped
  <2>3. q \in UserCalls /\ q.at = at /\ q.id = i /\ ~q.root
    BY <1>2, <2>1, IdleCall DEF Knows, UserCalls, Known
  <2>4. CallSound(q)
    BY <2>1, <2>2, <2>3 DEF CallSound, Registering, Known, Writing, Mailing, Counting
  <2>5. /\ call' = [call EXCEPT ![c] = q] /\ count' = count
        /\ UNCHANGED <<user, mail, uidIndex, index, counter, claimed>>
    BY <1>2 DEF Begin, store
  <2>. QED
    BY <2>3, <2>4, <2>5, CallStep DEF DirectoryInv, DirectoryTyped, Registering
<1>. QED
  BY <1>1, <1>2 DEF StartRegister, StartUpdate, StartGroup, StartDelete

\* What a step may use of the call it is a step of.
LEMMA CallFacts ==
  ASSUME DirectoryInv, NEW c \in Clients
  PROVE  /\ call[c] \in UserCalls /\ CallSound(call[c])
         /\ count \in CellsOf(Nat) /\ counter \in CellsOf(Nat) /\ Numbered(counter)
         /\ \A i \in UserIds : user[i] \in CellsOf(UserRecords) /\ Numbered(user[i])
         /\ \A e \in Emails : mail[e] \in CellsOf(UserRecords) /\ Numbered(mail[e])
BY DEF DirectoryInv, DirectoryTyped, DirectoryNumbered, CallsSound

LEMMA UidReadStep == ASSUME DirectoryInv, NEW c \in Clients, NextUidRead(c) PROVE DirectoryInv'
<1>. PICK r : r = call[c]
  OBVIOUS
<1>. PICK q : q = [r EXCEPT !.seen = counter, !.at = "uidWrite"]
  OBVIOUS
<1>1. r \in UserCalls /\ r.at = "uidRead" /\ CallSound(r) /\ counter \in CellsOf(Nat)
  BY CallFacts DEF NextUidRead, At
<1>2. q \in UserCalls /\ q.at = "uidWrite" /\ q.id = r.id /\ q.email = r.email /\ q.root = r.root /\ q.seen = counter
  BY <1>1 DEF UserCalls, Registering
<1>3. Recalls(counter, counter)
  BY <1>1, CellFacts DEF Recalls
<1>4. CallSound(q)
  BY <1>1, <1>2, <1>3 DEF CallSound, Registering, Known, Writing, Mailing, Counting
<1>5. call' = [call EXCEPT ![c] = q]
  BY DEF NextUidRead
<1>6. count' = count /\ UNCHANGED <<user, mail, uidIndex, index, counter, claimed>>
  BY DEF NextUidRead, store
<1>. QED
  BY <1>1, <1>2, <1>4, <1>5, <1>6, CallStep, CallFacts DEF Registering

LEMMA CountReadStep == ASSUME DirectoryInv, NEW c \in Clients, CountRead(c) PROVE DirectoryInv'
<1>. PICK r : r = call[c]
  OBVIOUS
<1>. PICK q : q = [r EXCEPT !.seen = count, !.at = "countWrite"]
  OBVIOUS
<1>1. r \in UserCalls /\ r.at = "countRead" /\ CallSound(r) /\ count \in CellsOf(Nat)
  BY CallFacts DEF CountRead, At
<1>2. q \in UserCalls /\ q.at = "countWrite" /\ q.id = r.id /\ q.step = r.step /\ q.root = r.root /\ q.seen = count
  BY <1>1 DEF UserCalls, Known, Counting
<1>4. CallSound(q)
  BY <1>1, <1>2 DEF CallSound, Registering, Known, Writing, Mailing, Counting
<1>5. call' = [call EXCEPT ![c] = q]
  BY DEF CountRead
<1>6. count' = count /\ UNCHANGED <<user, mail, uidIndex, index, counter, claimed>>
  BY DEF CountRead, store
<1>. QED
  BY <1>1, <1>2, <1>4, <1>5, <1>6, CallStep DEF Registering

LEMMA CountWriteStep == ASSUME DirectoryInv, NEW c \in Clients, CountWrite(c) PROVE DirectoryInv'
<1>. PICK r : r = call[c]
  OBVIOUS
<1>1. r \in UserCalls /\ r.at = "countWrite" /\ CallSound(r) /\ count \in CellsOf(Nat)
  BY CallFacts DEF CountWrite, At
<1>2. r.seen \in CellsOf(Nat) /\ r.step \in {1, 2} /\ r.id \in UserIds /\ user[r.id].ver >= 1 /\ r.tries \in Nat
  BY <1>1 DEF CallSound, Counting, Known, UserCalls
<1>. PICK n : n = IF Present(r.seen) THEN Value(r.seen) ELSE 0
  OBVIOUS
<1>3. n \in Nat
  BY <1>2, CellFacts
<1>4. count' \in CellsOf(Nat)
  <2>1. CASE r.step = 2 /\ n = 0
    BY <1>1, <2>1 DEF CountWrite
  <2>2. CASE ~(r.step = 2 /\ n = 0)
    <3>. PICK m : m = IF r.step = 1 THEN n + 1 ELSE n - 1
      OBVIOUS
    <3>1. m \in Nat
      BY <1>2, <1>3, <2>2
    <3>2. count' = Put(count, Version(r.seen), m)
      BY <2>2 DEF CountWrite
    <3>. QED
      BY <1>1, <3>1, <3>2, WriteCell
  <2>. QED
    BY <2>1, <2>2
<1>5. UNCHANGED <<user, mail, uidIndex, index, counter, claimed>>
  BY DEF CountWrite
<1>. PICK j : j = [r EXCEPT !.at = "join"]
  OBVIOUS
<1>. PICK k : k = r.tries + 1
  OBVIOUS
<1>. PICK t : t = [r EXCEPT !.tries = k, !.at = "countRead"]
  OBVIOUS
<1>6. call' = [call EXCEPT ![c] = Idle] \/ call' = [call EXCEPT ![c] = j] \/ call' = [call EXCEPT ![c] = t]
  <2>1. AfterCount(r) = j \/ AfterCount(r) = Idle
    BY DEF AfterCount
  <2>2. call' = [call EXCEPT ![c] = AfterCount(r)] \/ call' = [call EXCEPT ![c] = t]
    <3>1. CASE r.step = 2 /\ n = 0
      BY <3>1 DEF CountWrite
    <3>2. CASE ~(r.step = 2 /\ n = 0)
      <4>1. call' = [call EXCEPT ![c] = IF count' # count \/ r.tries = 2 THEN AfterCount(r)
                                        ELSE [r EXCEPT !.tries = r.tries + 1, !.at = "countRead"]]
        BY <3>2 DEF CountWrite
      <4>. QED
        BY <4>1
    <3>. QED
      BY <3>1, <3>2
  <2>. QED
    BY <2>1, <2>2
<1>7. CASE call' = [call EXCEPT ![c] = Idle]
  BY <1>4, <1>5, <1>7, CallEnds DEF End
<1>8. CASE call' = [call EXCEPT ![c] = j]
  <2>1. j \in UserCalls /\ j.at = "join" /\ j.id = r.id /\ j.root = r.root
    BY <1>1 DEF UserCalls, Known
  <2>2. CallSound(j)
    BY <1>2, <2>1 DEF CallSound, Registering, Known, Writing, Mailing, Counting
  <2>. QED
    BY <1>4, <1>5, <1>8, <2>1, <2>2, CallStep DEF Registering
<1>9. CASE call' = [call EXCEPT ![c] = t]
  <2>0. k \in Nat
    BY <1>2
  <2>1. t \in UserCalls /\ t.at = "countRead" /\ t.id = r.id /\ t.root = r.root /\ t.step = r.step
    BY <1>1, <2>0 DEF UserCalls, Known, Counting
  <2>2. CallSound(t)
    BY <1>2, <2>1 DEF CallSound, Registering, Known, Writing, Mailing, Counting
  <2>. QED
    BY <1>4, <1>5, <1>9, <2>1, <2>2, CallStep DEF Registering
<1>. QED
  BY <1>6, <1>7, <1>8, <1>9

LEMMA JoinStep == ASSUME DirectoryInv, NEW c \in Clients, Join(c) PROVE DirectoryInv'
<1>. PICK r : r = call[c]
  OBVIOUS
<1>. PICK k : k = r.step + 1
  OBVIOUS
<1>. PICK q : q = [r EXCEPT !.step = k]
  OBVIOUS
<1>1. r \in UserCalls /\ r.at = "join" /\ CallSound(r)
  BY CallFacts DEF Join, At
<1>2. q \in UserCalls /\ q.at = "join" /\ q.id = r.id /\ q.root = r.root
  <2>1. k \in Nat
    BY <1>1 DEF UserCalls
  <2>. QED
    BY <1>1, <2>1 DEF UserCalls
<1>3. CallSound(q)
  BY <1>1, <1>2 DEF CallSound, Registering, Known, Writing, Mailing, Counting
<1>4. call' = [call EXCEPT ![c] = q] \/ call' = [call EXCEPT ![c] = Idle]
  <2>1. CASE End(c)
    BY <2>1 DEF End
  <2>2. CASE call' = [call EXCEPT ![c] = IF r.step = Len(GroupsOf(r.root)) THEN Idle
                                         ELSE [r EXCEPT !.step = r.step + 1]]
    BY <2>2
  <2>. QED
    BY <2>1, <2>2 DEF Join
<1>5. count' \in CellsOf(Nat) /\ UNCHANGED <<user, mail, uidIndex, index, counter, claimed>>
  BY CallFacts DEF Join
<1>6. CASE call' = [call EXCEPT ![c] = q]
  BY <1>2, <1>3, <1>5, <1>6, CallStep DEF Registering
<1>7. CASE call' = [call EXCEPT ![c] = Idle]
  BY <1>5, <1>7, CallEnds DEF End
<1>. QED
  BY <1>4, <1>6, <1>7

LEMMA ReadUserStep ==
  ASSUME DirectoryInv, NEW c \in Clients, UpdateRead(c) \/ GroupRead(c) \/ DeleteRead(c)
  PROVE  DirectoryInv'
<1>. PICK r : r = call[c]
  OBVIOUS
<1>1. r \in UserCalls /\ CallSound(r) /\ \A i \in UserIds : user[i] \in CellsOf(UserRecords)
  BY CallFacts
<1>2. ASSUME NEW at \in {"updRead", "grpRead", "delRead"}, NEW next \in Writing \cup {"remove"},
             ReadUser(c, at, next)
      PROVE  DirectoryInv'
  <2>. PICK u : u = user[r.id]
    OBVIOUS
  <2>1. r.at = at /\ r.id \in UserIds /\ u.ver >= 1 /\ u \in CellsOf(UserRecords)
    BY <1>1, <1>2 DEF ReadUser, At, CallSound, Known
  <2>2. count' = count /\ UNCHANGED <<user, mail, uidIndex, index, counter, claimed>>
    BY <1>2 DEF ReadUser, store
  <2>3. CASE ~Present(u)
    BY <1>2, <2>2, <2>3, CallEnds, CallFacts DEF ReadUser
  <2>4. CASE Present(u)
    <3>. PICK e : e = Value(u).email
      OBVIOUS
    <3>. PICK q : q = [r EXCEPT !.seen = u, !.email = e, !.at = next]
      OBVIOUS
    <3>1. e \in Emails
      <4>1. Value(u) \in UserRecords
        BY <2>1, <2>4, CellFacts
      <4>. QED
        BY <4>1 DEF UserRecords
    <3>2. q \in UserCalls /\ q.at = next /\ q.id = r.id /\ q.root = r.root /\ q.email = e /\ q.seen = u
      BY ZenonT(30), <1>1, <2>1, <3>1 DEF UserCalls, Known
    <3>3. Recalls(u, u)
      BY <2>1, CellFacts DEF Recalls
    <3>4. CallSound(q)
      <4>1. next \in {"updWrite", "grpWrite", "remove"}
        BY DEF Writing
      <4>2. /\ q.id \in UserIds /\ user[q.id].ver >= 1 /\ Recalls(q.seen, user[q.id])
            /\ q.seen \in CellsOf(UserRecords) /\ Present(q.seen)
            /\ q.email \in Emails /\ Value(user[q.id]).email = q.email
        BY <2>1, <2>4, <3>1, <3>2, <3>3
      <4>. QED
        BY <3>2, <4>1, <4>2 DEF CallSound, Registering, Known, Writing, Mailing, Counting
    <3>5. call' = [call EXCEPT ![c] = q]
      BY <1>2, <2>4 DEF ReadUser
    <3>. QED
      BY <2>2, <3>2, <3>4, <3>5, CallStep, CallFacts DEF Registering, Writing
  <2>. QED
    BY <2>3, <2>4
<1>. QED
  BY <1>2 DEF UpdateRead, GroupRead, DeleteRead, Writing

LEMMA MailReadStep == ASSUME DirectoryInv, NEW c \in Clients, MailRead(c) PROVE DirectoryInv'
<1>. PICK r : r = call[c]
  OBVIOUS
<1>. PICK m : m = mail[r.email]
  OBVIOUS
<1>1. r \in UserCalls /\ r.at = "mailRead" /\ CallSound(r)
  BY CallFacts DEF MailRead, At
<1>2. /\ r.email \in Emails /\ r.seen \in CellsOf(UserRecords) /\ Present(r.seen)
      /\ r.id \in UserIds /\ user[r.id].ver >= 1
      /\ Present(user[r.id]) => Value(user[r.id]).email = r.email
  BY <1>1 DEF CallSound, Mailing, Known
<1>3. m \in CellsOf(UserRecords) /\ Numbered(m)
  BY <1>2, CallFacts
<1>4. count' = count /\ UNCHANGED <<user, mail, uidIndex, index, counter, claimed>>
  BY DEF MailRead, store
<1>5. CASE ~Present(m)
  BY <1>4, <1>5, CallEnds, CallFacts DEF MailRead
<1>6. CASE Present(m)
  <2>1. m.ver >= 1 /\ m.ver \in Nat /\ Version(m) = m.ver
    BY <1>3, <1>6, CellFacts DEF Numbered, Version
  <2>. PICK s : s = [r.seen EXCEPT !.ver = m.ver]
    OBVIOUS
  <2>2. s \in CellsOf(UserRecords) /\ s.ver = m.ver /\ s.val = r.seen.val
    BY <1>2, <2>1 DEF CellsOf
  <2>. PICK q : q = [[r EXCEPT !.seen = s] EXCEPT !.at = "mailWrite"]
    OBVIOUS
  <2>3. q \in UserCalls /\ q.at = "mailWrite" /\ q.id = r.id /\ q.root = r.root /\ q.email = r.email /\ q.seen = s
    BY <1>1, <2>2 DEF UserCalls, Known, Mailing
  <2>4. Present(s)
    BY <1>2, <2>2 DEF Present
  <2>5. CallSound(q)
    <3>1. /\ q.id \in UserIds /\ user[q.id].ver >= 1 /\ q.seen \in CellsOf(UserRecords) /\ Present(q.seen)
          /\ q.email \in Emails /\ (Present(user[q.id]) => Value(user[q.id]).email = q.email)
          /\ q.seen.ver >= 1 /\ q.seen.ver <= mail[q.email].ver /\ Present(mail[q.email])
      <4>1. mail[q.email] = m /\ q.email \in Emails /\ q.email = r.email /\ q.id = r.id /\ q.seen = s
        BY <1>2, <2>3
      <4>2. m.ver <= m.ver
        BY <2>1
      <4>. QED
        BY <1>2, <1>6, <2>1, <2>2, <2>4, <4>1, <4>2
    <3>. QED
      BY <2>3, <3>1 DEF CallSound, Registering, Known, Writing, Mailing, Counting
  <2>6. call' = [call EXCEPT ![c] = q]
    <3>1. call' = [call EXCEPT ![c] = [r EXCEPT !.seen.ver = m.ver, !.at = "mailWrite"]]
      BY <1>6, <2>1 DEF MailRead
    <3>2. [r EXCEPT !.seen.ver = m.ver, !.at = "mailWrite"] = q
      BY <1>1 DEF UserCalls
    <3>. QED
      BY <3>1, <3>2
  <2>. QED
    BY <1>4, <2>3, <2>5, <2>6, CallStep, CallFacts DEF Registering
<1>. QED
  BY <1>5, <1>6

LEMMA ClaimStep == ASSUME DirectoryInv, NEW c \in Clients, Claim(c) PROVE DirectoryInv'
<1>. USE DEF DirectoryInv
<1>. PICK r : r = call[c]
  OBVIOUS
<1>. PICK f : f = First
  OBVIOUS
<1>. PICK q : q = [r EXCEPT !.root = f, !.at = "uidRead"]
  OBVIOUS
<1>1. r \in UserCalls /\ r.at = "claim" /\ CallSound(r) /\ ~r.root
  BY CallFacts DEF Claim, At, CallSound
<1>2. f = ~claimed /\ f \in BOOLEAN
  BY DEF First
<1>3. q \in UserCalls /\ q.at = "uidRead" /\ q.id = r.id /\ q.email = r.email /\ q.root = f
  BY <1>1, <1>2 DEF UserCalls, Registering
<1>4. /\ call' = [call EXCEPT ![c] = q] /\ claimed' = TRUE
      /\ UNCHANGED <<user, mail, uidIndex, index, counter, count>>
  BY DEF Claim
<1>5. call'[c] = q /\ \A d \in Clients \ {c} : call'[d] = call[d]
  BY <1>4 DEF DirectoryTyped
<1>6. DirectoryTyped' /\ DirectoryNumbered'
  BY <1>3, <1>4 DEF DirectoryTyped, DirectoryNumbered
<1>7. \A x : CallSound(x) => CallSound(x)'
  BY <1>4 DEF CallSound, NextUid
<1>8. CallSound(q)
  BY <1>1, <1>3 DEF CallSound, Registering, Known, Writing, Mailing, Counting
<1>9. CallsSound'
  BY <1>5, <1>7, <1>8 DEF CallsSound
<1>10. Apart'
  BY <1>1, <1>3, <1>5, ApartMoves DEF Registering
<1>11. UidsGiven' /\ DirectoryAgrees'
  BY <1>4 DEF UidsGiven, NextUid, DirectoryAgrees, Existing
<1>12. \A i \in UserIds : IsRoot(i)' => IsRoot(i) \/ (~claimed /\ i = r.id)
  BY ZenonT(30), <1>2, <1>3, <1>4, <1>5, RootMoves
<1>13. RootClaimed'
  BY <1>4, <1>12 DEF RootClaimed, OneRoot
<1>. QED
  BY <1>6, <1>9, <1>10, <1>11, <1>13

LEMMA NextUidFacts == ASSUME DirectoryInv PROVE NextUid \in Nat
BY CellFacts DEF DirectoryInv, DirectoryTyped, NextUid

LEMMA UidWriteStep == ASSUME DirectoryInv, NEW c \in Clients, NextUidWrite(c) PROVE DirectoryInv'
<1>. PICK r : r = call[c]
  OBVIOUS
<1>. PICK n : n = IF Present(r.seen) THEN Value(r.seen) ELSE 1
  OBVIOUS
<1>1. r \in UserCalls /\ r.at = "uidWrite" /\ CallSound(r)
  BY CallFacts DEF NextUidWrite, At
<1>2. /\ r.seen \in CellsOf(Nat) /\ Recalls(r.seen, counter)
      /\ r.id \in UserIds /\ user[r.id].ver = 0 /\ r.email \in Emails
  BY <1>1 DEF CallSound, Registering
<1>3. counter \in CellsOf(Nat) /\ Numbered(counter) /\ count \in CellsOf(Nat)
  BY CallFacts
<1>4. UNCHANGED <<user, mail, uidIndex, index, count, claimed>>
  BY DEF NextUidWrite
<1>5. CASE CounterAccepts(Version(r.seen))
  <2>. USE DEF DirectoryInv
  <2>1. n = NextUid /\ Version(r.seen) = counter.ver
    <3>1. Version(r.seen) = counter.ver
      BY <1>5 DEF CounterAccepts, Accepts
    <3>2. CASE Present(r.seen)
      <4>1. r.seen.ver = counter.ver
        BY <3>1, <3>2 DEF Version
      <4>2. r.seen.val = counter.val
        BY <1>2, <4>1 DEF Recalls
      <4>. QED
        BY <3>1, <3>2, <4>2 DEF Present, Value, NextUid
    <3>3. CASE ~Present(r.seen)
      <4>1. counter.ver = 0
        BY <3>1, <3>3 DEF Version, Null
      <4>2. ~Present(counter)
        BY <1>3, <4>1 DEF Numbered
      <4>. QED
        BY <3>1, <3>3, <4>2 DEF NextUid
    <3>. QED
      BY <3>2, <3>3
  <2>2. n \in Nat /\ n + 1 \in Nat
    BY <2>1, NextUidFacts
  <2>3. counter' = Put(counter, counter.ver, n + 1)
    BY <1>5 DEF NextUidWrite, PutTxn
  <2>4. counter' \in CellsOf(Nat)
    BY <1>3, <2>2, <2>3, WriteCell
  <2>5. Numbered(counter') /\ Follows(counter, counter') /\ Present(counter') /\ Value(counter') = n + 1
    BY <1>3, <2>2, <2>3, WriteNumbered
  <2>6. NextUid' = n + 1
    BY <2>5 DEF NextUid
  <2>. PICK q : q = [r EXCEPT !.uid = n, !.tries = 0, !.at = "insert"]
    OBVIOUS
  <2>7. q \in UserCalls /\ q.at = "insert" /\ q.id = r.id /\ q.email = r.email /\ q.root = r.root /\ q.uid = n
    BY ZenonT(30), <1>1, <2>2 DEF UserCalls, Registering
  <2>8. call' = [call EXCEPT ![c] = q]
    BY <1>5 DEF NextUidWrite
  <2>9. call'[c] = q /\ \A d \in Clients \ {c} : call'[d] = call[d]
    BY <2>8 DEF DirectoryTyped
  <2>10. DirectoryTyped' /\ DirectoryNumbered'
    BY <1>4, <2>4, <2>5, <2>7, <2>8 DEF DirectoryTyped, DirectoryNumbered
  <2>11. \A i \in UserIds : Present(user[i]) =>
            Value(user[i]).uid < n /\ Value(user[i]).uid # n /\ Value(user[i]).uid < n + 1
    <3>1. \A i \in UserIds : Present(user[i]) => Value(user[i]) \in UserRecords
      BY CallFacts, CellFacts
    <3>2. \A i \in UserIds : Present(user[i]) => Value(user[i]).uid \in Nat
      BY <3>1 DEF UserRecords
    <3>. QED
      BY <2>1, <2>2, <3>2 DEF UidsGiven
  <2>12. CallSound(q)'
    BY <1>2, <1>4, <2>2, <2>6, <2>7, <2>11 DEF CallSound, Registering, Known, Writing, Mailing, Counting
  <2>13. ASSUME NEW d \in Clients, d # c, NEW x, x = call[d] PROVE CallSound(x)'
    <3>1. x \in UserCalls /\ CallSound(x)
      BY <2>13, CallFacts
    <3>2. x.at = "insert" => \A i \in UserIds : Present(user'[i]) => Value(user'[i]).uid # x.uid
      BY <1>4, <3>1 DEF CallSound
    <3>3. NextUid' >= NextUid /\ NextUid \in Nat /\ NextUid' \in Nat
      BY <2>1, <2>2, <2>6
    <3>4. \A i \in UserIds : Follows(user[i], user'[i])
      BY <1>4 DEF Follows
    <3>5. \A e \in Emails : Follows(mail[e], mail'[e])
      BY <1>4 DEF Follows
    <3>. QED
      BY <1>4, <2>5, <2>10, <3>1, <3>2, <3>3, <3>4, <3>5, SoundKept
  <2>14. CallsSound'
    BY <2>9, <2>12, <2>13 DEF CallsSound
  <2>15. Apart'
    <3>1. \A d \in Clients : call[d].at = "insert" => call[d].uid < n /\ call[d].uid # n
      <4>1. \A d \in Clients : call[d] \in UserCalls /\ CallSound(call[d])
        BY CallFacts
      <4>2. \A d \in Clients : call[d].uid \in Nat
        BY <4>1 DEF UserCalls
      <4>. QED
        BY <2>1, <2>2, <4>1, <4>2 DEF CallSound
    <3>2. q.id = call[c].id /\ call[c].at \in Registering
      BY <1>1, <2>7 DEF Registering
    <3>3. \A d \in Clients \ {c} : call[d].at = "insert" => call[d].uid # q.uid
      BY <2>7, <3>1
    <3>4. Apart
      OBVIOUS
    <3>. HIDE DEF DirectoryInv
    <3>. QED
      BY <2>9, <3>2, <3>3, <3>4, ApartMoves
  <2>16. UidsGiven'
    <3>1. n + 1 >= 1
      BY <2>2
    <3>. QED
      BY <1>4, <2>6, <2>11, <3>1 DEF UidsGiven
  <2>17. \A i \in UserIds : IsRoot(i)' => IsRoot(i)
    <3>1. \A i \in UserIds : q.root /\ q.id = i => IsRoot(i)
      BY <2>7 DEF IsRoot
    <3>. QED
      BY <1>4, <2>9, <3>1, RootMoves
  <2>18. RootClaimed'
    BY <1>4, <2>17 DEF RootClaimed, OneRoot
  <2>19. DirectoryAgrees'
    BY <1>4 DEF DirectoryAgrees, Existing
  <2>. QED
    BY <2>10, <2>14, <2>15, <2>16, <2>18, <2>19
<1>6. CASE ~CounterAccepts(Version(r.seen))
  <2>. PICK k : k = r.tries + 1
    OBVIOUS
  <2>. PICK t : t = [r EXCEPT !.tries = k, !.at = "uidRead"]
    OBVIOUS
  <2>1. counter' = counter /\ count' \in CellsOf(Nat)
    BY <1>3, <1>4, <1>6 DEF NextUidWrite
  <2>2. call' = [call EXCEPT ![c] = IF r.tries = 2 THEN Idle ELSE t]
    BY <1>6 DEF NextUidWrite
  <2>3. CASE r.tries = 2
    BY <1>4, <2>1, <2>2, <2>3, CallEnds DEF End
  <2>4. CASE r.tries # 2
    <3>1. k \in Nat
      BY <1>1 DEF UserCalls
    <3>2. t \in UserCalls /\ t.at = "uidRead" /\ t.id = r.id /\ t.email = r.email /\ t.root = r.root
      BY <1>1, <3>1 DEF UserCalls, Registering
    <3>3. CallSound(t)
      BY <1>2, <3>2 DEF CallSound, Registering, Known, Writing, Mailing, Counting
    <3>. QED
      BY <1>1, <1>4, <2>1, <2>2, <2>4, <3>2, <3>3, CallStep DEF Registering
  <2>. QED
    BY <2>3, <2>4
<1>. QED
  BY <1>5, <1>6

\* No new root when every root record and call was one before.
LEMMA NoNewRoot ==
  ASSUME RootClaimed, claimed' = claimed, NEW c \in Clients, NEW q, call'[c] = q,
         \A d \in Clients \ {c} : call'[d] = call[d], q.root => call[c].root /\ q.id = call[c].id,
         \A i \in UserIds : Present(user'[i]) /\ Value(user'[i]).root => IsRoot(i)
  PROVE  RootClaimed'
<1>1. \A i \in UserIds : IsRoot(i)' => IsRoot(i)
  BY DEF IsRoot
<1>. QED
  BY <1>1 DEF RootClaimed, OneRoot

LEMMA InsertStep == ASSUME DirectoryInv, NEW c \in Clients, Insert(c) PROVE DirectoryInv'
<1>. PICK r : r = call[c]
  OBVIOUS
<1>1. r \in UserCalls /\ r.at = "insert" /\ CallSound(r)
  BY CallFacts DEF Insert, At
<1>2. /\ r.id \in UserIds /\ user[r.id].ver = 0 /\ r.email \in Emails
      /\ r.uid \in Nat /\ r.uid < NextUid /\ r.root \in BOOLEAN
      /\ \A i \in UserIds : Present(user[i]) => Value(user[i]).uid # r.uid
  BY <1>1 DEF CallSound, Registering, UserCalls
<1>3. UNCHANGED <<counter, count, claimed>>
  BY DEF Insert
<1>4. CASE End(c) /\ UNCHANGED <<user, mail, uidIndex, index>>
  BY <1>3, <1>4, CallEnds, CallFacts
<1>. PICK rec : rec = Record(r.id, r.email, r.uid, r.root)
  OBVIOUS
<1>5. rec \in UserRecords /\ rec.email = r.email /\ rec.uid = r.uid /\ rec.root = r.root
  BY <1>2 DEF Record, UserRecords
<1>6. CASE /\ ~Taken(r.email)
           /\ user' = [user EXCEPT ![r.id] = PutTxn(@, rec)]
           /\ mail' = [mail EXCEPT ![r.email] = PutTxn(@, rec)]
           /\ uidIndex' = {x \in uidIndex : x[1] # r.uid} \cup {<<r.uid, r.id>>}
           /\ index' = index \cup {r.id}
           /\ call' = [call EXCEPT ![c].at = "countRead", ![c].step = 1]
  <2>. PICK q : q = [r EXCEPT !.at = "countRead", !.step = 1]
    OBVIOUS
  <2>1. q \in UserCalls /\ q.at = "countRead" /\ q.id = r.id /\ q.root = r.root /\ q.step = 1
    BY <1>1 DEF UserCalls, Known, Counting
  <2>2. call' = [call EXCEPT ![c] = q]
    BY <1>6
  <2>3. call'[c] = q /\ \A d \in Clients \ {c} : call'[d] = call[d]
    BY <2>2 DEF DirectoryInv, DirectoryTyped
  <2>4. /\ user[r.id] \in CellsOf(UserRecords) /\ Numbered(user[r.id])
        /\ mail[r.email] \in CellsOf(UserRecords) /\ Numbered(mail[r.email])
    BY <1>2, CallFacts
  <2>. PICK u : u = PutTxn(user[r.id], rec)
    OBVIOUS
  <2>. PICK m : m = PutTxn(mail[r.email], rec)
    OBVIOUS
  <2>5. /\ u \in CellsOf(UserRecords) /\ Numbered(u) /\ Follows(user[r.id], u)
        /\ Present(u) /\ Value(u) = rec /\ u.ver = user[r.id].ver + 1
    <3>. PICK old : old = user[r.id]
      OBVIOUS
    <3>1. old \in CellsOf(UserRecords) /\ Numbered(old) /\ rec \in UserRecords
      BY <1>5, <2>4
    <3>. QED
      BY <3>1, WriteCell, WriteNumbered DEF PutTxn
  <2>6. m \in CellsOf(UserRecords) /\ Numbered(m) /\ Follows(mail[r.email], m) /\ Present(m)
    BY <1>5, <2>4, WriteCell, WriteNumbered DEF PutTxn
  <2>7. /\ user' = [user EXCEPT ![r.id] = u] /\ user'[r.id] = u
        /\ \A i \in UserIds \ {r.id} : user'[i] = user[i]
    BY <1>2, <1>6 DEF DirectoryInv, DirectoryTyped
  <2>a. user'[r.id] = u /\ Value(u).email = r.email /\ Value(u).uid = r.uid /\ Value(u).root = r.root
    <3>1. user'[r.id] = u
      BY <2>7
    <3>. QED
      BY <1>5, <2>5, <3>1
  <2>b. \A i \in UserIds \ {r.id} : user'[i] = user[i]
    BY <2>7
  <2>8. /\ mail' = [mail EXCEPT ![r.email] = m] /\ mail'[r.email] = m
        /\ \A e \in Emails \ {r.email} : mail'[e] = mail[e]
    BY <1>2, <1>6 DEF DirectoryInv, DirectoryTyped
  <2>9. ~Present(user[r.id])
    <3>1. ~(user[r.id].ver >= 1)
      <4>1. user[r.id].ver = 0
        BY ZenonT(30), <1>2
      <4>. QED
        BY <4>1
    <3>. QED
      BY <2>4, <3>1 DEF Numbered
  <2>10. DirectoryTyped'
    BY Zenon, <1>3, <2>1, <2>2, <2>5, <2>6, <2>7, <2>8 DEF DirectoryInv, DirectoryTyped
  <2>11. DirectoryNumbered'
    BY Zenon, <1>3, <2>5, <2>6, <2>7, <2>8 DEF DirectoryInv, DirectoryNumbered
  <2>12. /\ \A i \in UserIds : Follows(user[i], user'[i])
         /\ \A e \in Emails : Follows(mail[e], mail'[e])
         /\ Follows(counter, counter') /\ NextUid' = NextUid /\ NextUid \in Nat
    <3>1. \A i \in UserIds : Follows(user[i], user'[i])
      BY <2>5, <2>a, <2>b DEF Follows
    <3>2. \A e \in Emails : Follows(mail[e], mail'[e])
      BY <2>6, <2>8 DEF Follows
    <3>3. counter' = counter
      BY <1>3
    <3>. QED
      BY <3>1, <3>2, <3>3, NextUidFacts DEF Follows, NextUid
  <2>13. \A i \in UserIds : user[i].ver >= 1 => user'[i] = user[i]
    <3>1. ~(user[r.id].ver >= 1)
      <4>1. user[r.id].ver = 0
        BY ZenonT(30), <1>2
      <4>. QED
        BY <4>1
    <3>. QED
      BY <2>b, <3>1
  <2>14. ASSUME NEW d \in Clients, d # c, NEW x, x = call[d] PROVE CallSound(x)'
    <3>1. x \in UserCalls /\ CallSound(x)
      BY <2>14, CallFacts
    <3>2. x.at \in Registering => x.id # r.id /\ x.id \in UserIds
      BY <1>1, <2>14, <3>1 DEF DirectoryInv, Apart, CallSound, Registering
    <3>3. x.at = "insert" => x.uid # r.uid
      BY Zenon, <1>1, <2>14 DEF DirectoryInv, Apart
    <3>4. x.at = "insert" => \A i \in UserIds : Present(user'[i]) => Value(user'[i]).uid # x.uid
      <4>1. x.at = "insert" => \A i \in UserIds : Present(user[i]) => Value(user[i]).uid # x.uid
        BY <3>1 DEF CallSound
      <4>. QED
        BY <2>a, <2>b, <3>3, <4>1
    <3>5. NextUid' >= NextUid /\ NextUid' \in Nat
      BY <2>12
    <3>. QED
      BY <2>7, <2>10, <2>12, <2>13, <3>1, <3>2, <3>4, <3>5, SoundKept DEF DirectoryInv
  <2>15. CallSound(q)'
    <3>1. u.ver >= 1
      BY <2>5 DEF Numbered
    <3>. QED
      BY <1>2, <2>1, <2>7, <3>1 DEF CallSound, Registering, Known, Writing, Mailing, Counting
  <2>16. CallsSound'
    BY <2>3, <2>14, <2>15 DEF CallsSound
  <2>17. Apart'
    <3>1. q.at \notin Registering /\ q.at # "insert"
      BY <2>1 DEF Registering
    <3>. QED
      BY <2>3, <3>1, ApartMoves DEF DirectoryInv
  <2>18. UidsGiven'
    <3>1. NextUid >= 1 /\ \A i \in UserIds : Present(user[i]) => Value(user[i]).uid < NextUid
      BY DEF DirectoryInv, UidsGiven
    <3>2. Value(u).uid < NextUid
      BY <1>2, <2>a
    <3>3. \A i \in UserIds : Present(user'[i]) => Value(user'[i]).uid < NextUid
      BY <2>7, <3>1, <3>2
    <3>. QED
      BY <2>12, <3>1, <3>3 DEF UidsGiven
  <2>19. RootClaimed'
    <3>1. \A i \in UserIds : Present(user'[i]) /\ Value(user'[i]).root => IsRoot(i)
      BY <2>a, <2>b DEF IsRoot
    <3>. QED
      BY <1>3, <2>1, <2>3, <3>1, NoNewRoot DEF DirectoryInv
  <2>20. DirectoryAgrees'
    <3>1. Existing' = Existing \cup {r.id} /\ r.id \notin Existing
      BY <1>2, <2>5, <2>7, <2>9 DEF Existing
    <3>2. \A i \in Existing : i \in UserIds /\ i # r.id /\ user'[i] = user[i] /\ Present(user[i])
      BY <2>7, <2>9 DEF Existing
    <3>3. index' = Existing'
      BY <1>6, <3>1 DEF DirectoryInv, DirectoryAgrees
    <3>4. \A i \in Existing : Value(user[i]).email # r.email /\ Value(user[i]).uid # r.uid
      BY Zenon, <1>2, <1>6, <3>2 DEF DirectoryInv, DirectoryAgrees, Taken
    <3>5. Value(user'[r.id]).email = r.email /\ Value(user'[r.id]).uid = r.uid
      BY <2>a
    <3>6. \A i, j \in Existing' : Value(user'[i]).email = Value(user'[j]).email => i = j
      BY <3>1, <3>2, <3>4, <3>5 DEF DirectoryInv, DirectoryAgrees
    <3>7. \A e \in Emails : Present(mail'[e]) <=> \E i \in Existing' : Value(user'[i]).email = e
      <4>1. ASSUME NEW e \in Emails, e # r.email
            PROVE  Present(mail'[e]) <=> \E i \in Existing' : Value(user'[i]).email = e
        <5>1. Present(mail[e]) <=> \E i \in Existing : Value(user[i]).email = e
          BY DEF DirectoryInv, DirectoryAgrees
        <5>. QED
          BY <2>8, <3>1, <3>2, <3>5, <4>1, <5>1
      <4>. QED
        BY <2>6, <2>8, <3>1, <3>5, <4>1
    <3>8. \A i, j \in Existing' : i # j => Value(user'[i]).uid # Value(user'[j]).uid
      BY <3>1, <3>2, <3>4, <3>5 DEF DirectoryInv, DirectoryAgrees
    <3>9. ASSUME NEW i \in Existing'
          PROVE  {x \in uidIndex' : x[1] = Value(user'[i]).uid} = {<<Value(user'[i]).uid, i>>}
      <4>. PICK n : n = Value(user'[i]).uid
        OBVIOUS
      <4>0. uidIndex' = {x \in uidIndex : x[1] # r.uid} \cup {<<r.uid, r.id>>}
        BY <1>6
      <4>1. CASE i = r.id
        BY <3>5, <4>0, <4>1
      <4>2. CASE i \in Existing
        <5>1. n = Value(user[i]).uid /\ n # r.uid
          BY <3>2, <3>4, <4>2
        <5>2. {x \in uidIndex : x[1] = n} = {<<n, i>>}
          BY <4>2, <5>1 DEF DirectoryInv, DirectoryAgrees
        <5>3. {x \in uidIndex' : x[1] = n} = {x \in uidIndex : x[1] = n}
          BY <4>0, <5>1
        <5>. QED
          BY <5>2, <5>3
      <4>. QED
        BY <3>1, <4>1, <4>2
    <3>. QED
      BY Zenon, <3>3, <3>6, <3>7, <3>8, <3>9 DEF DirectoryAgrees
  <2>. QED
    BY <2>10, <2>11, <2>16, <2>17, <2>18, <2>19, <2>20 DEF DirectoryInv
<1>. QED
  BY <1>4, <1>6 DEF Insert

\* A record is written back, or not, under a version w that its cell had.
LEMMA RecordStep ==
  ASSUME DirectoryInv, NEW c \in Clients, NEW q \in UserCalls, NEW id \in UserIds, NEW w,
         NEW rec \in UserRecords, user' = [user EXCEPT ![id] = Put(@, w, rec)], user[id].ver >= 1,
         user[id].ver = w => /\ Present(user[id]) /\ rec.email = Value(user[id]).email
                             /\ rec.uid = Value(user[id]).uid /\ rec.root = Value(user[id]).root,
         call' = [call EXCEPT ![c] = q], CallSound(q)', q.at \notin Registering,
         q.root => call[c].root /\ q.id = call[c].id,
         UNCHANGED <<mail, uidIndex, index, counter, count, claimed>>
  PROVE  DirectoryInv'
<1>1. call'[c] = q /\ \A d \in Clients \ {c} : call'[d] = call[d]
  BY DEF DirectoryInv, DirectoryTyped
<1>2. user[id] \in CellsOf(UserRecords) /\ Numbered(user[id])
  BY CallFacts
<1>. PICK u : u = Put(user[id], w, rec)
  OBVIOUS
<1>3. u \in CellsOf(UserRecords) /\ Numbered(u) /\ Follows(user[id], u)
  BY <1>2, WriteCell, WriteNumbered
<1>4. user' = [user EXCEPT ![id] = u] /\ user'[id] = u /\ \A i \in UserIds \ {id} : user'[i] = user[i]
  BY DEF DirectoryInv, DirectoryTyped
<1>5. /\ Present(u) <=> Present(user[id])
      /\ Present(u) => /\ Value(u).email = Value(user[id]).email
                       /\ Value(u).uid = Value(user[id]).uid /\ Value(u).root = Value(user[id]).root
  <2>1. CASE user[id].ver = w
    BY <1>2, <2>1, WriteNumbered
  <2>2. CASE user[id].ver # w
    BY <1>2, <2>2, WriteCell
  <2>. QED
    BY <2>1, <2>2
<1>6. \A i \in UserIds : /\ Present(user'[i]) <=> Present(user[i])
                         /\ Present(user[i]) => /\ Value(user'[i]).email = Value(user[i]).email
                                                /\ Value(user'[i]).uid = Value(user[i]).uid
                                                /\ Value(user'[i]).root = Value(user[i]).root
  BY <1>4, <1>5
<1>7. DirectoryTyped'
  BY <1>3, <1>4 DEF DirectoryInv, DirectoryTyped
<1>8. DirectoryNumbered'
  BY <1>3, <1>4 DEF DirectoryInv, DirectoryNumbered
<1>9. /\ \A i \in UserIds : Follows(user[i], user'[i])
      /\ \A e \in Emails : Follows(mail[e], mail'[e])
      /\ Follows(counter, counter') /\ NextUid' = NextUid /\ NextUid \in Nat
      /\ NextUid' \in Nat /\ NextUid' >= NextUid
  BY <1>3, <1>4, NextUidFacts DEF Follows, NextUid
<1>10. ASSUME NEW d \in Clients, d # c, NEW x, x = call[d] PROVE CallSound(x)'
  <2>1. x \in UserCalls /\ CallSound(x)
    BY <1>10, CallFacts
  <2>2. x.at \in Registering => user'[x.id].ver = user[x.id].ver
    <3>1. x.at \in Registering => x.id \in UserIds /\ user[x.id].ver = 0
      BY <2>1 DEF CallSound
    <3>2. ~(0 >= 1)
      OBVIOUS
    <3>. QED
      BY <1>4, <3>1, <3>2
  <2>3. x.at = "insert" => \A i \in UserIds : Present(user'[i]) => Value(user'[i]).uid # x.uid
    BY <1>6, <2>1 DEF CallSound
  <2>. QED
    BY <1>6, <1>7, <1>9, <2>1, <2>2, <2>3, SoundKept DEF DirectoryInv
<1>11. CallsSound'
  BY <1>1, <1>10 DEF CallsSound
<1>12. Apart'
  <2>1. q.at # "insert"
    BY DEF Registering
  <2>. QED
    BY <1>1, <2>1, ApartMoves DEF DirectoryInv
<1>13. UidsGiven'
  BY <1>6, <1>9 DEF DirectoryInv, UidsGiven
<1>14. RootClaimed'
  <2>1. \A i \in UserIds : Present(user'[i]) /\ Value(user'[i]).root => IsRoot(i)
    BY <1>6 DEF IsRoot
  <2>. QED
    BY <1>1, <2>1, NoNewRoot DEF DirectoryInv
<1>15. DirectoryAgrees'
  <2>1. Existing' = Existing /\ Existing \subseteq UserIds
    BY <1>6 DEF Existing
  <2>2. \A i \in Existing : Value(user'[i]).email = Value(user[i]).email /\ Value(user'[i]).uid = Value(user[i]).uid
    BY <1>6 DEF Existing
  <2>. QED
    BY <2>1, <2>2 DEF DirectoryInv, DirectoryAgrees
<1>. QED
  BY <1>7, <1>8, <1>11, <1>12, <1>13, <1>14, <1>15 DEF DirectoryInv

\* What update() and its like write back is the record they read, but for the
\* field they change; the version they give is that of the record.
LEMMA WriteFacts ==
  ASSUME DirectoryInv, NEW c \in Clients, NEW r, r = call[c], r.at \in Writing
  PROVE  /\ r \in UserCalls /\ CallSound(r) /\ r.id \in UserIds /\ user[r.id].ver >= 1
         /\ r.seen \in CellsOf(UserRecords) /\ Present(r.seen) /\ Value(r.seen) \in UserRecords
         /\ user[r.id].ver = WriteVersion(r) => Present(user[r.id]) /\ Value(user[r.id]) = Value(r.seen)
<1>1. r \in UserCalls /\ CallSound(r)
  BY CallFacts
<1>2. /\ r.id \in UserIds /\ user[r.id].ver >= 1 /\ Recalls(r.seen, user[r.id])
      /\ r.seen \in CellsOf(UserRecords) /\ Present(r.seen)
  BY <1>1 DEF CallSound, Known
<1>3. Value(r.seen) \in UserRecords
  BY <1>2, CellFacts
<1>4. WriteVersion(r) = r.seen.ver
  BY <1>2 DEF WriteVersion, Version
<1>. QED
  BY <1>1, <1>2, <1>3, <1>4 DEF Recalls, Present, Value

LEMMA ProfileWritten ==
  ASSUME NEW v \in UserRecords, NEW rec, rec = [v EXCEPT !.profile = @ + 1]
  PROVE  rec \in UserRecords /\ rec.email = v.email /\ rec.uid = v.uid /\ rec.root = v.root
BY DEF UserRecords

LEMMA GroupsWritten ==
  ASSUME NEW v \in UserRecords, NEW g, g \in SUBSET {"wheel"}, NEW rec, rec = [v EXCEPT !.groups = g]
  PROVE  rec \in UserRecords /\ rec.email = v.email /\ rec.uid = v.uid /\ rec.root = v.root
BY DEF UserRecords

LEMMA UpdateWriteStep == ASSUME DirectoryInv, NEW c \in Clients, UpdateWrite(c) PROVE DirectoryInv'
<1>. PICK r : r = call[c]
  OBVIOUS
<1>. PICK v : v = Value(r.seen)
  OBVIOUS
<1>. PICK rec : rec = [v EXCEPT !.profile = @ + 1]
  OBVIOUS
<1>1. r.at = "updWrite"
  BY DEF UpdateWrite, At
<1>2. /\ r \in UserCalls /\ CallSound(r) /\ r.id \in UserIds /\ user[r.id].ver >= 1
      /\ r.seen \in CellsOf(UserRecords) /\ v \in UserRecords
      /\ user[r.id].ver = WriteVersion(r) => Present(user[r.id]) /\ Value(user[r.id]) = v
  BY <1>1, WriteFacts DEF Writing
<1>3. rec \in UserRecords /\ rec.email = v.email /\ rec.uid = v.uid /\ rec.root = v.root
  BY <1>2, ProfileWritten
<1>4. /\ user' = [user EXCEPT ![r.id] = Put(@, WriteVersion(r), rec)]
      /\ UNCHANGED <<mail, uidIndex, index, counter, count, claimed>>
  BY DEF UpdateWrite
<1>5. CASE call' = [call EXCEPT ![c] = Idle]
  <2>1. Idle \in UserCalls /\ CallSound(Idle)' /\ Idle.at \notin Registering /\ ~Idle.root
    BY IdleCall DEF Registering
  <2>. QED
    BY <1>2, <1>3, <1>4, <1>5, <2>1, RecordStep
<1>. PICK s : s = [r.seen EXCEPT !.val = <<rec>>]
  OBVIOUS
<1>. PICK q : q = [[r EXCEPT !.at = "mailRead"] EXCEPT !.seen = s]
  OBVIOUS
<1>6. s \in CellsOf(UserRecords) /\ s.val = <<rec>>
  BY <1>2, <1>3 DEF CellsOf
<1>7. q \in UserCalls /\ q.at = "mailRead" /\ q.id = r.id /\ q.root = r.root /\ q.email = r.email /\ q.seen = s
  BY ZenonT(30), <1>2, <1>6 DEF UserCalls, Known, Mailing
<1>8. CASE call' = [call EXCEPT ![c] = q]
  <2>1. r.email \in Emails /\ (Present(user[r.id]) => Value(user[r.id]).email = r.email)
    BY <1>1, <1>2 DEF CallSound, Writing
  <2>. PICK u : u = Put(user[r.id], WriteVersion(r), rec)
    OBVIOUS
  <2>2. user'[r.id] = u
    BY <1>2, <1>4 DEF DirectoryInv, DirectoryTyped
  <2>3. user[r.id] \in CellsOf(UserRecords) /\ Numbered(user[r.id])
    BY <1>2, CallFacts
  <2>4. u.ver >= 1 /\ (Present(u) => Value(u).email = r.email)
    <3>1. CASE user[r.id].ver = WriteVersion(r)
      <4>1. Present(u) /\ Value(u) = rec /\ u.ver = user[r.id].ver + 1
        BY <1>3, <2>3, <3>1, WriteNumbered
      <4>2. user[r.id].ver \in Nat
        BY <2>3, CellFacts
      <4>3. rec.email = r.email
        BY <1>2, <1>3, <2>1, <3>1
      <4>4. u.ver >= 1
        BY <4>1, <4>2
      <4>. QED
        BY <4>1, <4>3, <4>4
    <3>2. CASE user[r.id].ver # WriteVersion(r)
      <4>1. u = user[r.id]
        BY <1>3, <2>3, <3>2, WriteCell
      <4>. QED
        BY <1>2, <2>1, <4>1
    <3>. QED
      BY <3>1, <3>2
  <2>5. Present(s)
    BY <1>6 DEF Present
  <2>6. CallSound(q)'
    BY <1>2, <1>6, <1>7, <2>1, <2>2, <2>4, <2>5 DEF CallSound, Registering, Known, Writing, Mailing, Counting
  <2>7. q.at \notin Registering /\ (q.root => call[c].root /\ q.id = call[c].id)
    BY <1>7 DEF Registering
  <2>8. user[r.id].ver = WriteVersion(r) => /\ Present(user[r.id]) /\ rec.email = Value(user[r.id]).email
                                            /\ rec.uid = Value(user[r.id]).uid
                                            /\ rec.root = Value(user[r.id]).root
    BY <1>2, <1>3
  <2>9. q \in UserCalls /\ rec \in UserRecords /\ r.id \in UserIds /\ user[r.id].ver >= 1
    BY <1>2, <1>3, <1>7
  <2>. QED
    BY <1>4, <1>8, <2>6, <2>7, <2>8, <2>9, RecordStep
<1>9. call' = [call EXCEPT ![c] = Idle] \/ call' = [call EXCEPT ![c] = q]
  <2>1. call' = [call EXCEPT ![c] = IF user' = user THEN Idle ELSE [r EXCEPT !.at = "mailRead", !.seen.val = <<rec>>]]
    BY DEF UpdateWrite
  <2>2. [r EXCEPT !.at = "mailRead", !.seen.val = <<rec>>] = q
    BY <1>2 DEF UserCalls
  <2>. QED
    BY <2>1, <2>2
<1>. QED
  BY <1>5, <1>8, <1>9

LEMMA GroupWriteStep == ASSUME DirectoryInv, NEW c \in Clients, GroupWrite(c) PROVE DirectoryInv'
<1>. PICK r : r = call[c]
  OBVIOUS
<1>. PICK v : v = Value(r.seen)
  OBVIOUS
<1>. PICK g : g = IF "wheel" \in v.groups THEN v.groups \ {"wheel"} ELSE v.groups \cup {"wheel"}
  OBVIOUS
<1>. PICK rec : rec = [v EXCEPT !.groups = g]
  OBVIOUS
<1>1. r.at = "grpWrite"
  BY DEF GroupWrite, At
<1>2. /\ r.id \in UserIds /\ user[r.id].ver >= 1 /\ v \in UserRecords
      /\ user[r.id].ver = WriteVersion(r) => Present(user[r.id]) /\ Value(user[r.id]) = v
  BY <1>1, WriteFacts DEF Writing
<1>3. g \in SUBSET {"wheel"}
  BY <1>2 DEF UserRecords
<1>4. rec \in UserRecords /\ rec.email = v.email /\ rec.uid = v.uid /\ rec.root = v.root
  BY <1>2, <1>3, GroupsWritten
<1>5. /\ user' = [user EXCEPT ![r.id] = Put(@, WriteVersion(r), rec)]
      /\ call' = [call EXCEPT ![c] = Idle]
      /\ UNCHANGED <<mail, uidIndex, index, counter, count, claimed>>
  BY DEF GroupWrite, End
<1>6. Idle \in UserCalls /\ CallSound(Idle)' /\ Idle.at \notin Registering /\ ~Idle.root
  BY IdleCall DEF Registering
<1>. QED
  BY <1>2, <1>4, <1>5, <1>6, RecordStep

LEMMA MailWriteStep == ASSUME DirectoryInv, NEW c \in Clients, MailWrite(c) PROVE DirectoryInv'
<1>. PICK r : r = call[c]
  OBVIOUS
<1>. PICK v : v = Value(r.seen)
  OBVIOUS
<1>1. r.at = "mailWrite" /\ CallSound(r)
  BY CallFacts DEF MailWrite, At
<1>2. /\ r.email \in Emails /\ r.seen \in CellsOf(UserRecords) /\ Present(r.seen)
      /\ r.seen.ver = mail[r.email].ver => Present(mail[r.email])
  BY <1>1 DEF CallSound, Mailing
<1>3. v \in UserRecords
  BY <1>2, CellFacts
<1>4. /\ mail' = [mail EXCEPT ![r.email] = Put(@, r.seen.ver, v)] /\ call' = [call EXCEPT ![c] = Idle]
      /\ UNCHANGED <<user, uidIndex, index, counter, count, claimed>>
  BY DEF MailWrite, End
<1>. PICK m : m = Put(mail[r.email], r.seen.ver, v)
  OBVIOUS
<1>5. mail[r.email] \in CellsOf(UserRecords) /\ Numbered(mail[r.email])
  BY <1>2, CallFacts
<1>6. m \in CellsOf(UserRecords) /\ Numbered(m) /\ Follows(mail[r.email], m)
  BY <1>3, <1>5, WriteCell, WriteNumbered
<1>7. Present(m) <=> Present(mail[r.email])
  <2>1. CASE mail[r.email].ver = r.seen.ver
    BY <1>2, <1>3, <1>5, <2>1, WriteNumbered
  <2>2. CASE mail[r.email].ver # r.seen.ver
    BY <1>3, <1>5, <2>2, WriteCell
  <2>. QED
    BY <2>1, <2>2
<1>8. /\ mail' = [mail EXCEPT ![r.email] = m] /\ mail'[r.email] = m
      /\ \A e \in Emails \ {r.email} : mail'[e] = mail[e]
  BY <1>2, <1>4 DEF DirectoryInv, DirectoryTyped
<1>9. call'[c] = Idle /\ \A d \in Clients \ {c} : call'[d] = call[d]
  BY <1>4 DEF DirectoryInv, DirectoryTyped
<1>10. DirectoryTyped'
  BY ZenonT(30), <1>4, <1>6, <1>8, IdleCall DEF DirectoryInv, DirectoryTyped
<1>11. DirectoryNumbered'
  BY <1>4, <1>6, <1>8 DEF DirectoryInv, DirectoryNumbered
<1>12. /\ \A i \in UserIds : Follows(user[i], user'[i])
       /\ \A e \in Emails : Follows(mail[e], mail'[e])
       /\ Follows(counter, counter') /\ NextUid' = NextUid /\ NextUid \in Nat
       /\ NextUid' \in Nat /\ NextUid' >= NextUid
  BY <1>4, <1>6, <1>8, NextUidFacts DEF Follows, NextUid
<1>13. ASSUME NEW d \in Clients, d # c, NEW x, x = call[d] PROVE CallSound(x)'
  <2>1. x \in UserCalls /\ CallSound(x)
    BY <1>13, CallFacts
  <2>2. x.at = "insert" => \A i \in UserIds : Present(user'[i]) => Value(user'[i]).uid # x.uid
    BY <1>4, <2>1 DEF CallSound
  <2>. QED
    BY <1>4, <1>10, <1>12, <2>1, <2>2, SoundKept DEF DirectoryInv
<1>14. CallsSound'
  BY <1>9, <1>13, IdleCall DEF CallsSound
<1>15. Apart'
  BY <1>9, IdleCall, ApartMoves DEF DirectoryInv, Registering
<1>16. UidsGiven'
  BY <1>4, <1>12 DEF DirectoryInv, UidsGiven
<1>17. RootClaimed'
  <2>1. \A i \in UserIds : Present(user'[i]) /\ Value(user'[i]).root => IsRoot(i)
    BY <1>4 DEF IsRoot
  <2>. QED
    BY <1>4, <1>9, <2>1, IdleCall, NoNewRoot DEF DirectoryInv
<1>18. DirectoryAgrees'
  <2>1. \A e \in Emails : Present(mail'[e]) <=> Present(mail[e])
    BY <1>7, <1>8
  <2>2. Existing' = Existing
    BY <1>4 DEF Existing
  <2>. QED
    BY <1>4, <2>1, <2>2 DEF DirectoryInv, DirectoryAgrees
<1>. QED
  BY <1>10, <1>11, <1>14, <1>15, <1>16, <1>17, <1>18 DEF DirectoryInv

LEMMA RemoveStep == ASSUME DirectoryInv, NEW c \in Clients, Remove(c) PROVE DirectoryInv'
<1>. PICK r : r = call[c]
  OBVIOUS
<1>1. r \in UserCalls /\ r.at = "remove" /\ CallSound(r)
  BY CallFacts DEF Remove, At
<1>2. /\ r.id \in UserIds /\ user[r.id].ver >= 1 /\ r.email \in Emails
      /\ Present(user[r.id]) => Value(user[r.id]).email = r.email
  BY <1>1 DEF CallSound, Known
<1>3. UNCHANGED <<uidIndex, counter, count, claimed>>
  BY DEF Remove
<1>4. CASE End(c) /\ UNCHANGED <<user, mail, index>>
  BY <1>3, <1>4, CallEnds, CallFacts
<1>5. CASE /\ ~Gone(r)
           /\ user' = [user EXCEPT ![r.id] = EraseTxn(@)]
           /\ mail' = [mail EXCEPT ![r.email] = IF Present(@) THEN EraseTxn(@) ELSE @]
           /\ index' = index \ {r.id}
           /\ call' = [call EXCEPT ![c].at = "countRead", ![c].step = 2]
  <2>. PICK q : q = [r EXCEPT !.at = "countRead", !.step = 2]
    OBVIOUS
  <2>1. q \in UserCalls /\ q.at = "countRead" /\ q.id = r.id /\ q.root = r.root /\ q.step = 2
    BY <1>1 DEF UserCalls, Known, Counting
  <2>2. call' = [call EXCEPT ![c] = q]
    BY <1>5
  <2>3. call'[c] = q /\ \A d \in Clients \ {c} : call'[d] = call[d]
    BY <2>2 DEF DirectoryInv, DirectoryTyped
  <2>4. /\ user[r.id] \in CellsOf(UserRecords) /\ Numbered(user[r.id]) /\ Present(user[r.id])
        /\ Value(user[r.id]) \in UserRecords /\ Value(user[r.id]).email = r.email
        /\ mail[r.email] \in CellsOf(UserRecords) /\ Numbered(mail[r.email])
    BY <1>2, <1>5, CallFacts, CellFacts DEF Gone
  <2>5. r.id \in Existing /\ Present(mail[r.email])
    BY <1>2, <2>4 DEF DirectoryInv, DirectoryAgrees, Existing
  <2>. PICK u : u = EraseTxn(user[r.id])
    OBVIOUS
  <2>. PICK m : m = EraseTxn(mail[r.email])
    OBVIOUS
  <2>6. /\ u \in CellsOf(UserRecords) /\ Numbered(u) /\ Follows(user[r.id], u)
        /\ ~Present(u) /\ u.ver = user[r.id].ver + 1
    BY <2>4, EraseCell
  <2>7. m \in CellsOf(UserRecords) /\ Numbered(m) /\ Follows(mail[r.email], m) /\ ~Present(m)
    BY <2>4, <2>5, EraseCell
  <2>8. /\ user' = [user EXCEPT ![r.id] = u] /\ user'[r.id] = u
        /\ \A i \in UserIds \ {r.id} : user'[i] = user[i]
    BY <1>2, <1>5 DEF DirectoryInv, DirectoryTyped
  <2>9. /\ mail' = [mail EXCEPT ![r.email] = m] /\ mail'[r.email] = m
        /\ \A e \in Emails \ {r.email} : mail'[e] = mail[e]
    BY <1>2, <1>5, <2>5 DEF DirectoryInv, DirectoryTyped
  <2>10. DirectoryTyped'
    BY <1>3, <2>1, <2>2, <2>6, <2>7, <2>8, <2>9 DEF DirectoryInv, DirectoryTyped
  <2>11. DirectoryNumbered'
    BY <1>3, <2>6, <2>7, <2>8, <2>9 DEF DirectoryInv, DirectoryNumbered
  <2>12. /\ \A i \in UserIds : Follows(user[i], user'[i])
         /\ \A e \in Emails : Follows(mail[e], mail'[e])
         /\ Follows(counter, counter') /\ NextUid' = NextUid /\ NextUid \in Nat
         /\ NextUid' \in Nat /\ NextUid' >= NextUid
    <3>1. \A i \in UserIds : Follows(user[i], user'[i])
      BY <2>6, <2>8 DEF Follows
    <3>2. \A e \in Emails : Follows(mail[e], mail'[e])
      BY <2>7, <2>9 DEF Follows
    <3>3. counter' = counter
      BY <1>3
    <3>. QED
      BY <3>1, <3>2, <3>3, NextUidFacts DEF Follows, NextUid
  <2>13. \A i \in UserIds : Present(user'[i]) => i # r.id /\ user'[i] = user[i]
    BY <2>6, <2>8
  <2>14. ASSUME NEW d \in Clients, d # c, NEW x, x = call[d] PROVE CallSound(x)'
    <3>1. x \in UserCalls /\ CallSound(x)
      BY <2>14, CallFacts
    <3>2. x.at \in Registering => user'[x.id].ver = user[x.id].ver
      <4>1. x.at \in Registering => x.id \in UserIds /\ user[x.id].ver = 0
        BY <3>1 DEF CallSound
      <4>2. ~(0 >= 1)
        OBVIOUS
      <4>. QED
        BY <1>2, <2>8, <4>1, <4>2
    <3>3. x.at = "insert" => \A i \in UserIds : Present(user'[i]) => Value(user'[i]).uid # x.uid
      BY <2>13, <3>1 DEF CallSound
    <3>. QED
      BY <2>10, <2>12, <2>13, <3>1, <3>2, <3>3, SoundKept DEF DirectoryInv
  <2>15. CallSound(q)'
    <3>1. u.ver >= 1
      <4>1. user[r.id].ver \in Nat
        BY <2>4, CellFacts
      <4>. QED
        BY <1>2, <2>6, <4>1
    <3>. QED
      BY <1>2, <2>1, <2>8, <3>1 DEF CallSound, Registering, Known, Writing, Mailing, Counting
  <2>16. CallsSound'
    BY <2>3, <2>14, <2>15 DEF CallsSound
  <2>17. Apart'
    <3>1. q.at \notin Registering /\ q.at # "insert"
      BY <2>1 DEF Registering
    <3>. QED
      BY <2>3, <3>1, ApartMoves DEF DirectoryInv
  <2>18. UidsGiven'
    BY <2>12, <2>13 DEF DirectoryInv, UidsGiven
  <2>19. RootClaimed'
    <3>1. \A i \in UserIds : Present(user'[i]) /\ Value(user'[i]).root => IsRoot(i)
      BY <2>13 DEF IsRoot
    <3>. QED
      BY <1>3, <2>1, <2>3, <3>1, NoNewRoot DEF DirectoryInv
  <2>20. DirectoryAgrees'
    <3>1. Existing' = Existing \ {r.id}
      BY <2>6, <2>8 DEF Existing
    <3>2. \A i \in Existing' : i \in Existing /\ i \in UserIds /\ i # r.id /\ user'[i] = user[i]
      BY <2>8, <3>1 DEF Existing
    <3>3. index' = Existing'
      BY <1>5, <3>1 DEF DirectoryInv, DirectoryAgrees
    <3>4. \A i \in Existing' : Value(user'[i]).email # r.email
      BY <2>4, <2>5, <3>2 DEF DirectoryInv, DirectoryAgrees
    <3>5. ASSUME NEW e \in Emails, e # r.email
          PROVE  Present(mail'[e]) <=> \E i \in Existing' : Value(user'[i]).email = e
      <4>1. Present(mail[e]) <=> \E i \in Existing : Value(user[i]).email = e
        BY DEF DirectoryInv, DirectoryAgrees
      <4>. QED
        BY <2>4, <2>9, <3>1, <3>2, <3>5, <4>1
    <3>6. \A e \in Emails : Present(mail'[e]) <=> \E i \in Existing' : Value(user'[i]).email = e
      BY <2>7, <2>9, <3>4, <3>5
    <3>. QED
      BY <1>3, <3>2, <3>3, <3>6 DEF DirectoryInv, DirectoryAgrees
  <2>. QED
    BY <2>10, <2>11, <2>16, <2>17, <2>18, <2>19, <2>20 DEF DirectoryInv
<1>. QED
  BY <1>4, <1>5 DEF Remove

LEMMA DirectoryStep == DirectoryInv /\ [UsersNext]_userVars => DirectoryInv'
<1>. SUFFICES ASSUME DirectoryInv, [UsersNext]_userVars PROVE DirectoryInv'
  OBVIOUS
<1>1. CASE UNCHANGED userVars
  BY <1>1 DEF userVars, DirectoryInv, DirectoryTyped, DirectoryNumbered, CallsSound, CallSound, Apart,
              UidsGiven, NextUid, RootClaimed, OneRoot, IsRoot, DirectoryAgrees, Existing
<1>2. CASE UsersNext
  BY <1>2, CallBegins, ClaimStep, UidReadStep, UidWriteStep, InsertStep, CountReadStep, CountWriteStep,
     JoinStep, ReadUserStep, UpdateWriteStep, MailReadStep, MailWriteStep, GroupWriteStep, RemoveStep
     DEF UsersNext
<1>. QED
  BY <1>1, <1>2

\* The index lists exactly the users there are, every e-mail and every uid is of
\* one of them, and there is one root at most, however calls interleave.
THEOREM DirectoryKept == UsersSpec => []DirectorySound
<1>1. DirectoryInv => DirectorySound
  BY DEF DirectoryInv, RootClaimed, DirectorySound
<1>. QED
  BY <1>1, DirectoryInit, DirectoryStep, PTL DEF UsersSpec

\* What a call may make of a record.
Advances(v, rec) == rec = [v EXCEPT !.profile = @ + 1] \/ rec = [v EXCEPT !.groups = rec.groups]

\* Of the records that are there before and after, a step changes the profile
\* or the groups of one.
LEMMA OneRecord ==
  ASSUME DirectoryInv, NEW id \in UserIds, NEW w, NEW v \in UserRecords, NEW rec \in UserRecords,
         Advances(v, rec),
         user' = [user EXCEPT ![id] = Put(@, w, rec)],
         user[id].ver = w => Present(user[id]) /\ Value(user[id]) = v
  PROVE  NoUpdateLost
<1>1. user[id] \in CellsOf(UserRecords) /\ Numbered(user[id])
  BY DEF DirectoryInv, DirectoryTyped, DirectoryNumbered
<1>2. \A i \in UserIds : Present(user[i]) => Value(user[i]) \in UserRecords
  BY CellFacts DEF DirectoryInv, DirectoryTyped
<1>. PICK u : u = Put(user[id], w, rec)
  OBVIOUS
<1>4. user'[id] = u /\ \A i \in UserIds \ {id} : user'[i] = user[i]
  BY DEF DirectoryInv, DirectoryTyped
<1>5. u = user[id] \/ (Value(user[id]) = v /\ Value(u) = rec)
  BY <1>1, WriteCell, WriteNumbered
<1>7. \A x \in UserRecords : x = [x EXCEPT !.groups = x.groups]
  BY DEF UserRecords
<1>8. ASSUME NEW i \in UserIds, Present(user[i])
      PROVE  \/ Value(user'[i]) = [Value(user[i]) EXCEPT !.profile = @ + 1]
             \/ Value(user'[i]) = [Value(user[i]) EXCEPT !.groups = Value(user'[i]).groups]
  <2>1. CASE user'[i] = user[i]
    <3>. PICK x : x = Value(user[i])
      OBVIOUS
    <3>1. x \in UserRecords
      BY <1>2, <1>8
    <3>2. x = [x EXCEPT !.groups = x.groups]
      BY <1>7, <3>1
    <3>. QED
      BY <2>1, <3>2
  <2>2. CASE user'[i] # user[i]
    <3>1. i = id /\ user'[i] = u /\ Value(user[i]) = v /\ Value(u) = rec
      BY <1>4, <1>5, <2>2
    <3>. QED
      BY <3>1 DEF Advances
  <2>. QED
    BY <2>1, <2>2
<1>. QED
  BY <1>8 DEF NoUpdateLost

\* Nor does a step that leaves, adds or deletes a record.
LEMMA RecordsStay ==
  ASSUME DirectoryInv, \A i \in UserIds : Present(user[i]) /\ Present(user'[i]) => user'[i] = user[i]
  PROVE  NoUpdateLost
<1>1. \A x \in UserRecords : x = [x EXCEPT !.groups = x.groups]
  BY DEF UserRecords
<1>2. \A i \in UserIds : Present(user[i]) => Value(user[i]) \in UserRecords
  BY CellFacts DEF DirectoryInv, DirectoryTyped
<1>3. \A i \in UserIds : Present(user[i]) => Value(user[i]) = [Value(user[i]) EXCEPT !.groups = Value(user[i]).groups]
  BY <1>1, <1>2
<1>. QED
  BY <1>3 DEF NoUpdateLost

LEMMA NoLoss == DirectoryInv /\ UsersNext => NoUpdateLost
<1>. SUFFICES ASSUME DirectoryInv, UsersNext PROVE NoUpdateLost
  OBVIOUS
<1>1. ASSUME user' = user PROVE NoUpdateLost
  BY <1>1, RecordsStay
<1>2. ASSUME NEW c \in Clients, UpdateWrite(c) PROVE NoUpdateLost
  <2>. PICK r : r = call[c]
    OBVIOUS
  <2>. PICK v : v = Value(r.seen)
    OBVIOUS
  <2>. PICK rec : rec = [v EXCEPT !.profile = @ + 1]
    OBVIOUS
  <2>. PICK w : w = WriteVersion(r)
    OBVIOUS
  <2>1. r.at \in Writing
    BY <1>2 DEF UpdateWrite, At, Writing
  <2>2. /\ r.id \in UserIds /\ v \in UserRecords
        /\ user[r.id].ver = w => Present(user[r.id]) /\ Value(user[r.id]) = v
    BY <2>1, WriteFacts
  <2>3. user' = [user EXCEPT ![r.id] = Put(@, w, rec)]
    BY <1>2 DEF UpdateWrite
  <2>4. rec \in UserRecords
    BY <2>2, ProfileWritten
  <2>5. Advances(v, rec)
    BY DEF Advances
  <2>. QED
    BY ZenonT(30), <2>2, <2>3, <2>4, <2>5, OneRecord
<1>3. ASSUME NEW c \in Clients, GroupWrite(c) PROVE NoUpdateLost
  <2>. PICK r : r = call[c]
    OBVIOUS
  <2>. PICK v : v = Value(r.seen)
    OBVIOUS
  <2>. PICK g : g = IF "wheel" \in v.groups THEN v.groups \ {"wheel"} ELSE v.groups \cup {"wheel"}
    OBVIOUS
  <2>. PICK rec : rec = [v EXCEPT !.groups = g]
    OBVIOUS
  <2>. PICK w : w = WriteVersion(r)
    OBVIOUS
  <2>1. r.at \in Writing
    BY <1>3 DEF GroupWrite, At, Writing
  <2>2. /\ r.id \in UserIds /\ v \in UserRecords
        /\ user[r.id].ver = w => Present(user[r.id]) /\ Value(user[r.id]) = v
    BY <2>1, WriteFacts
  <2>3. g \in SUBSET {"wheel"}
    BY <2>2 DEF UserRecords
  <2>4. user' = [user EXCEPT ![r.id] = Put(@, w, rec)]
    BY <1>3 DEF GroupWrite
  <2>5. rec \in UserRecords
    BY <2>2, <2>3, GroupsWritten
  <2>6. Advances(v, rec)
    BY <2>2 DEF UserRecords, Advances
  <2>. QED
    BY ZenonT(30), <2>2, <2>4, <2>5, <2>6, OneRecord
<1>4. ASSUME NEW c \in Clients, Insert(c) PROVE NoUpdateLost
  <2>. PICK r : r = call[c]
    OBVIOUS
  <2>1. r.at = "insert" /\ CallSound(r)
    BY <1>4, CallFacts DEF Insert, At
  <2>2. r.id \in UserIds /\ ~Present(user[r.id])
    <3>1. r.id \in UserIds /\ user[r.id].ver = 0
      BY <2>1 DEF CallSound, Registering
    <3>2. Numbered(user[r.id]) /\ ~(0 >= 1)
      BY <3>1, CallFacts
    <3>. QED
      BY <3>1, <3>2 DEF Numbered
  <2>3. \A i \in UserIds : i # r.id => user'[i] = user[i]
    BY <1>4 DEF Insert, DirectoryInv, DirectoryTyped
  <2>. QED
    BY <2>2, <2>3, RecordsStay
<1>5. ASSUME NEW c \in Clients, Remove(c) PROVE NoUpdateLost
  <2>. PICK r : r = call[c]
    OBVIOUS
  <2>1. r.at = "remove" /\ CallSound(r)
    BY <1>5, CallFacts DEF Remove, At
  <2>2. r.id \in UserIds /\ user[r.id] \in CellsOf(UserRecords) /\ Numbered(user[r.id])
    BY <2>1, CallFacts DEF CallSound, Known
  <2>3. CASE user' = user
    BY <1>1, <2>3
  <2>4. CASE ~Gone(r) /\ user' = [user EXCEPT ![r.id] = EraseTxn(@)]
    <3>1. ~Present(EraseTxn(user[r.id]))
      BY <2>2, <2>4, EraseCell DEF Gone
    <3>2. \A i \in UserIds : Present(user'[i]) => user'[i] = user[i]
      BY Zenon, <2>2, <2>4, <3>1 DEF DirectoryInv, DirectoryTyped
    <3>. QED
      BY <3>2, RecordsStay
  <2>. QED
    BY <1>5, <2>3, <2>4 DEF Remove
<1>6. ASSUME NEW c \in Clients,
             \/ StartRegister(c) \/ StartUpdate(c) \/ StartGroup(c) \/ StartDelete(c) \/ Claim(c)
             \/ NextUidRead(c) \/ NextUidWrite(c) \/ CountRead(c) \/ CountWrite(c) \/ Join(c)
             \/ UpdateRead(c) \/ GroupRead(c) \/ DeleteRead(c) \/ MailRead(c) \/ MailWrite(c)
      PROVE  user' = user
  BY Zenon, <1>6 DEF StartRegister, StartUpdate, StartGroup, StartDelete, Begin, store, Claim, NextUidRead,
       NextUidWrite, CountRead, CountWrite, Join, UpdateRead, GroupRead, DeleteRead, ReadUser, MailRead, MailWrite
<1>. QED
  BY <1>1, <1>2, <1>3, <1>4, <1>5, <1>6 DEF UsersNext

\* No step takes back what another one changed in a user's record.
THEOREM UpdatesKept == UsersSpec => LosesNoUpdate
<1>1. DirectoryInv /\ [UsersNext]_userVars => [NoUpdateLost]_userVars
  BY NoLoss
<1>. QED
  BY <1>1, DirectoryInit, DirectoryStep, PTL DEF UsersSpec, LosesNoUpdate

-----------------------------------------------------------------------------
(* Route rules: the version key counts its writes, every rule of a copy of *)
(* this version has been stored since, and as long as a change is stored   *)
(* that has not bumped it, some caller has to, if its reads are not cached.*)

AclSets == UNION {[S -> RuleKinds] : S \in SUBSET Rules}

CountsWrites(cell) ==
    /\ cell.ver \in Nat /\ cell.n = cell.ver
    /\ IF cell.ver = 0 THEN cell.val = <<>> ELSE cell.val = <<cell.ver>>

VersionCells == {v \in [val : Seq(Nat), ver : Nat, n : Nat] : CountsWrites(v)}

RequestSteps == {"idle", "look", "write", "bumpRead", "bumpWrite", "user", "groups", "version", "ids", "load", "keep"}
RequestKinds == {"none", "create", "update", "delete", "check"}

RequestsOfAcls == [at : RequestSteps, op : RequestKinds, rule : Rules, ver : Nat, seen : VersionCells,
                   ids : SUBSET Rules, rules : AclSets]

AclTyped ==
    /\ acls \in AclSets /\ since \subseteq AclSets
    /\ version \in VersionCells
    /\ cache \in [Workers -> [acls : SUBSET AclSets, ver : Nat]]
    /\ request \in [Callers -> RequestsOfAcls]

\* What is stored may be newer than what its version says: q has to bump it, or
\* to write over the version it has read.
Owes(q, v) == q.at = "bumpRead" \/ (q.at = "bumpWrite" /\ q.seen.ver = v)
Dirty == \E c \in Callers : Owes(request[c], version.ver)

\* The rules that are not among these were absent at some time.
Lacking(ids, states) == \A r \in Rules \ ids : \E s \in states : r \notin DOMAIN s

RequestSound(q, states, v) ==
    /\ q.at \in {"look", "write", "bumpRead", "bumpWrite"} => q.op \notin {"none", "check"}
    /\ q.at = "bumpWrite" => q.seen.ver <= v
    /\ q.at = "ids" => q.ver <= v
    /\ q.at = "load" => q.ver <= v /\ (q.ver = v => Lacking(q.ids, states))
    /\ q.at = "keep" => q.ver <= v /\ (q.ver = v => Mixed(q.rules, states))

CopySound(copy, states, v) ==
    \A rules \in copy.acls : copy.ver <= v /\ (copy.ver = v => Mixed(rules, states))

ReadsSound ==
    /\ \A v \in older : v \in VersionCells /\ v.ver <= version.ver
    /\ ~readsCached => older = {}

AclInv ==
    /\ AclTyped /\ ReadsSound
    /\ acls \in since /\ (readsCached \/ Dirty \/ since = {acls})
    /\ \A c \in Callers : RequestSound(request[c], since, version.ver)
    /\ \A w \in Workers : CopySound(cache[w], since, version.ver)

LEMMA NoRequestSound == NoRequest \in RequestsOfAcls /\ \A states, v : RequestSound(NoRequest, states, v)
<1>1. Empty \in VersionCells
  <2>1. <<>> \in Seq(Nat)
    OBVIOUS
  <2>. QED
    BY <2>1 DEF VersionCells, CountsWrites, Empty, Null
<1>2. NoAcls \in AclSets
  <2>1. NoAcls \in [{} -> RuleKinds] /\ {} \in SUBSET Rules
    BY DEF NoAcls
  <2>. QED
    BY <2>1 DEF AclSets
<1>3. (CHOOSE r \in Rules : TRUE) \in Rules
  BY AclAssumption
<1>4. NoRequest \in RequestsOfAcls
  BY <1>1, <1>2, <1>3 DEF NoRequest, RequestsOfAcls, RequestSteps, RequestKinds
<1>. QED
  BY <1>4 DEF NoRequest, RequestSound

LEMMA AclsAtStart == AclInit => AclInv
<1>. SUFFICES ASSUME AclInit PROVE AclInv
  OBVIOUS
<1>1. acls \in AclSets /\ version \in VersionCells
  <2>1. NoRequest \in RequestsOfAcls
    BY NoRequestSound
  <2>2. NoAcls \in AclSets /\ Empty \in VersionCells
    BY <2>1 DEF NoRequest, RequestsOfAcls, RequestSteps, RequestKinds
  <2>. QED
    BY <2>2 DEF AclInit
<1>2. cache \in [Workers -> [acls : SUBSET AclSets, ver : Nat]]
  BY DEF AclInit, Cold
<1>3. request \in [Callers -> RequestsOfAcls]
  BY NoRequestSound DEF AclInit
<1>4. \A c \in Callers : RequestSound(request[c], since, version.ver)
  BY NoRequestSound DEF AclInit
<1>5. \A w \in Workers : cache[w].acls = {}
  BY DEF AclInit, Cold
<1>6. since = {acls} /\ ReadsSound
  BY DEF AclInit, ReadsSound
<1>. QED
  BY <1>1, <1>2, <1>3, <1>4, <1>5, <1>6 DEF AclInv, AclTyped, CopySound

\* What is known of the request of a caller and of the copy of its Worker.
LEMMA AclFacts ==
  ASSUME AclInv, NEW c \in Callers
  PROVE  /\ request[c] \in RequestsOfAcls
         /\ RequestSound(request[c], since, version.ver)
         /\ version \in VersionCells /\ version.ver \in Nat /\ acls \in AclSets /\ acls \in since
         /\ Home[c] \in Workers /\ cache[Home[c]] \in [acls : SUBSET AclSets, ver : Nat]
<1>1. Home[c] \in Workers
  BY AclAssumption
<1>. QED
  BY <1>1 DEF AclInv, AclTyped, VersionCells

\* The number of a version is its version in the store.
LEMMA VersionNumber ==
  ASSUME NEW v \in VersionCells
  PROVE  Number(v) = v.ver /\ Version(v) = v.ver /\ v.n = v.ver /\ v.ver \in Nat
BY DEF VersionCells, CountsWrites, Number, Version, Present, Value, Null

\* What a read of the version returns.
LEMMA VersionRead ==
  ASSUME AclInv, NEW v \in Versions
  PROVE  /\ v \in VersionCells /\ v.ver \in Nat /\ Number(v) = v.ver /\ v.ver <= version.ver
         /\ ~readsCached => v = version
<1>1. v = version \/ v \in older
  BY DEF Versions
<1>2. version \in VersionCells /\ v \in VersionCells
  BY <1>1 DEF AclInv, AclTyped, ReadsSound
<1>3. v.ver \in Nat /\ Number(v) = v.ver /\ version.ver \in Nat
  BY <1>2, VersionNumber
<1>. QED
  BY <1>1, <1>2, <1>3 DEF AclInv, ReadsSound

\* A step of one caller that changes neither the rules nor the version, and
\* leaves undone no change that was to be bumped.
LEMMA OneRequest ==
  ASSUME AclInv, NEW c \in Callers, NEW q \in RequestsOfAcls,
         request' = [request EXCEPT ![c] = q], UNCHANGED storedVars,
         cache' \in [Workers -> [acls : SUBSET AclSets, ver : Nat]],
         \A w \in Workers : CopySound(cache'[w], since, version.ver),
         RequestSound(q, since, version.ver),
         readsCached \/ (Owes(request[c], version.ver) => Owes(q, version.ver))
  PROVE  AclInv'
<1>. PICK states, v : states = since /\ v = version.ver
  OBVIOUS
<1>0. UNCHANGED <<readsCached, acls, version, older, since>>
  BY DEF storedVars
<1>1. request' \in [Callers -> RequestsOfAcls] /\ AclTyped'
  BY <1>0 DEF AclInv, AclTyped
<1>2. request'[c] = q /\ \A e \in Callers \ {c} : request'[e] = request[e]
  BY DEF AclInv, AclTyped
<1>3. readsCached \/ (Dirty => Dirty')
  BY <1>0, <1>2 DEF Dirty
<1>4. \A e \in Callers : RequestSound(request'[e], states, v)
  BY <1>2 DEF AclInv
<1>5. states' = states /\ v' = v /\ states' = since' /\ v' = version'.ver
  BY <1>0
<1>6. \A e \in Callers : RequestSound(request'[e], since', version'.ver)
  BY <1>0, <1>4
<1>7. \A w \in Workers : CopySound(cache'[w], since', version'.ver)
  BY <1>0
<1>8. ReadsSound'
  BY <1>0 DEF AclInv, ReadsSound
<1>. QED
  BY <1>0, <1>1, <1>3, <1>6, <1>7, <1>8 DEF AclInv

LEMMA FinishStep ==
  ASSUME AclInv, NEW c \in Callers, Finish(c), UNCHANGED storedVars, cache' = cache,
         readsCached \/ ~Owes(request[c], version.ver)
  PROVE  AclInv'
BY NoRequestSound, OneRequest DEF Finish, AclInv, AclTyped

LEMMA ProceedStep ==
  ASSUME AclInv, NEW c \in Callers, NEW step \in {"write", "groups", "version"}, Proceed(c, step),
         step = "write" => request[c].at = "look", ~Owes(request[c], version.ver),
         UNCHANGED storedVars, cache' = cache
  PROVE  AclInv'
<1>. PICK q : q = [request[c] EXCEPT !.at = step]
  OBVIOUS
<1>1. request[c] \in RequestsOfAcls /\ RequestSound(request[c], since, version.ver)
  BY AclFacts
<1>2. q \in RequestsOfAcls /\ q.at = step /\ q.op = request[c].op
  BY <1>1 DEF RequestsOfAcls, RequestSteps, RequestKinds
<1>3. request' = [request EXCEPT ![c] = q]
  BY DEF Proceed
<1>4. RequestSound(q, since, version.ver)
  BY <1>1, <1>2 DEF RequestSound
<1>. QED
  BY <1>2, <1>3, <1>4, OneRequest DEF AclInv, AclTyped

LEMMA AskStep == ASSUME AclInv, NEW c \in Callers, Ask(c) PROVE AclInv'
<1>. PICK r \in Rules, op \in {"create", "update", "delete", "check"} :
       request' = [request EXCEPT ![c] =
              [NoRequest EXCEPT !.at = IF op = "check" THEN "user" ELSE "look", !.op = op, !.rule = r]]
  BY DEF Ask
<1>. PICK at : at = IF op = "check" THEN "user" ELSE "look"
  OBVIOUS
<1>. PICK q : q = [NoRequest EXCEPT !.at = at, !.op = op, !.rule = r]
  OBVIOUS
<1>1. q \in RequestsOfAcls /\ q.at = at /\ q.op = op
  BY NoRequestSound DEF RequestsOfAcls, RequestSteps, RequestKinds
<1>2. request' = [request EXCEPT ![c] = q]
  OBVIOUS
<1>3. RequestSound(q, since, version.ver)
  BY <1>1 DEF RequestSound
<1>4. ~Owes(request[c], version.ver)
  BY DEF Ask, Due, Owes
<1>. QED
  BY <1>1, <1>2, <1>3, <1>4, OneRequest DEF Ask, AclInv, AclTyped

LEMMA LookStep == ASSUME AclInv, NEW c \in Callers, Look(c) PROVE AclInv'
<1>1. ~Owes(request[c], version.ver)
  BY DEF Look, Due, Owes
<1>. QED
  BY <1>1, FinishStep, ProceedStep DEF Look, Due

\* What was so in some states was so in more.
LEMMA MoreStates ==
  ASSUME NEW states, NEW more, states \subseteq more, NEW v
  PROVE  /\ \A q : RequestSound(q, states, v) => RequestSound(q, more, v)
         /\ \A copy : CopySound(copy, states, v) => CopySound(copy, more, v)
<1>1. \A rules : Mixed(rules, states) => Mixed(rules, more)
  BY DEF Mixed
<1>2. \A ids : Lacking(ids, states) => Lacking(ids, more)
  BY DEF Lacking
<1>. QED
  BY <1>1, <1>2 DEF RequestSound, CopySound

\* The rules change, and the caller has to bump their version.
LEMMA WriteStep == ASSUME AclInv, NEW c \in Callers, Write(c) PROVE AclInv'
<1>. PICK r : r = request[c].rule
  OBVIOUS
<1>1. r \in Rules /\ request[c].op \notin {"none", "check"} /\ ~Owes(request[c], version.ver)
  BY AclFacts DEF Write, Due, Owes, RequestsOfAcls, RequestSound
<1>2. CASE Finish(c) /\ UNCHANGED <<acls, since>>
  BY <1>1, <1>2, FinishStep DEF Write, storedVars
<1>3. ASSUME NEW k \in RuleKinds, Proceed(c, "bumpRead"), since' = since \cup {acls'},
             acls' = IF request[c].op = "delete" THEN [s \in DOMAIN acls \ {r} |-> acls[s]]
                     ELSE [s \in DOMAIN acls \cup {r} |-> IF s = r THEN k ELSE acls[s]]
      PROVE  AclInv'
  <2>. PICK S \in SUBSET Rules : acls \in [S -> RuleKinds]
    BY DEF AclInv, AclTyped, AclSets
  <2>1. acls' \in [S \ {r} -> RuleKinds] \/ acls' \in [S \cup {r} -> RuleKinds]
    BY <1>1, <1>3
  <2>2. acls' \in AclSets
    BY <1>1, <2>1 DEF AclSets
  <2>. PICK q : q = [request[c] EXCEPT !.at = "bumpRead"]
    OBVIOUS
  <2>3. q \in RequestsOfAcls /\ q.at = "bumpRead" /\ q.op = request[c].op
    BY AclFacts DEF RequestsOfAcls, RequestSteps, RequestKinds
  <2>4. request' = [request EXCEPT ![c] = q]
    BY <1>3 DEF Proceed
  <2>5. request'[c] = q /\ \A e \in Callers \ {c} : request'[e] = request[e]
    BY <2>4 DEF AclInv, AclTyped
  <2>6. Dirty' /\ UNCHANGED <<readsCached, version, older, cache>>
    BY <2>3, <2>5 DEF Dirty, Owes, Write
  <2>7. AclTyped' /\ acls' \in since' /\ since \subseteq since'
    BY <1>3, <2>2, <2>3, <2>4, <2>6 DEF AclInv, AclTyped
  <2>8. RequestSound(q, since', version'.ver)
    BY <1>1, <2>3 DEF RequestSound
  <2>9. \A e \in Callers \ {c} : RequestSound(request'[e], since', version'.ver)
    BY <2>5, <2>6, <2>7, MoreStates DEF AclInv
  <2>10. \A w \in Workers : CopySound(cache'[w], since', version'.ver)
    BY <2>6, <2>7, MoreStates DEF AclInv
  <2>11. ReadsSound'
    BY <2>6 DEF AclInv, ReadsSound
  <2>. QED
    BY <2>5, <2>6, <2>7, <2>8, <2>9, <2>10, <2>11 DEF AclInv
<1>. QED
  BY <1>2, <1>3 DEF Write

LEMMA BumpReadStep == ASSUME AclInv, NEW c \in Callers, BumpRead(c) PROVE AclInv'
<1>. PICK w : w = Home[c]
  OBVIOUS
<1>. PICK v \in Versions : request' = [request EXCEPT ![c].at = "bumpWrite", ![c].seen = v]
  BY DEF BumpRead
<1>. PICK q : q = [request[c] EXCEPT !.at = "bumpWrite", !.seen = v]
  OBVIOUS
<1>1. /\ request[c] \in RequestsOfAcls /\ RequestSound(request[c], since, version.ver)
      /\ w \in Workers /\ version.ver \in Nat /\ request[c].at = "bumpRead"
  BY AclFacts DEF BumpRead, Due
<1>2. v \in VersionCells /\ v.ver <= version.ver /\ (~readsCached => v = version)
  BY VersionRead
<1>3. q \in RequestsOfAcls /\ q.at = "bumpWrite" /\ q.seen = v /\ q.op = request[c].op
  BY <1>1, <1>2 DEF RequestsOfAcls, RequestSteps, RequestKinds
<1>4. request' = [request EXCEPT ![c] = q]
  BY <1>1
<1>5. RequestSound(q, since, version.ver) /\ (readsCached \/ Owes(q, version.ver))
  BY <1>1, <1>2, <1>3 DEF RequestSound, Owes
<1>6. cache' = [cache EXCEPT ![w].acls = {}]
  BY DEF BumpRead
<1>7. cache' \in [Workers -> [acls : SUBSET AclSets, ver : Nat]]
  BY <1>1, <1>6 DEF AclInv, AclTyped
<1>8. cache'[w].acls = {} /\ \A u \in Workers \ {w} : cache'[u] = cache[u]
  BY <1>1, <1>6 DEF AclInv, AclTyped
<1>9. \A u \in Workers : CopySound(cache'[u], since, version.ver)
  BY <1>8 DEF AclInv, CopySound
<1>. QED
  BY <1>3, <1>4, <1>5, <1>7, <1>9, OneRequest DEF BumpRead

\* A bump of the version that is stored leaves every copy behind; one of an
\* earlier version is refused, and that caller owed nothing any more.
LEMMA BumpWriteStep == ASSUME AclInv, NEW c \in Callers, BumpWrite(c) PROVE AclInv'
<1>. PICK seen : seen = request[c].seen
  OBVIOUS
<1>. PICK k : k = version.ver
  OBVIOUS
<1>1. /\ request[c].at = "bumpWrite" /\ seen \in VersionCells /\ seen.ver <= k
      /\ version \in VersionCells /\ k \in Nat /\ version.n = k
  BY AclFacts, VersionNumber DEF BumpWrite, Due, RequestSound, RequestsOfAcls
<1>2. version' = Put(version, seen.ver, seen.ver + 1)
  BY <1>1, VersionNumber DEF BumpWrite, Bumped
<1>3. CASE seen.ver # k
  <2>1. version' = version
    BY <1>2, <1>3 DEF Put, Stored, Accepts
  <2>2. ~Owes(request[c], version.ver)
    BY <1>1, <1>3 DEF Owes
  <2>. QED
    BY <2>1, <2>2, FinishStep DEF BumpWrite, storedVars
<1>4. CASE seen.ver = k
  <2>1. version' = [val |-> <<k + 1>>, ver |-> k + 1, n |-> k + 1]
    BY <1>1, <1>2, <1>4 DEF Put, Stored, Accepts
  <2>2. version' \in VersionCells /\ version'.ver = k + 1 /\ version' # version
    <3>1. <<k + 1>> \in Seq(Nat) /\ k + 1 \in Nat /\ k + 1 # 0 /\ k + 1 # k
      BY <1>1
    <3>. QED
      BY <2>1, <3>1 DEF VersionCells, CountsWrites
  <2>3. /\ request' = [request EXCEPT ![c] = NoRequest] /\ acls' = acls /\ cache' = cache
        /\ since' = {acls} /\ readsCached' = readsCached
        /\ older' = IF readsCached /\ Present(version) THEN older \cup {version} ELSE older
    BY <2>2 DEF BumpWrite, Finish
  <2>4. request'[c] = NoRequest /\ \A e \in Callers \ {c} : request'[e] = request[e]
    BY <2>3 DEF AclInv, AclTyped
  <2>5. AclTyped' /\ since' = {acls'}
    BY <2>2, <2>3, NoRequestSound DEF AclInv, AclTyped
  <2>6. ASSUME NEW e \in Callers PROVE RequestSound(request'[e], since', version'.ver)
    <3>1. CASE e = c
      BY <2>4, <3>1, NoRequestSound
    <3>2. CASE e # c
      <4>1. RequestSound(request[e], since, k) /\ request[e] \in RequestsOfAcls
        BY AclFacts
      <4>2. request[e].ver \in Nat /\ request[e].seen.ver \in Nat
        BY <4>1, VersionNumber DEF RequestsOfAcls, RequestSteps, RequestKinds
      <4>. QED
        BY <1>1, <2>2, <2>4, <3>2, <4>1, <4>2 DEF RequestSound
    <3>. QED
      BY <3>1, <3>2
  <2>7. ASSUME NEW w \in Workers PROVE CopySound(cache'[w], since', version'.ver)
    <3>1. CopySound(cache[w], since, k) /\ cache[w].ver \in Nat
      BY DEF AclInv, AclTyped
    <3>. QED
      BY <1>1, <2>2, <2>3, <3>1 DEF CopySound
  <2>8. ReadsSound'
    <3>1. \A v \in older : v \in VersionCells /\ v.ver <= k /\ v.ver \in Nat
      BY VersionNumber DEF AclInv, ReadsSound
    <3>2. \A v \in older' : v \in VersionCells /\ v.ver <= k + 1
      BY <1>1, <2>3, <3>1
    <3>. QED
      BY <2>2, <2>3, <3>2 DEF AclInv, ReadsSound
  <2>. QED
    BY <2>5, <2>6, <2>7, <2>8 DEF AclInv
<1>. QED
  BY <1>3, <1>4

LEMMA ExpireStep == ASSUME AclInv, ExpireVersions PROVE AclInv'
<1>1. /\ UNCHANGED <<readsCached, acls, version, since, cache, request>> /\ older' = {}
  BY DEF ExpireVersions
<1>2. AclTyped' /\ ReadsSound' /\ (Dirty => Dirty')
  BY <1>1 DEF AclInv, AclTyped, ReadsSound, Dirty
<1>. QED
  BY <1>1, <1>2 DEF AclInv

LEMMA CheckStep ==
  ASSUME AclInv, NEW c \in Callers, CheckUser(c) \/ CheckGroups(c) \/ CheckVersion(c) PROVE AclInv'
<1>1. ~Owes(request[c], version.ver)
  BY DEF CheckUser, CheckGroups, CheckVersion, Due, Owes
<1>2. CASE CheckUser(c)
  BY <1>1, <1>2, FinishStep, ProceedStep DEF CheckUser
<1>3. CASE CheckGroups(c)
  BY <1>1, <1>3, ProceedStep DEF CheckGroups
<1>4. CASE CheckVersion(c) /\ Finish(c)
  BY <1>1, <1>4, FinishStep DEF CheckVersion
<1>5. ASSUME CheckVersion(c), NEW v \in Versions,
             request' = [request EXCEPT ![c].at = "ids", ![c].ver = Number(v)]
      PROVE  AclInv'
  <2>. PICK k : k = Number(v)
    OBVIOUS
  <2>. PICK q : q = [request[c] EXCEPT !.at = "ids", !.ver = k]
    OBVIOUS
  <2>1. k \in Nat /\ k <= version.ver /\ request[c] \in RequestsOfAcls
    BY AclFacts, VersionRead
  <2>2. q \in RequestsOfAcls /\ q.at = "ids" /\ q.ver = k /\ request' = [request EXCEPT ![c] = q]
    BY <1>5, <2>1 DEF RequestsOfAcls, RequestSteps, RequestKinds
  <2>3. RequestSound(q, since, version.ver)
    BY <2>1, <2>2 DEF RequestSound
  <2>. QED
    BY <1>1, <1>5, <2>2, <2>3, OneRequest DEF CheckVersion, AclInv, AclTyped
<1>6. CheckVersion(c) => \/ Finish(c)
                         \/ \E v \in Versions :
                              request' = [request EXCEPT ![c].at = "ids", ![c].ver = Number(v)]
  BY DEF CheckVersion, Decide
<1>. QED
  BY <1>2, <1>3, <1>4, <1>5, <1>6

\* What is read now is a state since the version was written.
LEMMA CheckIdsStep == ASSUME AclInv, NEW c \in Callers, CheckIds(c) PROVE AclInv'
<1>. PICK q : q = [request[c] EXCEPT !.at = "load", !.ids = DOMAIN acls]
  OBVIOUS
<1>1. /\ request[c] \in RequestsOfAcls /\ RequestSound(request[c], since, version.ver)
      /\ acls \in AclSets /\ acls \in since /\ request[c].at = "ids"
  BY AclFacts DEF CheckIds, Due
<1>2. DOMAIN acls \in SUBSET Rules
  BY <1>1 DEF AclSets
<1>3. /\ q \in RequestsOfAcls /\ q.at = "load" /\ q.ver = request[c].ver /\ q.ids = DOMAIN acls
      /\ request' = [request EXCEPT ![c] = q]
  BY <1>1, <1>2 DEF RequestsOfAcls, RequestSteps, RequestKinds, CheckIds
<1>4. Lacking(DOMAIN acls, since)
  BY <1>1 DEF Lacking
<1>5. RequestSound(q, since, version.ver) /\ ~Owes(request[c], version.ver)
  BY <1>1, <1>3, <1>4 DEF RequestSound, Owes
<1>. QED
  BY <1>3, <1>5, OneRequest DEF CheckIds, AclInv, AclTyped

LEMMA CheckLoadStep == ASSUME AclInv, NEW c \in Callers, CheckLoad(c) PROVE AclInv'
<1>. PICK rules : rules = RecordsOf(request[c].ids)
  OBVIOUS
<1>. PICK q : q = [request[c] EXCEPT !.at = "keep", !.rules = rules]
  OBVIOUS
<1>1. /\ request[c] \in RequestsOfAcls /\ RequestSound(request[c], since, version.ver)
      /\ acls \in AclSets /\ acls \in since /\ request[c].at = "load" /\ request[c].ids \subseteq Rules
  BY AclFacts DEF CheckLoad, Due, RequestsOfAcls
<1>. PICK S \in SUBSET Rules : acls \in [S -> RuleKinds]
  BY <1>1 DEF AclSets
<1>2. rules \in [S \cap request[c].ids -> RuleKinds] /\ \A r \in DOMAIN rules : rules[r] = acls[r]
  BY DEF RecordsOf
<1>3. rules \in AclSets
  BY <1>2 DEF AclSets
<1>4. /\ q \in RequestsOfAcls /\ q.at = "keep" /\ q.ver = request[c].ver /\ q.rules = rules
      /\ request' = [request EXCEPT ![c] = q]
  BY <1>1, <1>3 DEF RequestsOfAcls, RequestSteps, RequestKinds, CheckLoad
<1>5. Lacking(request[c].ids, since) => Mixed(rules, since)
  <2>. SUFFICES ASSUME Lacking(request[c].ids, since), NEW r \in Rules
                PROVE  \E s \in since : IF r \in DOMAIN rules THEN r \in DOMAIN s /\ s[r] = rules[r]
                                        ELSE r \notin DOMAIN s
    BY DEF Mixed
  <2>1. CASE r \notin request[c].ids
    BY <1>2, <2>1 DEF Lacking
  <2>2. CASE r \in request[c].ids
    BY <1>1, <1>2, <2>2
  <2>. QED
    BY <2>1, <2>2
<1>6. RequestSound(q, since, version.ver) /\ ~Owes(request[c], version.ver)
  BY <1>1, <1>4, <1>5 DEF RequestSound, Owes
<1>. QED
  BY <1>4, <1>6, OneRequest DEF CheckLoad, AclInv, AclTyped

LEMMA CheckKeepStep == ASSUME AclInv, NEW c \in Callers, CheckKeep(c) PROVE AclInv'
<1>. PICK w : w = Home[c]
  OBVIOUS
<1>. PICK r : r = request[c]
  OBVIOUS
<1>. PICK copy : copy = [acls |-> {r.rules}, ver |-> r.ver]
  OBVIOUS
<1>1. /\ r \in RequestsOfAcls /\ RequestSound(r, since, version.ver)
      /\ w \in Workers /\ r.at = "keep"
  BY AclFacts DEF CheckKeep, Due
<1>2. copy \in [acls : SUBSET AclSets, ver : Nat] /\ CopySound(copy, since, version.ver)
  BY <1>1 DEF RequestsOfAcls, RequestSound, CopySound
<1>3. cache' = [cache EXCEPT ![w] = copy]
  BY DEF CheckKeep
<1>4. cache' \in [Workers -> [acls : SUBSET AclSets, ver : Nat]]
  BY <1>2, <1>3 DEF AclInv, AclTyped
<1>5. cache'[w] = copy /\ \A v \in Workers \ {w} : cache'[v] = cache[v]
  BY <1>1, <1>3 DEF AclInv, AclTyped
<1>6. \A v \in Workers : CopySound(cache'[v], since, version.ver)
  BY <1>2, <1>5 DEF AclInv
<1>7. ~Owes(r, version.ver) /\ request' = [request EXCEPT ![c] = NoRequest]
  BY <1>1 DEF Owes, CheckKeep, Decide, Finish
<1>. QED
  BY <1>4, <1>6, <1>7, NoRequestSound, OneRequest DEF CheckKeep

LEMMA AclsStep == AclInv /\ [AclNext]_aclVars => AclInv'
<1>. SUFFICES ASSUME AclInv, [AclNext]_aclVars PROVE AclInv'
  OBVIOUS
<1>1. CASE UNCHANGED aclVars
  BY <1>1 DEF aclVars, AclInv, AclTyped, ReadsSound, Dirty
<1>2. ASSUME NEW c \in Callers, AclStep(c) PROVE AclInv'
  BY <1>2, AskStep, LookStep, WriteStep, BumpReadStep, BumpWriteStep, CheckStep, CheckIdsStep, CheckLoadStep,
     CheckKeepStep DEF AclStep
<1>. QED
  BY <1>1, <1>2, ExpireStep DEF AclNext

\* No Worker decides by a rule from before the version that counts; and, where reads
\* are not cached, by no rules but those stored, once the changes under way have
\* bumped the version or lost to one that did.
THEOREM RulesKept == AclSpec => []RulesCurrent
<1>1. AclInv => RulesCurrent
  <2>. SUFFICES ASSUME AclInv, NEW w \in Workers, NEW rules \in cache[w].acls, cache[w].ver = Number(version)
                PROVE  /\ Mixed(rules, since)
                       /\ ~readsCached /\ (\A c \in Callers : request[c].op \in {"none", "check"}) => rules = acls
    BY DEF RulesCurrent
  <2>1. Number(version) = version.ver
    BY VersionNumber DEF AclInv, AclTyped
  <2>2. Mixed(rules, since)
    BY <2>1 DEF AclInv, CopySound
  <2>3. ASSUME ~readsCached, \A c \in Callers : request[c].op \in {"none", "check"}
        PROVE  rules = acls
    <3>1. ~Dirty
      BY <2>3 DEF Dirty, Owes, AclInv, RequestSound
    <3>2. since = {acls}
      BY <2>3, <3>1 DEF AclInv
    <3>3. rules \in AclSets /\ acls \in AclSets
      BY DEF AclInv, AclTyped
    <3>4. \A r \in Rules : (r \in DOMAIN rules <=> r \in DOMAIN acls) /\ (r \in DOMAIN rules => rules[r] = acls[r])
      BY <2>2, <3>2 DEF Mixed
    <3>5. PICK S \in SUBSET Rules : rules \in [S -> RuleKinds]
      BY <3>3 DEF AclSets
    <3>6. PICK T \in SUBSET Rules : acls \in [T -> RuleKinds]
      BY <3>3 DEF AclSets
    <3>7. S = T
      BY <3>4, <3>5, <3>6
    <3>. QED
      BY <3>4, <3>5, <3>6, <3>7
  <2>. QED
    BY <2>2, <2>3
<1>. QED
  BY <1>1, AclsAtStart, AclsStep, PTL DEF AclSpec

-----------------------------------------------------------------------------
(* Logins: a one-time key that was taken is too old, or its nonce outlives *)
(* the moment at which it is; and a session that is over stays over.       *)

SessionRecords == [user : Accounts \cup {"none"}, exp : Nat]

\* A session has no TTL: once it was there its cell has a version.
SessionCells == {f \in [Tokens -> CellsOf(SessionRecords)] : \A t \in Tokens : f[t] = Empty \/ f[t].ver >= 1}

NonceCells == {f \in [Accounts \X KeyTexts -> CellsOf([exp : Nat])] :
                 \A x \in Accounts \X KeyTexts : Present(f[x]) => f[x].ver >= 1}

Shaped(q) == /\ DOMAIN q = {"at", "user", "key", "token", "seen", "out"}
             /\ q.user \in Accounts \cup {"none"}

\* No cache gives what was never written.
ServedKnown == /\ served \in [Tokens -> SUBSET SessionRecords]
               /\ \A t \in Tokens : session[t] = Empty => served[t] = {}

SessionsTyped ==
    /\ clock \in Nat /\ session \in SessionCells /\ nonce \in NonceCells /\ ServedKnown
    /\ visit = [c \in Visitors |-> visit[c]] /\ \A c \in Visitors : Shaped(visit[c])

Spent(u, k) == \/ clock > KeyTime[k] + KeyWindow
               \/ Present(nonce[<<u, k>>]) /\ Value(nonce[<<u, k>>]).exp > KeyTime[k] + KeyWindow

AtNonce(q) == q.user \in Accounts /\ q.key \in KeyTexts /\ InWindow(q.key)
AtProof(q) == /\ q.user \in Accounts /\ q.key \in KeyTexts /\ Spent(q.user, q.key)
              /\ KeyOf[q.key] = q.user => admitted[q.key] = 0
AtSession(q) == q.token \in Tokens /\ (q.out => session[q.token] # Empty /\ KeepsOut(q.token))
AtUser(q) == q.out => q.user \notin MayBeUsers

VisitSound(q) ==
    /\ q.at = "nonce" => AtNonce(q)
    /\ q.at = "proof" => AtProof(q)
    /\ q.at = "session" => AtSession(q)
    /\ q.at = "user" => AtUser(q)

Rivals(q, r) == q.at = "proof" /\ r.at = "proof" /\ q.user = r.user /\ q.key = r.key

AdmittedOnce == /\ admitted = [k \in KeyTexts |-> admitted[k]]
                /\ \A k \in KeyTexts :
                     admitted[k] = 0 \/ (admitted[k] = 1 /\ KeyOf[k] \in Accounts /\ Spent(KeyOf[k], k))

SessionsInv ==
    /\ SessionsTyped
    /\ \A c \in Visitors : VisitSound(visit[c])
    /\ \A c, d \in Visitors : c # d => ~Rivals(visit[c], visit[d])
    /\ AdmittedOnce
    /\ intruders = {}

LEMMA AwaySound == Shaped(Away) /\ Away.at = "idle" /\ VisitSound(Away)
BY DEF Away, Shaped, VisitSound

LEMMA SessionsAtStart == SessionsInit => SessionsInv
<1>. SUFFICES ASSUME SessionsInit PROVE SessionsInv
  OBVIOUS
<1>1. \A S : Empty \in CellsOf(S)
  BY DEF CellsOf, Empty, Null
<1>2. session \in SessionCells
  BY <1>1 DEF SessionsInit, SessionCells
<1>3. nonce \in NonceCells
  BY <1>1 DEF SessionsInit, NonceCells, Present, Empty
<1>4. SessionsTyped
  BY <1>2, <1>3, AwaySound DEF SessionsInit, SessionsTyped, ServedKnown
<1>5. \A c \in Visitors : visit[c] = Away
  BY DEF SessionsInit
<1>6. AdmittedOnce
  BY DEF SessionsInit, AdmittedOnce
<1>. QED
  BY <1>4, <1>5, <1>6, AwaySound DEF SessionsInv, Rivals, SessionsInit

\* Of a token that was there, a read finds what it found before, or less.
Closing == /\ session' \in SessionCells /\ ServedKnown'
           /\ \A t \in Tokens : session[t] # Empty =>
                session'[t] # Empty /\ Readable(t)' \subseteq Readable(t)

\* What a read may find is a session, as its record was written.
LEMMA ReadableTyped ==
  ASSUME SessionsInv, NEW t \in Tokens
  PROVE  Readable(t) \subseteq SessionRecords
<1>1. session[t] \in CellsOf(SessionRecords) /\ served[t] \subseteq SessionRecords
  BY DEF SessionsInv, SessionsTyped, SessionCells, ServedKnown
<1>2. Present(session[t]) => Value(session[t]) \in SessionRecords
  BY <1>1, CellFacts
<1>. QED
  BY <1>1, <1>2 DEF Readable

\* Who was kept out still is, later and with fewer users.
LEMMA StillOut ==
  ASSUME SessionsInv, Closing, NEW t \in Tokens, session[t] # Empty, KeepsOut(t),
         clock' \in Nat, clock' >= clock, MayBeUsers' \subseteq MayBeUsers
  PROVE  session'[t] # Empty /\ KeepsOut(t)'
<1>1. session'[t] # Empty /\ Readable(t)' \subseteq Readable(t)
  BY DEF Closing
<1>2. ASSUME NEW s \in Readable(t)' PROVE ~(clock' < s.exp) \/ s.user \notin MayBeUsers'
  <2>1. s \in Readable(t) /\ s \in SessionRecords
    BY <1>1, ReadableTyped
  <2>2. s.exp \in Nat /\ clock \in Nat
    BY <2>1 DEF SessionRecords, SessionsInv, SessionsTyped
  <2>3. ~(clock < s.exp) \/ s.user \notin MayBeUsers
    BY <2>1 DEF KeepsOut, Running
  <2>. QED
    BY <2>2, <2>3
<1>. QED
  BY <1>1, <1>2 DEF KeepsOut, Running

LEMMA StaysSession ==
  ASSUME SessionsInv, Closing, NEW q, AtSession(q), clock' \in Nat, clock' >= clock, MayBeUsers' \subseteq MayBeUsers
  PROVE  AtSession(q)'
BY StillOut DEF AtSession

\* A step of one visitor away from the nonces: the others know what they knew.
LEMMA VisitStep ==
  ASSUME SessionsInv, NEW c \in Visitors, NEW q, Shaped(q), visit' = [visit EXCEPT ![c] = q],
         q.at # "proof", VisitSound(q)', Closing, MayBeUsers' \subseteq MayBeUsers, intruders' = {},
         UNCHANGED <<clock, nonce, admitted>>
  PROVE  SessionsInv'
<1>1. visit'[c] = q /\ \A d \in Visitors \ {c} : visit'[d] = visit[d]
  BY DEF SessionsInv, SessionsTyped
<1>2. clock \in Nat /\ clock' >= clock
  BY DEF SessionsInv, SessionsTyped
<1>3. SessionsTyped'
  BY <1>1 DEF SessionsInv, SessionsTyped, Closing
<1>4. ASSUME NEW d \in Visitors PROVE VisitSound(visit[d])'
  <2>1. CASE d = c
    BY <1>1, <2>1
  <2>2. CASE d # c
    <3>. PICK r : r = visit[d]
      OBVIOUS
    <3>1. VisitSound(r) /\ visit'[d] = r
      BY <1>1, <2>2 DEF SessionsInv
    <3>2. AtSession(r) => AtSession(r)'
      BY <1>2, StaysSession
    <3>3. AtUser(r) => AtUser(r)'
      BY DEF AtUser
    <3>4. AtNonce(r) => AtNonce(r)'
      BY DEF AtNonce, InWindow
    <3>5. AtProof(r) => AtProof(r)'
      BY DEF AtProof, Spent
    <3>6. VisitSound(r)'
      BY <3>1, <3>2, <3>3, <3>4, <3>5 DEF VisitSound
    <3>. QED
      BY <3>1, <3>6
  <2>. QED
    BY <2>1, <2>2
<1>5. \A d, e \in Visitors : d # e => ~Rivals(visit'[d], visit'[e])
  BY <1>1 DEF SessionsInv, Rivals
<1>6. AdmittedOnce'
  BY DEF SessionsInv, AdmittedOnce, Spent
<1>. QED
  BY <1>3, <1>4, <1>5, <1>6 DEF SessionsInv

\* Most steps change no session and need to know nothing afterwards.
LEMMA QuietVisit ==
  ASSUME SessionsInv, NEW c \in Visitors, NEW q, Shaped(q), visit' = [visit EXCEPT ![c] = q],
         q.at \notin {"nonce", "proof", "session", "user"}, MayBeUsers' \subseteq MayBeUsers, intruders' = {},
         UNCHANGED <<clock, nonce, admitted, session, served>>
  PROVE  SessionsInv'
<1>1. Closing
  BY DEF Closing, SessionsInv, SessionsTyped, Readable, ServedKnown
<1>2. VisitSound(q)'
  BY DEF VisitSound
<1>. QED
  BY <1>1, <1>2, VisitStep

LEMMA VisitFacts ==
  ASSUME SessionsInv, NEW c \in Visitors
  PROVE  Shaped(visit[c]) /\ VisitSound(visit[c]) /\ intruders = {} /\ session \in SessionCells /\ clock \in Nat
BY DEF SessionsInv, SessionsTyped

\* Steps that change neither sessions nor users.
Calm == UNCHANGED <<clock, nonce, admitted, session, users, intruders, viaCache, served, lingering>>

LEMMA CalmStep ==
  ASSUME SessionsInv, NEW c \in Visitors, NEW q, Shaped(q), visit' = [visit EXCEPT ![c] = q],
         q.at \notin {"nonce", "proof", "session", "user"}, Calm
  PROVE  SessionsInv'
BY VisitFacts, QuietVisit DEF Calm, MayBeUsers

LEMMA CalmMove ==
  ASSUME SessionsInv, NEW c \in Visitors, Calm,
         NEW at \in {"lastRead", "reuse", "create", "listRead"}, GoOn(c, at)
  PROVE  SessionsInv'
<1>. PICK q : q = [visit[c] EXCEPT !.at = at]
  OBVIOUS
<1>1. Shaped(q) /\ q.at = at
  BY VisitFacts DEF Shaped
<1>2. visit' = [visit EXCEPT ![c] = q]
  BY DEF GoOn
<1>. QED
  BY <1>1, <1>2, CalmStep

LEMMA CalmLeave == ASSUME SessionsInv, NEW c \in Visitors, Calm, Leave(c) PROVE SessionsInv'
BY AwaySound, CalmStep DEF Leave

LEMMA VerifyStep == ASSUME SessionsInv, NEW c \in Visitors, Verify(c) PROVE SessionsInv'
BY CalmMove, CalmLeave DEF Verify, Calm, access

\* The steps of a login around its checks, and of what is read of the lists.
LEMMA LoginSteps ==
  ASSUME SessionsInv, NEW c \in Visitors,
         LastRead(c) \/ Reuse(c) \/ LastWrite(c) \/ ListRead(c) \/ ListWrite(c) \/ UnlistRead(c) \/ UnlistWrite(c)
  PROVE  SessionsInv'
<1>1. Calm
  BY DEF Calm, LastRead, Reuse, LastWrite, ListRead, ListWrite, UnlistRead, UnlistWrite, access
<1>2. ASSUME NEW seen, NEW at \in {"reuse", "create", "listWrite", "unlistWrite"},
             visit' = [visit EXCEPT ![c].seen = seen, ![c].at = at]
      PROVE  SessionsInv'
  <2>. PICK q : q = [visit[c] EXCEPT !.seen = seen, !.at = at]
    OBVIOUS
  <2>1. Shaped(q) /\ q.at = at
    BY VisitFacts DEF Shaped
  <2>2. visit' = [visit EXCEPT ![c] = q]
    BY <1>2 DEF SessionsInv, SessionsTyped
  <2>. QED
    BY <1>1, <2>1, <2>2, CalmStep
<1>3. CASE LastRead(c)
  BY <1>1, <1>2, <1>3, CalmLeave DEF LastRead
<1>4. CASE Reuse(c) \/ LastWrite(c)
  BY <1>1, <1>4, CalmMove, CalmLeave DEF Reuse, LastWrite
<1>5. CASE ListWrite(c) \/ UnlistWrite(c)
  BY <1>1, <1>5, CalmLeave DEF ListWrite, UnlistWrite
<1>6. CASE ListRead(c) \/ UnlistRead(c)
  BY <1>1, <1>2, <1>6, CalmLeave DEF ListRead, UnlistRead
<1>. QED
  BY <1>3, <1>4, <1>5, <1>6

\* Calls that begin.
LEMMA EnterStep ==
  ASSUME SessionsInv, NEW c \in Visitors, NEW op, NEW q, Enter(c, op, q), Shaped(q), q.at # "proof",
         VisitSound(q)', MayBeUsers' \subseteq MayBeUsers,
         UNCHANGED <<clock, nonce, admitted, session, served, intruders>>
  PROVE  SessionsInv'
<1>1. Closing
  BY DEF Closing, SessionsInv, SessionsTyped, Readable, ServedKnown
<1>. QED
  BY <1>1, VisitFacts, VisitStep DEF Enter

LEMMA LoginBegins == ASSUME SessionsInv, NEW c \in Visitors, Login(c) PROVE SessionsInv'
<1>. PICK u \in Accounts : Enter(c, "login", [Away EXCEPT !.at = "verify", !.user = u])
  BY DEF Login
<1>. PICK q : q = [Away EXCEPT !.at = "verify", !.user = u]
  OBVIOUS
<1>1. Shaped(q) /\ q.at = "verify"
  BY DEF Away, Shaped
<1>2. VisitSound(q)'
  BY <1>1 DEF VisitSound
<1>. QED
  BY <1>1, <1>2, EnterStep DEF Login, access, MayBeUsers

LEMMA KeyBegins == ASSUME SessionsInv, NEW c \in Visitors, LoginNoPassword(c) PROVE SessionsInv'
<1>. PICK u \in Accounts, k \in KeyTexts :
       InWindow(k) /\ Enter(c, "key", [Away EXCEPT !.at = "nonce", !.user = u, !.key = k])
  BY DEF LoginNoPassword
<1>. PICK q : q = [Away EXCEPT !.at = "nonce", !.user = u, !.key = k]
  OBVIOUS
<1>1. Shaped(q) /\ q.at = "nonce" /\ q.user = u /\ q.key = k
  BY DEF Away, Shaped
<1>2. VisitSound(q)'
  BY <1>1 DEF VisitSound, AtNonce, InWindow, LoginNoPassword
<1>3. UNCHANGED <<clock, nonce, admitted, session, users, lingering, served, intruders>>
  BY DEF LoginNoPassword, access
<1>. QED
  BY <1>1, <1>2, <1>3, EnterStep DEF MayBeUsers

LEMMA ListBegins == ASSUME SessionsInv, NEW c \in Visitors, StartList(c) \/ DeleteUser(c) PROVE SessionsInv'
<1>1. CASE StartList(c)
  <2>. PICK u \in Accounts : Enter(c, "list", [Away EXCEPT !.at = "prune", !.user = u, !.seen = listed[u]])
    BY <1>1 DEF StartList
  <2>. PICK q : q = [Away EXCEPT !.at = "prune", !.user = u, !.seen = listed[u]]
    OBVIOUS
  <2>1. Shaped(q) /\ q.at = "prune"
    BY DEF Away, Shaped
  <2>2. VisitSound(q)'
    BY <2>1 DEF VisitSound
  <2>. QED
    BY <1>1, <2>1, <2>2, EnterStep DEF StartList, access, MayBeUsers
<1>2. CASE DeleteUser(c)
  <2>1. Away.at # "proof" /\ VisitSound(Away)'
    BY DEF Away, VisitSound
  <2>. QED
    <3>1. MayBeUsers' \subseteq MayBeUsers
      BY <1>2 DEF DeleteUser, MayBeUsers
    <3>. QED
      BY <1>2, <2>1, <3>1, AwaySound, EnterStep DEF DeleteUser
<1>. QED
  BY <1>1, <1>2

LEMMA RevokeBegins == ASSUME SessionsInv, NEW c \in Visitors, StartRevoke(c) PROVE SessionsInv'
<1>. PICK t \in Tokens : \E v \in Readable(t) :
       Enter(c, "revoke", [Away EXCEPT !.at = "revoke", !.user = v.user, !.token = t, !.seen = session[t]])
  BY DEF StartRevoke
<1>. PICK v \in Readable(t) :
       Enter(c, "revoke", [Away EXCEPT !.at = "revoke", !.user = v.user, !.token = t, !.seen = session[t]])
  OBVIOUS
<1>. PICK u, s : u = v.user /\ s = session[t]
  OBVIOUS
<1>. PICK q : q = [Away EXCEPT !.at = "revoke", !.user = u, !.token = t, !.seen = s]
  OBVIOUS
<1>1. u \in Accounts \cup {"none"}
  BY ReadableTyped DEF SessionRecords
<1>2. Shaped(q) /\ q.at = "revoke"
  BY <1>1 DEF Away, Shaped
<1>3. VisitSound(q)'
  BY <1>2 DEF VisitSound
<1>. QED
  BY <1>2, <1>3, EnterStep DEF StartRevoke, access, MayBeUsers

\* A request is kept out from its arrival on.
LEMMA RequestArrives == ASSUME SessionsInv, NEW c \in Visitors, Arrive(c) PROVE SessionsInv'
<1>. PICK t \in Tokens : /\ session[t] # Empty
                         /\ Enter(c, "request", [Away EXCEPT !.at = "session", !.token = t, !.out = KeepsOut(t)])
  BY DEF Arrive
<1>. PICK out : out = KeepsOut(t)
  OBVIOUS
<1>. PICK q : q = [Away EXCEPT !.at = "session", !.token = t, !.out = out]
  OBVIOUS
<1>1. Shaped(q) /\ q.at = "session" /\ q.token = t /\ q.out = out
  BY DEF Away, Shaped
<1>2. VisitSound(q)'
  BY <1>1 DEF VisitSound, AtSession, KeepsOut, Running, Readable, MayBeUsers, Arrive, access
<1>. QED
  BY <1>1, <1>2, EnterStep DEF Arrive, access, MayBeUsers

\* The session of a request that is kept out is over, or its user is gone.
LEMMA SessionRead == ASSUME SessionsInv, NEW c \in Visitors, ReadSession(c) PROVE SessionsInv'
<1>. PICK t, r : t = visit[c].token /\ r = visit[c]
  OBVIOUS
<1>1. Shaped(r) /\ AtSession(r) /\ intruders = {} /\ Calm
  BY VisitFacts DEF ReadSession, Doing, VisitSound, access, Calm
<1>2. Closing
  BY <1>1 DEF Closing, SessionsInv, SessionsTyped, Readable, Calm, ServedKnown
<1>3. CASE Leave(c)
  BY <1>1, <1>3, CalmLeave
<1>4. ASSUME NEW s \in Readable(t), Running(s), visit' = [visit EXCEPT ![c].user = s.user, ![c].at = "user"]
      PROVE  SessionsInv'
  <2>. PICK u : u = s.user
    OBVIOUS
  <2>. PICK q : q = [r EXCEPT !.user = u, !.at = "user"]
    OBVIOUS
  <2>1. visit' = [visit EXCEPT ![c] = q]
    BY <1>4 DEF SessionsInv, SessionsTyped
  <2>2. u \in Accounts \cup {"none"}
    <3>1. s \in SessionRecords
      BY <1>1, ReadableTyped DEF AtSession
    <3>. QED
      BY <3>1 DEF SessionRecords
  <2>3. Shaped(q) /\ q.at = "user" /\ q.user = u /\ q.out = r.out
    BY <1>1, <2>2 DEF Shaped
  <2>4. q.out => u \notin MayBeUsers
    BY <1>1, <1>4, <2>3 DEF AtSession, KeepsOut
  <2>5. MayBeUsers' = MayBeUsers
    BY <1>1 DEF Calm, MayBeUsers
  <2>6. VisitSound(q)'
    BY <2>3, <2>4, <2>5 DEF VisitSound, AtUser
  <2>. QED
    BY <1>1, <1>2, <2>1, <2>3, <2>5, <2>6, VisitStep DEF Calm
<1>. QED
  BY <1>3, <1>4 DEF ReadSession

\* A new session does not take the place of another one.
LEMMA CreateStep == ASSUME SessionsInv, NEW c \in Visitors, Create(c) PROVE SessionsInv'
<1>. PICK t, r : t = FreshToken /\ r = visit[c]
  OBVIOUS
<1>. PICK rec : rec = [user |-> r.user, exp |-> clock + SessionTtl]
  OBVIOUS
<1>. PICK q : q = [r EXCEPT !.token = t, !.at = "lastWrite"]
  OBVIOUS
<1>1. Shaped(r) /\ session \in SessionCells /\ clock \in Nat /\ intruders = {}
  BY VisitFacts
<1>2. Shaped(q) /\ q.at = "lastWrite"
  BY <1>1 DEF Shaped
<1>3. visit' = [visit EXCEPT ![c] = q]
  BY DEF Create, SessionsInv, SessionsTyped
<1>4. rec \in SessionRecords
  BY <1>1, TimesAssumption DEF SessionRecords, Shaped
<1>5. /\ session' = [session EXCEPT ![t] = Put(@, Null, rec)]
      /\ served' = served /\ ServedKnown
  BY DEF Create, access, SessionsInv, SessionsTyped
<1>6. Closing
  <2>1. CASE t \notin Tokens
    BY <1>1, <1>5, <2>1 DEF Closing, SessionCells, Readable, ServedKnown
  <2>2. CASE t \in Tokens
    <3>. PICK cell : cell = session[t]
      OBVIOUS
    <3>. PICK new : new = Put(cell, Null, rec)
      OBVIOUS
    <3>1. cell \in CellsOf(SessionRecords) /\ (cell = Empty \/ cell.ver >= 1)
      BY <1>1, <2>2 DEF SessionCells
    <3>2. new \in CellsOf(SessionRecords) /\ (cell.ver # Null => new = cell)
      BY <1>4, <3>1, WriteCell
    <3>3. ASSUME cell = Empty PROVE new.ver >= 1
      <4>1. new = [val |-> <<rec>>, ver |-> 1, n |-> 1]
        BY <3>3 DEF Put, Stored, Accepts, Empty
      <4>. QED
        BY <4>1
    <3>4. cell # Empty => new = cell
      BY <3>1, <3>2 DEF Null
    <3>5. session' = [session EXCEPT ![t] = new]
      BY <1>5
    <3>6. session' \in [Tokens -> CellsOf(SessionRecords)]
      BY <1>1, <3>2, <3>5 DEF SessionCells
    <3>7. session'[t] = new /\ \A s \in Tokens \ {t} : session'[s] = session[s]
      BY <1>1, <2>2, <3>5 DEF SessionCells
    <3>8. new = Empty \/ new.ver >= 1
      BY <3>1, <3>3, <3>4
    <3>9. session' \in SessionCells
      BY <1>1, <3>6, <3>7, <3>8 DEF SessionCells
    <3>10. \A v \in Tokens : session[v] # Empty => session'[v] = session[v]
      BY <3>4, <3>7
    <3>11. \A v \in Tokens : session'[v] = Empty => session[v] = Empty
      BY <3>4, <3>7
    <3>. QED
      BY <1>5, <3>7, <3>9, <3>10, <3>11 DEF Closing, Readable, ServedKnown
  <2>. QED
    BY <2>1, <2>2
<1>7. VisitSound(q)'
  BY <1>2 DEF VisitSound
<1>. QED
  BY <1>1, <1>2, <1>3, <1>6, <1>7, VisitStep DEF Create, access, MayBeUsers

\* A session that is erased was there, and is over.
LEMMA ErasedCloses ==
  ASSUME NEW cell \in CellsOf(SessionRecords), cell = Empty \/ cell.ver >= 1, NEW w
  PROVE  /\ Erase(cell, w) \in CellsOf(SessionRecords)
         /\ Erase(cell, w) = Empty \/ Erase(cell, w).ver >= 1
         /\ cell # Empty => Erase(cell, w) = cell \/ (~Present(Erase(cell, w)) /\ Erase(cell, w) # Empty)
<1>. PICK e : e = Erase(cell, w)
  OBVIOUS
<1>1. CASE cell.ver # w
  <2>1. e = cell
    BY <1>1 DEF Erase, Stored, Accepts
  <2>. QED
    BY <2>1
<1>2. CASE cell.ver = w
  <2>1. e = [val |-> <<>>, ver |-> cell.n + 1, n |-> cell.n + 1]
    BY <1>2 DEF Erase, Stored, Accepts
  <2>2. cell.n \in Nat
    BY DEF CellsOf
  <2>3. e.val = <<>> /\ e.ver = cell.n + 1 /\ e.n = cell.n + 1
    BY <2>1
  <2>4. e \in CellsOf(SessionRecords)
    BY <2>1, <2>2 DEF CellsOf
  <2>5. e.ver >= 1 /\ e.ver # 0
    BY <2>2, <2>3
  <2>6. e # Empty /\ ~Present(e)
    BY <2>3, <2>5 DEF Empty, Null, Present
  <2>. QED
    BY <2>4, <2>5, <2>6
<1>. QED
  BY <1>1, <1>2

\* What listSessions takes for dead was never created anew: nothing happens to it.
LEMMA PruneStep == ASSUME SessionsInv, NEW c \in Visitors, Prune(c) PROVE SessionsInv'
<1>. PICK dead \in SUBSET {t \in Value(visit[c].seen) : \E s \in Readable(t) : ~Running(s)} :
       session' = [t \in Tokens |-> IF t \in dead THEN Erase(session[t], Null) ELSE session[t]]
  BY DEF Prune
<1>1. ASSUME NEW t \in Tokens PROVE session'[t] = session[t]
  <2>1. CASE t \in dead
    <3>1. session[t] # Empty
      BY <2>1 DEF Readable, Present, Empty, SessionsInv, SessionsTyped, ServedKnown
    <3>2. session[t].ver >= 1
      BY <3>1 DEF SessionsInv, SessionsTyped, SessionCells
    <3>3. session[t].ver # Null
      BY <3>2 DEF Null
    <3>. QED
      BY <2>1, <3>3 DEF Erase, Stored, Accepts
  <2>. QED
    BY <2>1
<1>2. session' = session
  BY <1>1 DEF SessionsInv, SessionsTyped, SessionCells
<1>3. Calm /\ Leave(c)
  BY <1>2 DEF Calm, Prune, access
<1>. QED
  BY <1>3, CalmLeave

LEMMA RevokeStep == ASSUME SessionsInv, NEW c \in Visitors, Revoke(c) PROVE SessionsInv'
<1>. PICK r : r = visit[c]
  OBVIOUS
<1>. PICK t, w : t = r.token /\ w = Version(r.seen)
  OBVIOUS
<1>. PICK q : q = [r EXCEPT !.at = "unlistRead"]
  OBVIOUS
<1>1. Shaped(r) /\ session \in SessionCells /\ intruders = {} /\ VisitSound(r) /\ r.at = "revoke"
  BY VisitFacts DEF Revoke, Doing
<1>2. Shaped(q) /\ q.at = "unlistRead"
  BY <1>1 DEF Shaped
<1>3. visit' = [visit EXCEPT ![c] = q] /\ session' = [session EXCEPT ![t] = Erase(@, w)]
  BY DEF Revoke, GoOn
<1>4. \/ served' = served
      \/ served' = [served EXCEPT ![t] = Readable(t)]
  BY DEF Revoke
<1>5. ServedKnown
  BY DEF SessionsInv, SessionsTyped
<1>6. session' \in SessionCells /\ \A v \in Tokens \ {t} : session'[v] = session[v]
  <2>1. CASE t \notin Tokens
    BY <1>1, <1>3, <2>1 DEF SessionCells
  <2>2. CASE t \in Tokens
    <3>1. session[t] \in CellsOf(SessionRecords) /\ (session[t] = Empty \/ session[t].ver >= 1)
      BY <1>1, <2>2 DEF SessionCells
    <3>. PICK new : new = Erase(session[t], w)
      OBVIOUS
    <3>2. new \in CellsOf(SessionRecords) /\ (new = Empty \/ new.ver >= 1)
      BY <3>1, ErasedCloses
    <3>3. session' = [session EXCEPT ![t] = new]
      BY <1>3
    <3>. QED
      BY <1>1, <2>2, <3>2, <3>3 DEF SessionCells
  <2>. QED
    BY <2>1, <2>2
<1>7. ASSUME t \in Tokens, session[t] # Empty
      PROVE  session'[t] # Empty /\ (session'[t] = session[t] \/ ~Present(session'[t]))
  <2>. PICK cell, new : cell = session[t] /\ new = Erase(cell, w)
    OBVIOUS
  <2>1. cell \in CellsOf(SessionRecords) /\ (cell = Empty \/ cell.ver >= 1)
    BY <1>1, <1>7 DEF SessionCells
  <2>2. new = cell \/ (~Present(new) /\ new # Empty)
    BY <1>7, <2>1, ErasedCloses
  <2>3. session'[t] = new
    BY <1>1, <1>3, <1>7 DEF SessionCells
  <2>. QED
    BY <1>7, <2>2, <2>3
<1>8. /\ served' \in [Tokens -> SUBSET SessionRecords]
      /\ t \in Tokens => served'[t] \in {served[t], Readable(t)}
      /\ \A v \in Tokens \ {t} : served'[v] = served[v]
  BY <1>4, <1>5, ReadableTyped DEF ServedKnown
<1>9. ASSUME NEW v \in Tokens, session[v] # Empty PROVE session'[v] # Empty /\ Readable(v)' \subseteq Readable(v)
  <2>1. CASE v = t
    <3>1. served'[t] \subseteq Readable(t)
      BY <1>8, <2>1 DEF Readable
    <3>2. session'[t] # Empty /\ (Present(session'[t]) => session'[t] = session[t])
      BY <1>7, <1>9, <2>1
    <3>. QED
      BY <2>1, <3>1, <3>2 DEF Readable
  <2>2. CASE v # t
    BY <1>6, <1>8, <1>9, <2>2 DEF Readable
  <2>. QED
    BY <2>1, <2>2
<1>10. ASSUME NEW v \in Tokens, session'[v] = Empty PROVE served'[v] = {}
  <2>1. session[v] = Empty
    BY <1>9, <1>10
  <2>2. served[v] = {} /\ Readable(v) = {}
    BY <1>5, <2>1 DEF ServedKnown, Readable, Present, Empty
  <2>. QED
    BY <1>8, <2>2
<1>11. Closing
  BY <1>6, <1>8, <1>9, <1>10 DEF Closing, ServedKnown
<1>12. VisitSound(q)'
  BY <1>2 DEF VisitSound
<1>13. UNCHANGED <<clock, nonce, admitted, users, lingering, intruders>> /\ MayBeUsers' = MayBeUsers
  BY DEF Revoke, MayBeUsers
<1>. QED
  BY <1>1, <1>2, <1>3, <1>11, <1>12, <1>13, VisitStep

LEMMA RequestPasses == ASSUME SessionsInv, NEW c \in Visitors, ReadCurrentUser(c) PROVE SessionsInv'
<1>1. AtUser(visit[c]) /\ intruders = {}
  BY VisitFacts DEF ReadCurrentUser, Doing, VisitSound
<1>2. intruders' = {}
  BY <1>1 DEF ReadCurrentUser, AtUser, IsUser
<1>3. Calm /\ Leave(c)
  BY <1>1, <1>2 DEF ReadCurrentUser, Calm
<1>. QED
  BY <1>3, CalmLeave

\* A copy that ends takes nothing with it but what a read may find.
LEMMA CopiesStep == ASSUME SessionsInv, ExpireCopies PROVE SessionsInv'
<1>1. /\ UNCHANGED <<clock, session, nonce, admitted, intruders, visit>>
      /\ SessionsTyped /\ intruders = {} /\ clock \in Nat
      /\ MayBeUsers' \subseteq MayBeUsers
  BY DEF ExpireCopies, SessionsInv, SessionsTyped, MayBeUsers
<1>2. ServedKnown' /\ \A t \in Tokens : served'[t] \subseteq served[t]
  <2>1. CASE served' = served
    BY <1>1, <2>1 DEF SessionsTyped, ServedKnown
  <2>2. ASSUME NEW t \in Tokens, served' = [served EXCEPT ![t] = {}] PROVE ServedKnown' /\ \A v \in Tokens : served'[v] \subseteq served[v]
    BY <1>1, <2>2 DEF SessionsTyped, ServedKnown
  <2>. QED
    BY <2>1, <2>2 DEF ExpireCopies
<1>3. Closing
  BY <1>1, <1>2 DEF Closing, SessionsTyped, Readable
<1>4. ASSUME NEW d \in Visitors PROVE VisitSound(visit[d])'
  <2>. PICK s : s = visit[d]
    OBVIOUS
  <2>1. VisitSound(s) /\ visit'[d] = s
    BY <1>1 DEF SessionsInv
  <2>2. AtSession(s) => AtSession(s)'
    BY <1>1, <1>3, StaysSession
  <2>3. AtUser(s) => AtUser(s)'
    BY <1>1 DEF AtUser
  <2>4. (AtNonce(s) => AtNonce(s)') /\ (AtProof(s) => AtProof(s)')
    BY <1>1 DEF AtNonce, InWindow, AtProof, Spent
  <2>5. VisitSound(s)'
    BY <2>1, <2>2, <2>3, <2>4 DEF VisitSound
  <2>. QED
    BY <2>1, <2>5
<1>5. AdmittedOnce'
  BY <1>1 DEF SessionsInv, AdmittedOnce, Spent
<1>6. SessionsTyped'
  BY <1>1, <1>2 DEF SessionsTyped
<1>. QED
  BY <1>1, <1>4, <1>5, <1>6 DEF SessionsInv

\* Arithmetic of the times of a one-time key.
LEMMA KeyTimes ==
  ASSUME SessionsInv, NEW k \in KeyTexts, InWindow(k)
  PROVE  /\ ~(clock > KeyTime[k] + KeyWindow)
         /\ clock + NonceLife > KeyTime[k] + KeyWindow /\ clock + NonceLife \in Nat
<1>. PICK t, w, n, m : t = KeyTime[k] /\ w = KeyWindow /\ n = clock /\ m = NonceTtl
  OBVIOUS
<1>1. t \in Nat /\ w \in Nat /\ n \in Nat /\ m \in Nat /\ 2 * w < m
  BY TimesAssumption DEF SessionsInv, SessionsTyped
<1>2. n - t <= w /\ t - n <= w
  BY DEF InWindow
<1>. QED
  BY <1>1, <1>2 DEF NonceLife

\* Who is first to write the nonce of a key was nowhere else with it: neither
\* is another one at its proof nor was the key admitted before.
LEMMA CheckNonceStep == ASSUME SessionsInv, NEW c \in Visitors, CheckNonce(c) PROVE SessionsInv'
<1>. PICK r : r = visit[c]
  OBVIOUS
<1>. PICK u, k : u = r.user /\ k = r.key
  OBVIOUS
<1>. PICK x : x = <<u, k>>
  OBVIOUS
<1>. PICK rec : rec = [exp |-> clock + NonceLife]
  OBVIOUS
<1>. PICK new : new = Put(nonce[x], Null, rec)
  OBVIOUS
<1>1. /\ Shaped(r) /\ u \in Accounts /\ k \in KeyTexts /\ InWindow(k) /\ r.at = "nonce"
      /\ intruders = {} /\ clock \in Nat /\ session \in SessionCells
  BY VisitFacts DEF CheckNonce, Doing, VisitSound, AtNonce
<1>2. /\ nonce' = [nonce EXCEPT ![x] = new]
      /\ UNCHANGED <<clock, session, admitted, users, intruders, viaCache, served, lingering>>
  BY DEF CheckNonce, access
<1>3. x \in Accounts \X KeyTexts /\ rec \in [exp : Nat]
  BY <1>1, KeyTimes
<1>4. nonce[x] \in CellsOf([exp : Nat]) /\ (Present(nonce[x]) => nonce[x].ver >= 1)
  BY <1>3 DEF SessionsInv, SessionsTyped, NonceCells
<1>5. CASE ~Accepts(nonce[x], Null)
  <2>1. new = nonce[x]
    BY <1>5 DEF Put, Stored
  <2>2. nonce' = nonce
    BY <1>2, <2>1 DEF SessionsInv, SessionsTyped, NonceCells
  <2>3. Calm /\ Leave(c)
    BY <1>2, <1>5, <2>2 DEF Calm, CheckNonce
  <2>. QED
    BY <2>3, CalmLeave
<1>6. CASE Accepts(nonce[x], Null)
  <2>. PICK q : q = [r EXCEPT !.at = "proof"]
    OBVIOUS
  <2>1. Shaped(q) /\ q.at = "proof" /\ q.user = u /\ q.key = k
    BY <1>1 DEF Shaped
  <2>2. visit' = [visit EXCEPT ![c] = q]
    BY <1>6 DEF CheckNonce, GoOn
  <2>3. visit'[c] = q /\ \A d \in Visitors \ {c} : visit'[d] = visit[d]
    BY <2>2 DEF SessionsInv, SessionsTyped
  <2>4. nonce[x].ver = 0 /\ ~(0 >= 1)
    BY <1>6 DEF Accepts, Null
  <2>5. ~Spent(u, k)
    BY <1>1, <1>4, <2>4, KeyTimes DEF Spent
  <2>6. new = [val |-> <<rec>>, ver |-> nonce[x].n + 1, n |-> nonce[x].n + 1] /\ new \in CellsOf([exp : Nat])
    <3>1. nonce[x].ver = Null
      BY <2>4 DEF Null
    <3>2. \A S : \A v \in S : nonce[x] \in CellsOf(S) =>
            Put(nonce[x], Null, v) \in CellsOf(S)
      BY WriteCell
    <3>3. new \in CellsOf([exp : Nat])
      BY <1>3, <1>4, <3>2
    <3>. QED
      BY <3>1, <3>3 DEF Put, Stored, Accepts
  <2>7. Present(new) /\ Value(new) = rec /\ new.ver >= 1
    <3>1. <<rec>> # <<>> /\ <<rec>>[1] = rec /\ nonce[x].n \in Nat
      BY <1>4, CellFacts
    <3>. QED
      BY <2>6, <3>1 DEF Present, Value
  <2>8. nonce' \in NonceCells /\ nonce'[x] = new /\ \A y \in (Accounts \X KeyTexts) \ {x} : nonce'[y] = nonce[y]
    BY <1>2, <1>3, <2>6, <2>7 DEF SessionsInv, SessionsTyped, NonceCells
  <2>9. Spent(u, k)'
    BY <1>1, <1>2, <2>7, <2>8, KeyTimes DEF Spent
  <2>10. ASSUME NEW v \in Accounts, NEW j \in KeyTexts, Spent(v, j) PROVE Spent(v, j)'
    <3>1. CASE <<v, j>> = x
      BY <2>9, <3>1
    <3>2. CASE <<v, j>> # x
      BY <1>2, <2>8, <2>10, <3>2 DEF Spent
    <3>. QED
      BY <3>1, <3>2
  <2>11. KeyOf[k] = u => admitted[k] = 0
    BY <1>1, <2>5 DEF SessionsInv, AdmittedOnce
  <2>12. VisitSound(q)'
    BY <1>1, <1>2, <2>1, <2>9, <2>11 DEF VisitSound, AtProof
  <2>13. ASSUME NEW d \in Visitors \ {c} PROVE VisitSound(visit[d])'
    <3>. PICK s : s = visit[d]
      OBVIOUS
    <3>1. VisitSound(s) /\ visit'[d] = s
      BY <2>3 DEF SessionsInv
    <3>2. AtProof(s) => AtProof(s)'
      BY <1>2, <2>10 DEF AtProof
    <3>3. AtSession(s) => AtSession(s)'
      BY <1>2 DEF AtSession, KeepsOut, Running, Readable, MayBeUsers
    <3>4. AtUser(s) => AtUser(s)'
      BY <1>2 DEF AtUser, MayBeUsers
    <3>5. AtNonce(s) => AtNonce(s)'
      BY <1>2 DEF AtNonce, InWindow
    <3>6. VisitSound(s)'
      BY <3>1, <3>2, <3>3, <3>4, <3>5 DEF VisitSound
    <3>. QED
      BY <3>1, <3>6
  <2>14. ASSUME NEW d \in Visitors \ {c} PROVE ~Rivals(visit[d], q)
    BY <2>1, <2>5, VisitFacts DEF Rivals, VisitSound, AtProof
  <2>15. \A d, e \in Visitors : d # e => ~Rivals(visit'[d], visit'[e])
    <3>1. ASSUME NEW d \in Visitors \ {c} PROVE ~Rivals(q, visit[d])
      BY <2>14, <3>1 DEF Rivals
    <3>. QED
      BY <2>3, <2>14, <3>1 DEF SessionsInv
  <2>16. AdmittedOnce'
    BY <1>2, <2>10 DEF SessionsInv, AdmittedOnce
  <2>17. SessionsTyped'
    BY <1>2, <2>1, <2>2, <2>3, <2>8 DEF SessionsInv, SessionsTyped, ServedKnown
  <2>. QED
    BY <1>1, <1>2, <2>3, <2>12, <2>13, <2>15, <2>16, <2>17 DEF SessionsInv
<1>. QED
  BY <1>5, <1>6

\* The key passes once: it has one account, and that one has no rival.
LEMMA CheckProofStep == ASSUME SessionsInv, NEW c \in Visitors, CheckProof(c) PROVE SessionsInv'
<1>. PICK r : r = visit[c]
  OBVIOUS
<1>. PICK u, k : u = r.user /\ k = r.key
  OBVIOUS
<1>1. Shaped(r) /\ AtProof(r) /\ r.at = "proof" /\ intruders = {} /\ u \in Accounts /\ k \in KeyTexts
  BY VisitFacts DEF CheckProof, Doing, VisitSound, AtProof
<1>2. UNCHANGED <<clock, session, nonce, users, intruders, viaCache, served, lingering>>
  BY DEF CheckProof, access
<1>3. CASE Leave(c) /\ UNCHANGED admitted
  BY <1>2, <1>3, CalmLeave DEF Calm
<1>4. CASE /\ KeyOf[k] = u
           /\ GoOn(c, "lastRead") /\ admitted' = [admitted EXCEPT ![k] = @ + 1]
  <2>. PICK q : q = [r EXCEPT !.at = "lastRead"]
    OBVIOUS
  <2>1. Shaped(q) /\ q.at = "lastRead"
    BY <1>1 DEF Shaped
  <2>2. visit' = [visit EXCEPT ![c] = q]
    BY <1>4 DEF GoOn
  <2>3. visit'[c] = q /\ \A d \in Visitors \ {c} : visit'[d] = visit[d]
    BY <2>2 DEF SessionsInv, SessionsTyped
  <2>4. admitted[k] = 0 /\ Spent(u, k)
    BY <1>1, <1>4 DEF AtProof
  <2>5. /\ admitted' = [j \in KeyTexts |-> admitted'[j]] /\ admitted'[k] = 1
        /\ \A j \in KeyTexts \ {k} : admitted'[j] = admitted[j]
    BY <1>1, <1>4, <2>4 DEF SessionsInv, AdmittedOnce
  <2>6. \A v, j : Spent(v, j) => Spent(v, j)'
    BY <1>2 DEF Spent
  <2>7. AdmittedOnce'
    BY <1>1, <1>4, <2>4, <2>5, <2>6 DEF SessionsInv, AdmittedOnce
  <2>8. VisitSound(q)'
    BY <2>1 DEF VisitSound
  <2>9. ASSUME NEW d \in Visitors \ {c} PROVE VisitSound(visit[d])'
    <3>. PICK s : s = visit[d]
      OBVIOUS
    <3>1. VisitSound(s) /\ visit'[d] = s /\ ~Rivals(s, r)
      BY <2>3 DEF SessionsInv
    <3>2. s.at = "proof" /\ AtProof(s) => AtProof(s)'
      BY <1>1, <1>2, <1>4, <2>5, <2>6, <3>1 DEF AtProof, Rivals
    <3>3. AtSession(s) => AtSession(s)'
      BY <1>2 DEF AtSession, KeepsOut, Running, Readable, MayBeUsers
    <3>4. AtUser(s) => AtUser(s)'
      BY <1>2 DEF AtUser, MayBeUsers
    <3>5. AtNonce(s) => AtNonce(s)'
      BY <1>2 DEF AtNonce, InWindow
    <3>6. VisitSound(s)'
      BY <3>1, <3>2, <3>3, <3>4, <3>5 DEF VisitSound
    <3>. QED
      BY <3>1, <3>6
  <2>10. \A d, e \in Visitors : d # e => ~Rivals(visit'[d], visit'[e])
    <3>1. \A s : ~Rivals(q, s) /\ ~Rivals(s, q)
      BY <2>1 DEF Rivals
    <3>. QED
      BY <2>3, <3>1 DEF SessionsInv
  <2>11. SessionsTyped'
    BY <1>2, <2>1, <2>2, <2>3 DEF SessionsInv, SessionsTyped, ServedKnown
  <2>. QED
    BY <1>1, <1>2, <2>3, <2>7, <2>8, <2>9, <2>10, <2>11 DEF SessionsInv
<1>. QED
  BY <1>3, <1>4 DEF CheckProof

\* A nonce goes when the key is too old for it to matter.
LEMMA PassStep == ASSUME SessionsInv, Pass PROVE SessionsInv'
<1>1. /\ clock' = clock + 1 /\ clock \in Nat /\ intruders = {} /\ session \in SessionCells
      /\ UNCHANGED <<session, admitted, users, lingering, served, intruders, visit>> /\ ServedKnown
  BY DEF Pass, access, SessionsInv, SessionsTyped
<1>2. /\ nonce \in [Accounts \X KeyTexts -> CellsOf([exp : Nat])]
      /\ \A x \in Accounts \X KeyTexts : Present(nonce[x]) => nonce[x].ver >= 1
  BY DEF SessionsInv, SessionsTyped, NonceCells
<1>3. nonce' = [x \in Accounts \X KeyTexts |->
                  IF Present(nonce[x]) /\ Value(nonce[x]).exp <= clock' THEN Expire(nonce[x]) ELSE nonce[x]]
  BY <1>2 DEF Pass, Reaped
<1>4. ASSUME NEW cell \in CellsOf([exp : Nat])
      PROVE  Expire(cell) \in CellsOf([exp : Nat]) /\ ~Present(Expire(cell))
  BY DEF CellsOf, Expire, Present, Null
<1>5. nonce' \in NonceCells
  BY <1>2, <1>3, <1>4 DEF NonceCells
<1>6. ASSUME NEW v \in Accounts, NEW j \in KeyTexts, Spent(v, j) PROVE Spent(v, j)'
  <2>. PICK x : x = <<v, j>>
    OBVIOUS
  <2>1. KeyTime[j] + KeyWindow \in Nat
    BY TimesAssumption
  <2>2. CASE clock > KeyTime[j] + KeyWindow
    BY <1>1, <2>1, <2>2 DEF Spent
  <2>3. CASE Present(nonce[x]) /\ Value(nonce[x]).exp > KeyTime[j] + KeyWindow
    <3>1. Value(nonce[x]) \in [exp : Nat]
      BY <1>2, <2>3, CellFacts
    <3>2. Value(nonce[x]).exp \in Nat
      BY <3>1
    <3>3. CASE Value(nonce[x]).exp <= clock'
      BY <1>1, <2>1, <2>3, <3>2, <3>3 DEF Spent
    <3>4. CASE ~(Value(nonce[x]).exp <= clock')
      <4>1. nonce'[x] = nonce[x]
        BY <1>3, <3>4
      <4>. QED
        BY <2>3, <4>1 DEF Spent
    <3>. QED
      BY <3>3, <3>4
  <2>. QED
    BY <1>6, <2>2, <2>3 DEF Spent
<1>7. Closing
  BY <1>1 DEF Closing, ServedKnown, Readable
<1>8. ASSUME NEW d \in Visitors PROVE VisitSound(visit[d])'
  <2>. PICK s : s = visit[d]
    OBVIOUS
  <2>1. VisitSound(s) /\ visit'[d] = s /\ s.at # "nonce"
    BY <1>1 DEF SessionsInv, Pass, Doing
  <2>2. AtProof(s) => AtProof(s)'
    BY <1>1, <1>6 DEF AtProof
  <2>3. AtSession(s) => AtSession(s)'
    <3>1. clock' \in Nat /\ clock' >= clock
      BY <1>1
    <3>. QED
      BY <1>1, <1>7, <3>1, StaysSession DEF MayBeUsers
  <2>4. AtUser(s) => AtUser(s)'
    BY <1>1 DEF AtUser, MayBeUsers
  <2>5. VisitSound(s)'
    BY <2>1, <2>2, <2>3, <2>4 DEF VisitSound
  <2>. QED
    BY <2>1, <2>5
<1>9. AdmittedOnce'
  BY <1>1, <1>6 DEF SessionsInv, AdmittedOnce
<1>10. SessionsTyped'
  BY <1>1, <1>5 DEF SessionsInv, SessionsTyped, ServedKnown
<1>. QED
  BY <1>1, <1>8, <1>9, <1>10 DEF SessionsInv

LEMMA SessionsStep == SessionsInv /\ [SessionsNext]_sessionVars => SessionsInv'
<1>. SUFFICES ASSUME SessionsInv, [SessionsNext]_sessionVars PROVE SessionsInv'
  OBVIOUS
<1>1. CASE UNCHANGED sessionVars
  BY <1>1 DEF sessionVars, access, SessionsInv, SessionsTyped, VisitSound, AtNonce, InWindow, AtProof, Spent,
              AtSession, KeepsOut, Running, Readable, MayBeUsers, ServedKnown, AtUser, Rivals, AdmittedOnce
<1>2. CASE SessionsNext
  BY <1>2, PassStep, LoginBegins, VerifyStep, KeyBegins, CheckNonceStep, CheckProofStep, LoginSteps, CreateStep,
     ListBegins, PruneStep, RevokeBegins, RevokeStep, RequestArrives, SessionRead, RequestPasses,
     CopiesStep
     DEF SessionsNext
<1>. QED
  BY <1>1, <1>2

\* The text of a one-time key lets one login in, and no request is let in that was
\* out, for every copy a read may get, when it came.
THEOREM LoginsKept == SessionsSpec => []LoginsSound
<1>1. SessionsInv => LoginsSound
  BY DEF SessionsInv, AdmittedOnce, LoginsSound, OneTime, GoneStaysOut
<1>. QED
  BY <1>1, SessionsAtStart, SessionsStep, PTL DEF SessionsSpec

-----------------------------------------------------------------------------
(* The middleware: what an address may still get through is bounded by the  *)
(* burst and the time since each request it got through; what is stored     *)
(* under an idempotency key stays.                                          *)

\* k tokens and s more, over d units of time; r tokens where s were d units before.
Within(k, s, d) == k * Interval + s <= Full + Burst * d
Regained(r, s, d) == r <= s + d * Burst

\* With the bucket b of an address at its last refill, and when its requests passed.
Charged(b, a) ==
    /\ b.tokens \in Nat /\ b.tokens <= Full
    /\ b.lastRefill \in Nat
    /\ \A m \in 1..Len(a) :
         /\ a[m] <= b.lastRefill
         /\ Within(Len(a) - m + 1, b.tokens, b.lastRefill - a[m])

\* RateBounded for one address.
Paced(a) == \A m, n \in 1..Len(a) : m <= n => (n - m + 1) * Interval <= Full + Burst * (a[n] - a[m])

RateInv ==
    /\ time \in Nat
    /\ DOMAIN bucket = Doors /\ DOMAIN passed = Doors
    /\ \A i \in Doors : /\ passed[i] \in Seq(Nat)
                        /\ Charged(bucket[i], passed[i]) /\ bucket[i].lastRefill <= time
                        /\ Paced(passed[i])

LEMMA FullNat == Full \in Nat /\ Burst \in Nat /\ Interval \in Nat
BY RateAssumption DEF Full

LEMMA FreshBucket == <<>> \in Seq(Nat) /\ Paced(<<>>) /\ Charged(NoBucket, <<>>) /\ NoBucket.lastRefill = 0
<1>1. NoBucket.tokens = Full /\ NoBucket.lastRefill = 0 /\ Len(<<>>) = 0
  BY DEF NoBucket
<1>. QED
  BY <1>1, FullNat DEF Paced, Charged

LEMMA Distributes ==
  ASSUME NEW n \in Nat, NEW x \in Nat, NEW y \in Nat
  PROVE  n * (x + y) = n * x + n * y /\ n * x \in Nat /\ n * y \in Nat /\ y * n = n * y
OBVIOUS

LEMMA SumsBounded ==
  ASSUME NEW x \in Nat, NEW s \in Nat, NEW r \in Nat, NEW f \in Nat, NEW u \in Nat, NEW v \in Nat,
         x + s <= f + u, r <= s + v
  PROVE  x + r <= f + (u + v)
OBVIOUS

\* What k tokens more were worth at time l they are worth at a later time t, when
\* the bucket has regained what it does between the two.
LEMMA LaterAllowance ==
  ASSUME NEW k \in Nat, NEW s \in Nat, NEW r \in Nat, NEW e \in Nat, NEW l \in Nat, NEW t \in Nat, e <= l, l <= t,
         Within(k, s, l - e), Regained(r, s, t - l)
  PROVE  e <= t /\ Within(k, r, t - e)
<1>1. ASSUME NEW x \in Nat, NEW y \in Nat, x = l - e, y = t - l
      PROVE  e <= t /\ Within(k, r, t - e)
  <2>1. t - e = x + y /\ e <= t
    BY <1>1
  <2>2. Burst * (x + y) = Burst * x + Burst * y /\ Burst * x \in Nat /\ Burst * y \in Nat /\ y * Burst = Burst * y
    BY Distributes, FullNat
  <2>3. k * Interval \in Nat
    BY Distributes, FullNat
  <2>4. k * Interval + r <= Full + (Burst * x + Burst * y)
    <3>1. k * Interval + s <= Full + Burst * x /\ r <= s + Burst * y
      BY <1>1, <2>2 DEF Within, Regained
    <3>. QED
      BY <2>2, <2>3, <3>1, SumsBounded, FullNat
  <2>. QED
    BY <2>1, <2>2, <2>4 DEF Within
<1>2. l - e \in Nat /\ t - l \in Nat
  OBVIOUS
<1>. QED
  BY <1>1, <1>2

\* What an allowance still leaves bounds what has been used.
LEMMA Spared ==
  ASSUME NEW k \in Nat, NEW r \in Nat, NEW d \in Nat, Within(k, r, d)
  PROVE  k * Interval <= Full + Burst * d
<1>. PICK x \in Nat, y \in Nat : x = k * Interval /\ y = Burst * d
  BY Distributes, FullNat
<1>1. x + r <= Full + y
  BY DEF Within
<1>2. x <= Full + y
  BY <1>1, FullNat
<1>. QED
  BY <1>2, Zenon

\* Time that passes raises what was allowed at least as much as what a refill adds.
LEMMA Refilled ==
  ASSUME NEW a \in Seq(Nat), NEW b, Charged(b, a), NEW t \in Nat, b.lastRefill <= t,
         NEW tokens \in Nat, tokens <= Full, Regained(tokens, b.tokens, t - b.lastRefill)
  PROVE  Charged([tokens |-> tokens, lastRefill |-> t], a)
<1>. PICK d : d = [tokens |-> tokens, lastRefill |-> t]
  OBVIOUS
<1>1. d.tokens = tokens /\ d.lastRefill = t
  OBVIOUS
<1>2. ASSUME NEW m \in 1..Len(a)
      PROVE  a[m] <= t /\ Within(Len(a) - m + 1, tokens, t - a[m])
  <2>1. a[m] \in Nat /\ b.lastRefill \in Nat /\ b.tokens \in Nat /\ a[m] <= b.lastRefill /\ Len(a) - m + 1 \in Nat
    <3>1. Len(a) \in Nat /\ a[m] \in Nat
      BY <1>2
    <3>2. Len(a) - m + 1 \in Nat
      BY <1>2, <3>1
    <3>. QED
      BY <1>2, <3>1, <3>2 DEF Charged
  <2>2. Within(Len(a) - m + 1, b.tokens, b.lastRefill - a[m])
    BY <1>2 DEF Charged
  <2>. QED
    BY <2>1, <2>2, LaterAllowance
<1>. QED
  BY <1>1, <1>2 DEF Charged

\* A request that passes costs one token.
LEMMA TokenSpent ==
  ASSUME NEW a \in Seq(Nat), NEW b, Charged(b, a), Paced(a), b.tokens >= Interval,
         NEW d, d = [b EXCEPT !.tokens = b.tokens - Interval],
         DOMAIN b = {"tokens", "lastRefill"}
  PROVE  Charged(d, Append(a, b.lastRefill)) /\ Paced(Append(a, b.lastRefill))
<1>. PICK t \in Nat : t = b.lastRefill
  BY DEF Charged
<1>. PICK c : c = Append(a, t)
  OBVIOUS
<1>. PICK l \in Nat : l = Len(a)
  OBVIOUS
<1>1. Len(c) = l + 1 /\ c[l + 1] = t /\ \A m \in 1..l : c[m] = a[m] /\ a[m] \in Nat
  OBVIOUS
<1>2. b.tokens \in Nat /\ d.tokens = b.tokens - Interval /\ d.tokens \in Nat /\ d.lastRefill = t /\ d.tokens <= Full
  BY FullNat DEF Charged
<1>3. ASSUME NEW m \in 1..l
      PROVE  /\ c[m] <= t
             /\ Within(l + 1 - m + 1, d.tokens, t - c[m])
  <2>1. c[m] = a[m] /\ a[m] \in Nat /\ a[m] <= t
    BY <1>1, <1>3 DEF Charged
  <2>2. PICK k \in Nat : k = l - m + 1
    BY <1>3
  <2>3. k * Interval + b.tokens <= Full + Burst * (t - a[m])
    BY <1>3, <2>2 DEF Charged, Within
  <2>4. l + 1 - m + 1 = k + 1
    BY <2>2, <1>3
  <2>5. (k + 1) * Interval = k * Interval + Interval /\ k * Interval \in Nat
    BY FullNat
  <2>6. Burst * (t - a[m]) \in Nat
    <3>. PICK x \in Nat : x = t - a[m]
      BY <2>1
    <3>1. Burst * x \in Nat
      BY Distributes, FullNat
    <3>. QED
      BY <3>1, Zenon
  <2>. QED
    BY <1>2, <2>1, <2>3, <2>4, <2>5, <2>6, FullNat DEF Within
<1>4. c[l + 1] <= t /\ Within(l + 1 - (l + 1) + 1, d.tokens, t - c[l + 1])
  <2>1. l + 1 - (l + 1) + 1 = 1 /\ t - c[l + 1] = 0
    BY <1>1
  <2>2. 1 * Interval = Interval /\ Burst * 0 = 0
    BY FullNat
  <2>. QED
    BY <1>1, <1>2, <2>1, <2>2, FullNat DEF Charged, Within
<1>5. Charged(d, c)
  <2>1. \A m \in 1..l + 1 : m \in 1..l \/ m = l + 1
    OBVIOUS
  <2>. QED
    BY <1>1, <1>2, <1>3, <1>4, <2>1 DEF Charged
<1>6. Paced(c)
  <2>. SUFFICES ASSUME NEW m \in 1..l + 1, NEW n \in 1..l + 1, m <= n
                PROVE  (n - m + 1) * Interval <= Full + Burst * (c[n] - c[m])
    BY <1>1 DEF Paced
  <2>1. CASE n \in 1..l
    <3>1. m \in 1..l /\ c[m] = a[m] /\ c[n] = a[n]
      BY <1>1, <2>1
    <3>. QED
      BY <2>1, <3>1 DEF Paced
  <2>2. CASE n = l + 1
    <3>1. PICK k \in Nat : k = (l + 1) - m + 1
      OBVIOUS
    <3>2. c[m] \in Nat /\ c[m] <= t
      BY <1>1, <1>3, <1>4
    <3>3. PICK x \in Nat : x = t - c[m]
      BY <3>2
    <3>4. Within(k, d.tokens, x)
      BY <1>3, <1>4, <3>1, <3>3
    <3>5. k * Interval <= Full + Burst * (t - c[m])
      BY <1>2, <3>3, <3>4, Spared
    <3>. QED
      BY <1>1, <2>2, <3>1, <3>5
  <2>. QED
    BY <2>1, <2>2
<1>. QED
  BY <1>5, <1>6

\* The bucket an address has when its request comes, and what becomes of it.
LEMMA RateStep ==
  ASSUME RateInv, NEW i \in Doors, NEW b, b = Refill(bucket[i]),
         NEW pass, pass <=> b.tokens >= Interval,
         bucket' = [bucket EXCEPT ![i] = IF pass THEN [b EXCEPT !.tokens = b.tokens - Interval] ELSE b],
         passed' = IF pass THEN [passed EXCEPT ![i] = Append(passed[i], time)] ELSE passed,
         time' = time
  PROVE  RateInv'
<1>. PICK a : a = passed[i]
  OBVIOUS
<1>1. a \in Seq(Nat) /\ time \in Nat /\ Paced(a)
  BY DEF RateInv
<1>2. Charged(b, a) /\ b.lastRefill = time /\ DOMAIN b = {"tokens", "lastRefill"}
  <2>1. Charged(bucket[i], a) /\ bucket[i].lastRefill <= time
    BY DEF RateInv
  <2>. PICK n : n = Least(Full, bucket[i].tokens + (time - bucket[i].lastRefill) * Burst)
    OBVIOUS
  <2>2. b = [tokens |-> n, lastRefill |-> time]
    BY DEF Refill
  <2>3. bucket[i].tokens \in Nat /\ (time - bucket[i].lastRefill) \in Nat
    BY <1>1, <2>1 DEF Charged
  <2>4. (time - bucket[i].lastRefill) * Burst \in Nat
    BY <2>3, FullNat, Distributes
  <2>5. n \in Nat /\ n <= Full /\ Regained(n, bucket[i].tokens, time - bucket[i].lastRefill)
    <3>. PICK x \in Nat : x = bucket[i].tokens + (time - bucket[i].lastRefill) * Burst
      BY <2>3, <2>4
    <3>1. n \in Nat /\ n <= Full /\ n <= x
      BY FullNat DEF Least
    <3>. QED
      BY <3>1 DEF Regained
  <2>6. Charged([tokens |-> n, lastRefill |-> time], a)
    BY <1>1, <2>1, <2>5, Refilled
  <2>. QED
    BY <2>2, <2>6
<1>3. /\ DOMAIN bucket' = Doors /\ DOMAIN passed' = Doors
      /\ \A j \in Doors \ {i} : bucket'[j] = bucket[j] /\ passed'[j] = passed[j]
  BY DEF RateInv
<1>4. ASSUME NEW j \in Doors \ {i}
      PROVE  /\ passed'[j] \in Seq(Nat)
             /\ Charged(bucket'[j], passed'[j]) /\ bucket'[j].lastRefill <= time'
             /\ Paced(passed'[j])
  BY <1>3, <1>4 DEF RateInv
<1>5. /\ passed'[i] \in Seq(Nat)
      /\ Charged(bucket'[i], passed'[i]) /\ bucket'[i].lastRefill <= time'
      /\ Paced(passed'[i])
  <2>1. CASE pass
    <3>. PICK d : d = [b EXCEPT !.tokens = b.tokens - Interval]
      OBVIOUS
    <3>1. bucket'[i] = d /\ passed'[i] = Append(a, b.lastRefill)
      BY <1>2, <2>1 DEF RateInv
    <3>2. d.lastRefill = time
      BY <1>2
    <3>3. Append(a, b.lastRefill) \in Seq(Nat)
      BY <1>1, <1>2
    <3>4. Charged(d, Append(a, b.lastRefill)) /\ Paced(Append(a, b.lastRefill))
      BY <1>1, <1>2, <2>1, TokenSpent
    <3>5. d.lastRefill <= time'
      BY <1>1, <3>2
    <3>. QED
      BY <3>1, <3>3, <3>4, <3>5, Zenon
  <2>2. CASE ~pass
    <3>1. bucket'[i] = b /\ passed'[i] = a
      BY <2>2 DEF RateInv
    <3>2. Charged(b, a) /\ Paced(a) /\ a \in Seq(Nat) /\ b.lastRefill <= time'
      BY <1>1, <1>2
    <3>. QED
      BY <3>1, <3>2, Zenon
  <2>. QED
    BY <2>1, <2>2
<1>. QED
  BY <1>1, <1>3, <1>4, <1>5 DEF RateInv

Stations == {"new", "limited", "lookup", "replayed", "handler", "store", "done"}

\* The response that is stored under key k, and is the only one ever returned for it.
Answers(k, v) == k \in IdempotencyKeys /\ Present(idem[k]) /\ Value(idem[k]) = v

\* What holds of request q.
InOrder(q) ==
    /\ DOMAIN q = {"pc", "ip", "key", "response", "after"} /\ q.pc \in Stations
    /\ q.key \in IdempotencyKeys \cup {NoKey}
    /\ q.pc = "lookup" => q.key # NoKey
    /\ q.pc = "replayed" => Answers(q.key, q.response)
    /\ q.pc = "store" => q.key # NoKey
    /\ q.pc = "new" => q.after = {}
    /\ q.after # {} => /\ q.pc \in {"limited", "lookup", "replayed"}
                       /\ \E v : Answers(q.key, v) /\ q.after = {v}

ReplayInv ==
    /\ DOMAIN idem = IdempotencyKeys
    /\ \A k \in IdempotencyKeys : idem[k].n \in Nat /\ (Present(idem[k]) => idem[k].ver # Null)
    /\ DOMAIN req = Arrivals
    /\ \A r \in Arrivals : InOrder(req[r])

\* A request that moves on while the stored responses stay.
LEMMA ReplayStep ==
  ASSUME ReplayInv, NEW r \in Arrivals, NEW q, InOrder(q), req' = [req EXCEPT ![r] = q], idem' = idem
  PROVE  ReplayInv'
<1>1. \A k, v : Answers(k, v)' <=> Answers(k, v)
  BY DEF Answers
<1>2. \A s \in Arrivals : InOrder(req'[s])
  BY DEF ReplayInv
<1>3. \A s \in Arrivals : InOrder(req[s])'
  BY <1>1, <1>2 DEF InOrder
<1>. QED
  BY <1>3 DEF ReplayInv

GateInv == RateInv /\ ReplayInv

\* A request that is next to be looked at.
LEMMA GateEnters ==
  ASSUME ReplayInv, NEW r \in Arrivals, NEW i, NEW k \in IdempotencyKeys \cup {NoKey}, NEW pass,
         Enters(r, i, k, pass), idem' = idem
  PROVE  ReplayInv'
<1>. PICK known : known = {v \in {idem[j] : j \in {k} \ {NoKey}} : Present(v)}
  OBVIOUS
<1>. PICK pc : pc = IF pass THEN IF k = NoKey THEN "handler" ELSE "lookup" ELSE "limited"
  OBVIOUS
<1>. PICK n : n = [pc |-> pc, ip |-> i, key |-> k, response |-> NoResponse, after |-> {Value(v) : v \in known}]
  OBVIOUS
<1>1. req' = [req EXCEPT ![r] = n]
  BY DEF Enters
<1>2. /\ DOMAIN n = {"pc", "ip", "key", "response", "after"} /\ n.pc = pc /\ n.key = k
      /\ n.after = {Value(v) : v \in known}
  OBVIOUS
<1>3. pc \in {"handler", "lookup", "limited"} /\ (pc = "lookup" => k # NoKey) /\ (pc = "handler" => k = NoKey)
  OBVIOUS
<1>4. n.after # {} => /\ pc \in {"limited", "lookup"}
                      /\ Answers(k, Value(idem[k])) /\ n.after = {Value(idem[k])}
  BY <1>2, <1>3 DEF Answers
<1>5. InOrder(n)
  BY <1>2, <1>3, <1>4 DEF InOrder, Stations
<1>. QED
  BY <1>1, <1>5, ReplayStep

LEMMA GateStep == GateInv /\ [GateNext]_gateVars => GateInv'
<1>. SUFFICES ASSUME GateInv, [GateNext]_gateVars PROVE GateInv'
  OBVIOUS
<1>i. RateInv /\ ReplayInv
  BY DEF GateInv
<1>s. ASSUME UNCHANGED <<time, bucket, passed>> PROVE RateInv'
  BY <1>i, <1>s DEF RateInv, Charged, Paced, Within
<1>1. CASE UNCHANGED gateVars
  <2>1. \A k, v : Answers(k, v)' <=> Answers(k, v)
    BY <1>1 DEF Answers, gateVars
  <2>2. ReplayInv'
    BY <1>1, <1>i, <2>1 DEF ReplayInv, InOrder, gateVars
  <2>. QED
    BY <1>1, <1>s, <2>2 DEF gateVars, GateInv
<1>2. CASE Tick
  <2>0. time' = time + 1 /\ UNCHANGED <<bucket, idem, req, passed>>
    BY <1>2 DEF Tick
  <2>1. \A k, v : Answers(k, v)' <=> Answers(k, v)
    BY <2>0 DEF Answers
  <2>2. ReplayInv'
    BY <1>i, <2>0, <2>1 DEF ReplayInv, InOrder
  <2>3. time \in Nat /\ time' \in Nat
    BY <1>i, <2>0 DEF RateInv
  <2>4. \A i \in Doors : bucket[i].lastRefill <= time'
    BY <1>i, <2>0, <2>3 DEF RateInv, Charged
  <2>5. RateInv'
    BY <1>i, <2>0, <2>3, <2>4 DEF RateInv
  <2>. QED
    BY <2>2, <2>5 DEF GateInv
<1>7. ASSUME NEW h \in Hosts, IsolateLost(h) PROVE GateInv'
  <2>0. /\ bucket' = [d \in Doors |-> IF d[1] = h THEN NoBucket ELSE bucket[d]]
        /\ passed' = [d \in Doors |-> IF d[1] = h THEN <<>> ELSE passed[d]]
        /\ UNCHANGED <<time, idem, req>>
    BY <1>7 DEF IsolateLost
  <2>1. \A k, v : Answers(k, v)' <=> Answers(k, v)
    BY <2>0 DEF Answers
  <2>2. ReplayInv'
    BY <1>i, <2>0, <2>1 DEF ReplayInv, InOrder
  <2>3. <<>> \in Seq(Nat) /\ Paced(<<>>) /\ Charged(NoBucket, <<>>) /\ NoBucket.lastRefill = 0
    BY FreshBucket
  <2>4. ASSUME NEW d \in Doors
        PROVE  /\ passed'[d] \in Seq(Nat)
               /\ Charged(bucket'[d], passed'[d]) /\ bucket'[d].lastRefill <= time'
               /\ Paced(passed'[d])
    <3>1. CASE d[1] = h
      <4>1. passed'[d] = <<>> /\ bucket'[d] = NoBucket /\ time' \in Nat
        BY <1>i, <2>0, <3>1 DEF RateInv
      <4>. QED
        BY <2>3, <4>1
    <3>2. CASE d[1] # h
      BY <1>i, <2>0, <3>2 DEF RateInv
    <3>. QED
      BY <3>1, <3>2
  <2>5. RateInv'
    BY <1>i, <2>0, <2>4 DEF RateInv
  <2>. QED
    BY <2>2, <2>5 DEF GateInv
<1>. SUFFICES ASSUME NEW r \in Arrivals, Bypass(r) \/ RateLimit(r) \/ Lookup(r) \/ Handle(r) \/ Keep(r)
              PROVE  GateInv'
  BY <1>1, <1>2, <1>7 DEF GateNext
<1>. PICK q : q = req[r]
  OBVIOUS
<1>q. InOrder(q)
  BY <1>i DEF ReplayInv
<1>3. CASE RateLimit(r)
  <2>. PICK d \in Doors, k \in IdempotencyKeys \cup {NoKey} :
         LET b == Refill(bucket[d])
             pass == b.tokens >= Interval
         IN  /\ Limits(d[2]) /\ Enters(r, d[2], k, pass)
             /\ bucket' = [bucket EXCEPT ![d] = IF pass THEN [b EXCEPT !.tokens = @ - Interval] ELSE b]
             /\ passed' = IF pass THEN [passed EXCEPT ![d] = Append(@, time)] ELSE passed
    BY <1>3 DEF RateLimit
  <2>0. time' = time /\ idem' = idem
    BY <1>3 DEF RateLimit
  <2>. PICK b : b = Refill(bucket[d])
    OBVIOUS
  <2>1. RateInv'
    BY <1>i, <2>0, RateStep
  <2>2. ReplayInv'
    BY <1>i, <2>0, GateEnters
  <2>. QED
    BY <2>1, <2>2 DEF GateInv
<1>8. CASE Bypass(r)
  <2>0. UNCHANGED <<time, bucket, idem, passed>>
    BY <1>8 DEF Bypass
  <2>1. ReplayInv'
    BY <1>8, <1>i, <2>0, GateEnters DEF Bypass
  <2>. QED
    BY <1>s, <2>0, <2>1 DEF GateInv
<1>4. CASE Lookup(r)
  <2>. PICK e : e = idem[q.key]
    OBVIOUS
  <2>0. q.pc = "lookup" /\ UNCHANGED <<time, bucket, idem, passed>> /\ q.key \in IdempotencyKeys
    BY <1>4, <1>q DEF Lookup, InOrder
  <2>1. CASE Present(e)
    <3>. PICK n : n = [q EXCEPT !.pc = "replayed", !.response = Value(e)]
      OBVIOUS
    <3>1. req' = [req EXCEPT ![r] = n]
      BY <1>4, <2>1 DEF Lookup
    <3>2. /\ DOMAIN n = {"pc", "ip", "key", "response", "after"} /\ n.pc = "replayed" /\ n.key = q.key
          /\ n.response = Value(e) /\ n.after = q.after
      BY <1>q DEF InOrder
    <3>3. Answers(q.key, Value(e))
      BY <2>0, <2>1 DEF Answers
    <3>4. InOrder(n)
      BY <1>q, <3>2, <3>3 DEF InOrder, Stations
    <3>. QED
      BY <1>i, <1>s, <2>0, <3>1, <3>4, ReplayStep DEF GateInv
  <2>2. CASE ~Present(e)
    <3>. PICK n : n = [q EXCEPT !.pc = "handler"]
      OBVIOUS
    <3>1. req' = [req EXCEPT ![r] = n]
      BY <1>4, <2>2 DEF Lookup
    <3>2. /\ DOMAIN n = {"pc", "ip", "key", "response", "after"} /\ n.pc = "handler" /\ n.key = q.key
          /\ n.after = q.after
      BY <1>q DEF InOrder
    <3>3. q.after = {}
      BY <1>q, <2>2 DEF InOrder, Answers
    <3>4. InOrder(n)
      BY <1>q, <3>2, <3>3 DEF InOrder, Stations
    <3>. QED
      BY <1>i, <1>s, <2>0, <3>1, <3>4, ReplayStep DEF GateInv
  <2>. QED
    BY <2>1, <2>2
<1>5. CASE Handle(r)
  <2>. PICK st \in Statuses :
         req' = [req EXCEPT ![r].pc = IF req[r].key = NoKey \/ st = "5xx" THEN "done" ELSE "store",
                            ![r].response = [status |-> st, by |-> r]]
    BY <1>5 DEF Handle
  <2>. PICK pc : pc = IF q.key = NoKey \/ st = "5xx" THEN "done" ELSE "store"
    OBVIOUS
  <2>. PICK n : n = [q EXCEPT !.pc = pc, !.response = [status |-> st, by |-> r]]
    OBVIOUS
  <2>0. q.pc = "handler" /\ UNCHANGED <<time, bucket, idem, passed>>
    BY <1>5 DEF Handle
  <2>1. req' = [req EXCEPT ![r] = n]
    BY <1>i, <1>q DEF ReplayInv, InOrder
  <2>2. /\ DOMAIN n = {"pc", "ip", "key", "response", "after"} /\ n.pc = pc /\ n.key = q.key
        /\ n.after = q.after
    BY <1>q DEF InOrder
  <2>3. pc \in {"done", "store"} /\ (pc = "store" => q.key # NoKey) /\ q.after = {}
    BY <1>q, <2>0 DEF InOrder
  <2>4. InOrder(n)
    BY <1>q, <2>2, <2>3 DEF InOrder, Stations
  <2>. QED
    BY <1>i, <1>s, <2>0, <2>1, <2>4, ReplayStep DEF GateInv
<1>6. CASE Keep(r)
  <2>. PICK n : n = [q EXCEPT !.pc = "done"]
    OBVIOUS
  <2>. PICK c : c = StoredResponse(idem[q.key], q.response)
    OBVIOUS
  <2>0. /\ q.pc = "store" /\ UNCHANGED <<time, bucket, passed>> /\ q.key \in IdempotencyKeys
        /\ idem' = [idem EXCEPT ![q.key] = c] /\ req' = [req EXCEPT ![r] = n]
    BY <1>6, <1>q DEF Keep, InOrder
  <2>1. /\ DOMAIN n = {"pc", "ip", "key", "response", "after"} /\ n.pc = "done" /\ n.key = q.key
        /\ n.after = q.after /\ q.after = {}
    BY <1>q, <2>0 DEF InOrder
  <2>. PICK d : d = idem[q.key]
    OBVIOUS
  <2>2. d.n \in Nat /\ (Present(d) => d.ver # Null)
    BY <1>i, <2>0 DEF ReplayInv
  <2>3. c = IF d.ver = Null THEN [val |-> <<q.response>>, ver |-> d.n + 1, n |-> d.n + 1] ELSE d
    BY DEF StoredResponse, Put, Stored, Accepts
  <2>4. c.n \in Nat /\ (Present(c) => c.ver # Null) /\ (Present(d) => c = d)
    <3>1. CASE d.ver = Null
      <4>1. c = [val |-> <<q.response>>, ver |-> d.n + 1, n |-> d.n + 1]
        BY <2>3, <3>1
      <4>2. c.n = d.n + 1 /\ c.ver = d.n + 1
        BY <4>1
      <4>. QED
        BY <2>2, <3>1, <4>2 DEF Null
    <3>2. CASE d.ver # Null
      BY <2>2, <2>3, <3>2
    <3>. QED
      BY <3>1, <3>2
  <2>5. idem'[q.key] = c /\ DOMAIN idem' = IdempotencyKeys /\ \A k \in IdempotencyKeys \ {q.key} : idem'[k] = idem[k]
    BY <1>i, <2>0 DEF ReplayInv
  <2>6. \A k, v : Answers(k, v) => Answers(k, v)'
    BY <2>4, <2>5 DEF Answers
  <2>7. InOrder(n)
    BY <1>q, <2>1 DEF InOrder, Stations
  <2>8. DOMAIN req' = Arrivals /\ \A s \in Arrivals : InOrder(req'[s])
    BY <1>i, <2>0, <2>7 DEF ReplayInv
  <2>9. ASSUME NEW s \in Arrivals PROVE InOrder(req[s])'
    <3>1. InOrder(req'[s])
      BY <2>8
    <3>. QED
      BY <2>6, <3>1 DEF InOrder
  <2>10. \A k \in IdempotencyKeys : idem'[k].n \in Nat /\ (Present(idem'[k]) => idem'[k].ver # Null)
    BY <1>i, <2>4, <2>5 DEF ReplayInv
  <2>11. ReplayInv'
    BY <2>5, <2>8, <2>9, <2>10 DEF ReplayInv
  <2>. QED
    BY <1>s, <2>0, <2>11 DEF GateInv
<1>. QED
  BY <1>3, <1>4, <1>5, <1>6, <1>8

\* No isolate lets more of an address through its bucket than the burst and what the
\* bucket regained since the isolate started, however the requests are spread and
\* refused, and all replays of a key are of the response that was stored first,
\* although requests with one key overlap (rateLimit() and idempotency()).
THEOREM GateKept == GateSpec => []GateSound
<1>1. GateInit => GateInv
  <2>. SUFFICES ASSUME GateInit PROVE GateInv
    OBVIOUS
  <2>1. <<>> \in Seq(Nat) /\ Paced(<<>>) /\ Charged(NoBucket, <<>>) /\ NoBucket.lastRefill = 0
    BY FreshBucket
  <2>2. RateInv
    BY <2>1 DEF GateInit, RateInv
  <2>3. InOrder(Waiting)
    BY DEF InOrder, Waiting, Stations
  <2>4. ~Present(Empty) /\ Empty.n \in Nat
    BY DEF Present, Empty, Null
  <2>5. ReplayInv
    BY <2>3, <2>4 DEF GateInit, ReplayInv
  <2>. QED
    BY <2>2, <2>5 DEF GateInv
<1>2. GateInv => GateSound
  <2>. SUFFICES ASSUME GateInv PROVE GateSound
    OBVIOUS
  <2>1. RateBounded
    BY DEF GateInv, RateInv, Paced, RateBounded
  <2>2. \A r \in Arrivals : InOrder(req[r])
    BY DEF GateInv, ReplayInv
  <2>3. ASSUME NEW r \in Arrivals, req[r].after # {}, req[r].pc \in {"replayed", "done", "store", "handler"}
        PROVE  req[r].pc = "replayed" /\ {req[r].response} = req[r].after
    <3>1. PICK v : Answers(req[r].key, v) /\ req[r].after = {v}
      BY <2>2, <2>3 DEF InOrder
    <3>2. req[r].pc = "replayed" /\ Answers(req[r].key, req[r].response)
      BY <2>2, <2>3 DEF InOrder
    <3>. QED
      BY <3>1, <3>2 DEF Answers
  <2>4. ASSUME NEW r \in Arrivals, NEW s \in Arrivals,
               req[r].pc = "replayed", req[s].pc = "replayed", req[r].key = req[s].key
        PROVE  req[r].response = req[s].response
    BY <2>2, <2>4 DEF InOrder, Answers
  <2>. QED
    BY <2>1, <2>3, <2>4 DEF GateSound, ReplaysAgree
<1>. QED
  BY <1>1, <1>2, GateStep, PTL DEF GateSpec

-----------------------------------------------------------------------------
(* The subnet pool: whoever claimed a block or holds it is its recorded     *)
(* tenant until it erases the record itself, and no record is claimed twice. *)

CallShape(q) == DOMAIN q = {"step", "op", "block", "left", "used", "entry"}
Allocating(q) == q.op = "allocate" /\ q.step \in {"getIndex", "setIndex"}
Owns(t, b) == b \in Blocks /\ records[b].val = <<t>>

\* What tenant t relies on, with the call q and the blocks h.
Entitled(t, q, h) ==
    /\ \A b \in h : Owns(t, b)
    /\ Allocating(q) => Owns(t, q.block)
    /\ q.step = "erase" => q.op = "release" /\ Owns(t, q.block) /\ q.block \notin h

PoolInv ==
    /\ DOMAIN caller = Tenants /\ DOMAIN held = Tenants
    /\ records \in [Blocks -> CellsOf(Tenants)]
    /\ \A b \in Blocks : Present(records[b]) => records[b].ver # Null
    /\ \A t \in Tenants : CallShape(caller[t]) /\ Entitled(t, caller[t], held[t])

\* A call that moves on and neither writes a record nor takes or gives a block.
LEMMA PoolQuiet ==
  ASSUME PoolInv, NEW t \in Tenants, NEW q, CallShape(q),
         Allocating(q) => Allocating(caller[t]) /\ q.block = caller[t].block,
         q.step # "erase",
         Becomes(t, q), UNCHANGED <<records, held>>
  PROVE  PoolInv'
<1>1. /\ caller' = [caller EXCEPT ![t] = q] /\ DOMAIN caller' = Tenants
      /\ caller'[t] = q /\ \A u \in Tenants \ {t} : caller'[u] = caller[u]
  BY DEF PoolInv, Becomes
<1>2. ASSUME NEW u \in Tenants PROVE CallShape(caller'[u]) /\ Entitled(u, caller[u], held[u])
  BY <1>1, <1>2 DEF PoolInv
<1>3. \A u, b : Owns(u, b)' <=> Owns(u, b)
  BY DEF Owns
<1>4. ASSUME NEW u \in Tenants PROVE Entitled(u, caller[u], held[u])'
  BY <1>1, <1>2, <1>3 DEF Entitled, Allocating
<1>. QED
  BY <1>1, <1>2, <1>4 DEF PoolInv

\* A call that writes one record, that no other tenant relies on.
LEMMA PoolWrites ==
  ASSUME PoolInv, NEW t \in Tenants, NEW q, CallShape(q), NEW b \in Blocks,
         NEW r \in CellsOf(Tenants), Present(r) => r.ver # Null,
         \A u \in Tenants \ {t} : ~Owns(u, b), b \notin held[t],
         Allocating(q) => q.block = b /\ r.val = <<t>>,
         q.step # "erase",
         Becomes(t, q), records' = [records EXCEPT ![b] = r], held' = held
  PROVE  PoolInv'
<1>1. /\ caller' = [caller EXCEPT ![t] = q] /\ DOMAIN caller' = Tenants
      /\ caller'[t] = q /\ \A u \in Tenants \ {t} : caller'[u] = caller[u]
  BY DEF PoolInv, Becomes
<1>2. /\ records' \in [Blocks -> CellsOf(Tenants)] /\ records'[b] = r
      /\ \A d \in Blocks \ {b} : records'[d] = records[d]
  BY DEF PoolInv
<1>3. \A d \in Blocks : Present(records'[d]) => records'[d].ver # Null
  BY <1>2 DEF PoolInv
<1>4. \A u, d : d # b => (Owns(u, d)' <=> Owns(u, d))
  BY <1>2 DEF Owns
<1>5. ASSUME NEW u \in Tenants \ {t} PROVE Entitled(u, caller[u], held[u])'
  <2>1. Entitled(u, caller[u], held[u]) /\ ~Owns(u, b)
    BY <1>5 DEF PoolInv
  <2>. QED
    BY <1>1, <1>4, <2>1 DEF Entitled
<1>6. Entitled(t, caller[t], held[t])'
  <2>1. Entitled(t, caller[t], held[t])
    BY DEF PoolInv
  <2>2. Allocating(q) => Owns(t, b)'
    BY <1>2 DEF Owns
  <2>. QED
    BY <1>1, <1>4, <2>1, <2>2 DEF Entitled
<1>. QED
  BY <1>1, <1>2, <1>3, <1>5, <1>6 DEF PoolInv

LEMMA PoolStep == PoolInv /\ [PoolNext]_poolVars => PoolInv'
<1>. SUFFICES ASSUME PoolInv, [PoolNext]_poolVars PROVE PoolInv'
  OBVIOUS
<1>0. CASE UNCHANGED poolVars
  BY <1>0 DEF poolVars, PoolInv, Entitled, Owns
<1>. SUFFICES ASSUME NEW t \in Tenants,
         \/ Enquire(t, "allocate") \/ Enquire(t, "status")
         \/ ListIndex(t) \/ ListRecord(t) \/ ListEnds(t) \/ Candidate(t)
         \/ GetIndex(t) \/ SetIndex(t) \/ Release(t) \/ EraseRecord(t)
     PROVE PoolInv'
  BY <1>0 DEF PoolNext
<1>. PICK c : c = caller[t]
  OBVIOUS
<1>a. CallShape(c) /\ Entitled(t, c, held[t])
  BY DEF PoolInv
<1>n. CallShape(NoCall) /\ NoCall.step = "idle" /\ NoCall.op = "none"
  BY DEF CallShape, NoCall
<1>1. ASSUME NEW op, Enquire(t, op) PROVE PoolInv'
  <2>. PICK q : q = [NoCall EXCEPT !.step = "index", !.op = op]
    OBVIOUS
  <2>1. CallShape(q) /\ q.step = "index"
    BY <1>n DEF CallShape
  <2>. QED
    BY <1>1, <2>1, PoolQuiet DEF Enquire, Allocating
<1>2. CASE ListIndex(t)
  <2>. PICK q : q = [c EXCEPT !.step = "records", !.left = Listed(poolIndex)]
    OBVIOUS
  <2>1. CallShape(q) /\ q.step = "records"
    BY <1>a DEF CallShape
  <2>. QED
    BY <1>2, <2>1, PoolQuiet DEF ListIndex, Allocating
<1>3. CASE ListRecord(t)
  <2>. PICK b : b = Head(c.left)
    OBVIOUS
  <2>. PICK q : q = [c EXCEPT !.left = Tail(c.left),
                              !.used = IF Present(records[b]) THEN c.used \cup {b} ELSE c.used]
    OBVIOUS
  <2>1. CallShape(q) /\ q.step = c.step /\ c.step = "records"
    BY <1>3, <1>a DEF CallShape, ListRecord
  <2>2. Becomes(t, q) /\ UNCHANGED <<records, held>>
    BY <1>3 DEF ListRecord
  <2>. QED
    BY <2>1, <2>2, PoolQuiet DEF Allocating
<1>4. CASE ListEnds(t)
  <2>. PICK q : q = [c EXCEPT !.step = "claim", !.block = supernet.ip]
    OBVIOUS
  <2>1. CallShape(q) /\ q.step = "claim"
    BY <1>a DEF CallShape
  <2>2. (Becomes(t, NoCall) \/ Becomes(t, q)) /\ UNCHANGED <<records, held>>
    BY <1>4 DEF ListEnds
  <2>. QED
    BY <1>n, <2>1, <2>2, PoolQuiet DEF Allocating
<1>5. CASE Candidate(t)
  <2>. PICK b : b = c.block
    OBVIOUS
  <2>0. c.step = "claim" /\ held' = held
    BY <1>5 DEF Candidate
  <2>1. CASE Becomes(t, NoCall) /\ UNCHANGED records
    BY <1>n, <2>0, <2>1, PoolQuiet DEF Allocating
  <2>2. CASE Becomes(t, [c EXCEPT !.block = c.block + Step]) /\ UNCHANGED records
    <3>. PICK q : q = [c EXCEPT !.block = c.block + Step]
      OBVIOUS
    <3>1. CallShape(q) /\ q.step = "claim"
      BY <1>a, <2>0 DEF CallShape
    <3>. QED
      BY <2>0, <2>2, <3>1, PoolQuiet DEF Allocating
  <2>3. CASE /\ b \in Blocks /\ Claimed(b, t) # records[b]
             /\ records' = [records EXCEPT ![b] = Claimed(b, t)]
             /\ Becomes(t, [c EXCEPT !.step = "getIndex"])
    <3>. PICK r : r = Claimed(b, t)
      OBVIOUS
    <3>. PICK q : q = [c EXCEPT !.step = "getIndex"]
      OBVIOUS
    <3>1. CallShape(q) /\ q.step = "getIndex" /\ q.op = c.op /\ q.block = b
      BY <1>a DEF CallShape
    <3>2. records[b] \in CellsOf(Tenants)
      BY <2>3 DEF PoolInv
    <3>3. records[b].ver = Null
      BY <2>3, <3>2, WriteCell DEF Claimed
    <3>4. r \in CellsOf(Tenants) /\ r = [val |-> <<t>>, ver |-> records[b].n + 1, n |-> records[b].n + 1]
      BY <3>2, <3>3, WriteCell DEF Claimed
    <3>5. r.val = <<t>> /\ r.ver # Null
      BY <3>2, <3>4, CellFacts DEF Null
    <3>6. records[b].val = <<>>
      BY <2>3, <3>2, <3>3, CellFacts DEF PoolInv
    <3>7. \A u : ~Owns(u, b)
      BY <3>6 DEF Owns
    <3>8. b \notin held[t]
      BY <1>a, <3>7 DEF Entitled
    <3>. QED
      BY <2>0, <2>3, <3>1, <3>4, <3>5, <3>7, <3>8, PoolWrites
  <2>. QED
    BY <1>5, <2>1, <2>2, <2>3 DEF Candidate
<1>6. CASE GetIndex(t)
  <2>. PICK q : q = [c EXCEPT !.step = "setIndex", !.entry = poolIndex]
    OBVIOUS
  <2>1. CallShape(q) /\ q.step = "setIndex" /\ q.op = c.op /\ q.block = c.block /\ c.step = "getIndex"
    BY <1>6, <1>a DEF CallShape, GetIndex
  <2>. QED
    BY <1>6, <2>1, PoolQuiet DEF GetIndex, Allocating
<1>7. CASE SetIndex(t)
  <2>0. c.step = "setIndex" /\ Becomes(t, NoCall) /\ records' = records
    BY <1>7 DEF SetIndex
  <2>1. CASE held' = held
    BY <1>n, <2>0, <2>1, PoolQuiet DEF Allocating
  <2>2. CASE c.op = "allocate" /\ held' = [held EXCEPT ![t] = @ \cup {c.block}]
    <3>1. Owns(t, c.block)
      BY <1>a, <2>0, <2>2 DEF Entitled, Allocating
    <3>2. /\ DOMAIN caller' = Tenants /\ DOMAIN held' = Tenants
          /\ caller'[t] = NoCall /\ held'[t] = held[t] \cup {c.block}
          /\ \A u \in Tenants \ {t} : caller'[u] = caller[u] /\ held'[u] = held[u]
      BY <2>0, <2>2 DEF PoolInv, Becomes
    <3>3. \A u, b : Owns(u, b)' <=> Owns(u, b)
      BY <2>0 DEF Owns
    <3>4. Entitled(t, caller[t], held[t])'
      BY <1>a, <1>n, <3>1, <3>2, <3>3 DEF Entitled, Allocating
    <3>5. ASSUME NEW u \in Tenants \ {t} PROVE CallShape(caller'[u]) /\ Entitled(u, caller[u], held[u])'
      <4>1. CallShape(caller[u]) /\ Entitled(u, caller[u], held[u])
        BY <3>5 DEF PoolInv
      <4>. QED
        BY <3>2, <3>3, <4>1 DEF Entitled
    <3>6. records' \in [Blocks -> CellsOf(Tenants)] /\ \A b \in Blocks : Present(records'[b]) => records'[b].ver # Null
      BY <2>0 DEF PoolInv
    <3>. QED
      BY <1>n, <3>2, <3>4, <3>5, <3>6 DEF PoolInv
  <2>. QED
    BY <1>7, <2>1, <2>2 DEF SetIndex
<1>8. ASSUME Release(t) PROVE PoolInv'
  <2>. PICK b \in held[t] :
          /\ held' = [held EXCEPT ![t] = @ \ {b}]
          /\ Becomes(t, IF Present(records[b])
                        THEN [NoCall EXCEPT !.step = "erase", !.op = "release",
                                            !.block = b, !.entry = records[b]]
                        ELSE NoCall)
    BY <1>8 DEF Release
  <2>. PICK q : q = IF Present(records[b])
                    THEN [NoCall EXCEPT !.step = "erase", !.op = "release",
                                        !.block = b, !.entry = records[b]]
                    ELSE NoCall
    OBVIOUS
  <2>1. CallShape(q) /\ q.step \in {"idle", "erase"} /\ (q.step = "erase" => q.op = "release" /\ q.block = b)
    BY <1>n DEF CallShape
  <2>2. /\ DOMAIN caller' = Tenants /\ DOMAIN held' = Tenants
        /\ caller'[t] = q /\ held'[t] = held[t] \ {b}
        /\ \A u \in Tenants \ {t} : caller'[u] = caller[u] /\ held'[u] = held[u]
    BY DEF PoolInv, Becomes
  <2>3. records' = records /\ \A u, d : Owns(u, d)' <=> Owns(u, d)
    BY <1>8 DEF Owns, Release
  <2>4. Entitled(t, caller[t], held[t])'
    BY <1>a, <2>1, <2>2, <2>3 DEF Entitled, Allocating
  <2>5. ASSUME NEW u \in Tenants \ {t} PROVE CallShape(caller'[u]) /\ Entitled(u, caller[u], held[u])'
    <3>1. CallShape(caller[u]) /\ Entitled(u, caller[u], held[u])
      BY <2>5 DEF PoolInv
    <3>. QED
      BY <2>2, <2>3, <3>1 DEF Entitled
  <2>6. records' \in [Blocks -> CellsOf(Tenants)] /\ \A d \in Blocks : Present(records'[d]) => records'[d].ver # Null
    BY <2>3 DEF PoolInv
  <2>. QED
    BY <2>1, <2>2, <2>4, <2>5, <2>6 DEF PoolInv
<1>9. CASE EraseRecord(t)
  <2>. PICK b : b = c.block
    OBVIOUS
  <2>. PICK r : r = Erase(records[b], Version(c.entry))
    OBVIOUS
  <2>. PICK q : q = [c EXCEPT !.step = "getIndex"]
    OBVIOUS
  <2>0. Becomes(t, q) /\ records' = [records EXCEPT ![b] = r] /\ held' = held /\ c.step = "erase"
    BY <1>9 DEF EraseRecord
  <2>1. CallShape(q) /\ q.step = "getIndex" /\ q.op = c.op
    BY <1>a DEF CallShape
  <2>2. c.op = "release" /\ Owns(t, b) /\ b \notin held[t]
    BY <1>a, <2>0 DEF Entitled
  <2>3. records[b] \in CellsOf(Tenants) /\ b \in Blocks /\ records[b].val = <<t>>
    BY <2>2 DEF PoolInv, Owns
  <2>4. \A u \in Tenants \ {t} : ~Owns(u, b)
    BY <2>3 DEF Owns
  <2>5. r \in CellsOf(Tenants) /\ (r = records[b] \/ r.val = <<>>)
    <3>. PICK w, d : w = Version(c.entry) /\ d = records[b]
      OBVIOUS
    <3>1. d \in CellsOf(Tenants)
      BY <2>3
    <3>2. r = IF d.ver = w THEN [val |-> <<>>, ver |-> d.n + 1, n |-> d.n + 1] ELSE d
      BY DEF Erase, Stored, Accepts
    <3>. QED
      BY <3>1, <3>2 DEF CellsOf
  <2>6. Present(r) => r.ver # Null
    BY <2>3, <2>5 DEF PoolInv, Present
  <2>. QED
    BY <2>0, <2>1, <2>2, <2>3, <2>4, <2>5, <2>6, PoolWrites DEF Allocating
<1>. QED
  BY <1>1, <1>2, <1>3, <1>4, <1>5, <1>6, <1>7, <1>8, <1>9

\* No two tenants are given one block, and the record names its tenant until that
\* tenant releases it, although the index the pool looks at loses entries:
\* allocate() and release(), which overlap in any way (pool.ts).
THEOREM BlocksKept == PoolSpec => []OneTenant
<1>1. PoolInit => PoolInv
  <2>. SUFFICES ASSUME PoolInit PROVE PoolInv
    OBVIOUS
  <2>1. Empty \in CellsOf(Tenants) /\ ~Present(Empty)
    BY DEF CellsOf, Empty, Null, Present
  <2>2. CallShape(NoCall) /\ \A t \in Tenants : Entitled(t, NoCall, {})
    BY DEF CallShape, NoCall, Entitled, Allocating
  <2>. QED
    BY <2>1, <2>2 DEF PoolInit, PoolInv
<1>2. PoolInv => OneTenant
  <2>. SUFFICES ASSUME PoolInv, NEW t \in Tenants, NEW b \in held[t]
                PROVE  Present(records[b]) /\ Value(records[b]) = t
    BY DEF OneTenant
  <2>1. records[b].val = <<t>>
    BY DEF PoolInv, Entitled, Owns
  <2>. QED
    BY <2>1 DEF Present, Value
<1>. QED
  BY <1>1, <1>2, PoolStep, PTL DEF PoolSpec
=============================================================================
