------------------------------ MODULE Secrets ------------------------------
(***************************************************************************)
(* What is done to secret values between the API and the store: the        *)
(* credentials of platforms, the secrets of workflows and of containers,   *)
(* the keyring of a user, and the providers that sign with a credential.   *)
(* EntityServices has the compare-and-set of these services; here each of  *)
(* their calls is one step, except the creation of a key pair.             *)
(*                                                                         *)
(* A value is its text with the layers of encryption around it, outermost  *)
(* first: Aes of the master key, or the number of the key pair it is       *)
(* sealed to.                                                              *)
(***************************************************************************)
EXTENDS Naturals, Sequences, FiniteSets, Cells

CONSTANTS
    Texts,          \* secret texts
    Ids,            \* container secrets, all sealed for one user
    Isolates,       \* Workers that sign requests
    MaxKeys,        \* bound: key pairs generated
    MaxChanges      \* bound: writes of values

VARIABLES
    master,     \* SECRET_MASTER_KEY is configured
    credential, \* cred:<id>, an access key with its secret
    workflow,   \* action-secret:<id>
    container,  \* ctsecret:<id>, per id: [sealed, value]
    keyring,    \* user:keyring:<user>: the key pair
    sealing,    \* ids whose create() found no key pair
    keys,       \* key pairs generated
    cached,     \* AkSkProvider of the access key, per isolate: the secret
    put,        \* what the clients last put in; of a workflow secret, what was
                \* put in when there was none
    changes

vars == <<master, credential, workflow, container, keyring, sealing, keys,
          cached, put, changes>>

-----------------------------------------------------------------------------
Aes == 0
Plain(t) == [text |-> t, layers |-> <<>>]
Wrapped(v, layer) == [v EXCEPT !.layers = <<layer>> \o @]
Outermost(v, layer) == v.layers # <<>> /\ Head(v.layers) = layer
Unwrapped(v) == [v EXCEPT !.layers = Tail(@)]

\* Nothing to do without a master key; an unencrypted value passes through.
encrypt(v) == IF master THEN Wrapped(v, Aes) ELSE v
decrypt(v) == IF master /\ Outermost(v, Aes) THEN Unwrapped(v) ELSE v

seal(key, v) == Wrapped(v, key)
Opens(key, v) == Outermost(v, key)          \* open() throws when not

Change == changes < MaxChanges /\ changes' = changes + 1

-----------------------------------------------------------------------------
(* CredentialService and WorkflowSecretService.                            *)

\* Mutant: what is stored is encrypted once more.
MergedBlind(value) == value

Merged(value) == decrypt(value)

CredentialCreate(t) ==
    /\ credential = Empty /\ Change
    /\ credential' = Put(credential, Null, encrypt(Plain(t)))
    /\ put' = [put EXCEPT !.credential = t]
    /\ UNCHANGED <<master, workflow, container, keyring, sealing, keys, cached>>

\* The entity is decrypted, merged with the input and encrypted again.
CredentialUpdate(new) ==
    /\ Present(credential) /\ Change
    /\ credential' = Put(credential, Version(credential),
           encrypt(IF new = {} THEN Merged(Value(credential))
                   ELSE Plain(CHOOSE t \in new : TRUE)))
    /\ put' = [put EXCEPT !.credential = IF new = {} THEN @
                                         ELSE CHOOSE t \in new : TRUE]
    /\ UNCHANGED <<master, workflow, container, keyring, sealing, keys, cached>>

\* A secret carries a version of its own (generateVersionId), which is none that
\* the store gave for its key.
OwnVersion(c) == c.n + 1

\* set() of a key that has a secret compares with the secret's own version and
\* does not look at the outcome: it answers with the new text and stores nothing.
ReplaceVersion(c) == IF Present(c) THEN OwnVersion(c) ELSE Null

WorkflowSet(t) ==
    /\ Change
    /\ workflow' = Put(workflow, ReplaceVersion(workflow), encrypt(Plain(t)))
    /\ put' = [put EXCEPT !.workflow = IF Present(workflow) THEN @ ELSE t]
    /\ UNCHANGED <<master, credential, container, keyring, sealing, keys, cached>>

\* delete(): the next set() of the key makes a secret anew, under another id.
WorkflowDelete ==
    /\ Present(workflow)
    /\ workflow' = Empty
    /\ UNCHANGED <<master, credential, container, keyring, sealing, keys, cached, put, changes>>

-----------------------------------------------------------------------------
(* ContainerSecretService with the UserKeyring.                            *)

Stores(id, sealed, v) ==
    container' = [container EXCEPT ![id] =
                     Put(@, Version(@), [sealed |-> sealed, value |-> v])]

\* #encryptFields leaves a sealed secret alone.
encryptFields(sealed, v) == IF sealed THEN v ELSE encrypt(v)

\* create() of an inline value: encrypted, and then with the entity again.
CreateInline(id, t) ==
    /\ container[id] = Empty /\ id \notin sealing /\ Change
    /\ Stores(id, FALSE, encryptFields(FALSE, encrypt(Plain(t))))
    /\ put' = [put EXCEPT !.container[id] = t]
    /\ UNCHANGED <<master, credential, workflow, keyring, sealing, keys, cached>>

\* ensureSealedBox() finds a key pair, or goes on to generate one.
CreateSealed(id, t) ==
    /\ container[id] = Empty /\ id \notin sealing /\ Change
    /\ put' = [put EXCEPT !.container[id] = t]
    /\ IF Present(keyring)
       THEN /\ Stores(id, TRUE, seal(Value(keyring), Plain(t)))
            /\ UNCHANGED sealing
       ELSE /\ sealing' = sealing \cup {id}
            /\ UNCHANGED container
    /\ UNCHANGED <<master, credential, workflow, keyring, keys, cached>>

\* The pair is returned whether or not the keyring took it.
GenerateKey(id) ==
    /\ id \in sealing /\ keys < MaxKeys
    /\ keys' = keys + 1
    /\ keyring' = Put(keyring, Null, keys + 1)
    /\ Stores(id, TRUE, seal(keys + 1, Plain(put.container[id])))
    /\ sealing' = sealing \ {id}
    /\ UNCHANGED <<master, credential, workflow, cached, put, changes>>

\* What get() and resolveData() return, if they do not throw.
Read(id) ==
    LET e == Value(container[id])
    IN  IF ~e.sealed THEN {decrypt(e.value)}
        ELSE IF Present(keyring) /\ Opens(Value(keyring), e.value)
        THEN {Unwrapped(e.value)} ELSE {}

\* update() reads as get() does when there is a master key, and stores what it
\* read or the new value as #encryptFields has it.
ContainerUpdate(id, new) ==
    /\ Present(container[id]) /\ Change
    /\ LET e == Value(container[id])
           read == IF master THEN Read(id) ELSE {e.value}
       IN  \E v \in read :
              Stores(id, e.sealed,
                     encryptFields(e.sealed,
                         IF new = {} THEN v ELSE Plain(CHOOSE t \in new : TRUE)))
    /\ put' = [put EXCEPT !.container[id] = IF new = {} THEN @
                                            ELSE CHOOSE t \in new : TRUE]
    /\ UNCHANGED <<master, credential, workflow, keyring, sealing, keys, cached>>

\* uploadBlob() encrypts what is stored without having decrypted it.
ContainerUpload(id) ==
    /\ Present(container[id]) /\ Change
    /\ LET e == Value(container[id])
       IN  Stores(id, e.sealed, encryptFields(e.sealed, e.value))
    /\ UNCHANGED <<master, credential, workflow, keyring, sealing, keys, cached,
                   put>>

-----------------------------------------------------------------------------
(* A request to the platform: the credential is read, and the provider of  *)
(* its access key, kept for the life of the isolate, signs.                *)

getOrCreate(i, secret) == IF cached[i] = {} THEN {secret} ELSE cached[i]

Sign(i) ==
    /\ Present(credential)
    /\ cached' = [cached EXCEPT ![i] = getOrCreate(i, decrypt(Value(credential)))]
    /\ UNCHANGED <<master, credential, workflow, container, keyring, sealing,
                   keys, put, changes>>

\* The isolate is replaced: its cache starts again.
Recycle(i) ==
    /\ cached[i] # {}
    /\ cached' = [cached EXCEPT ![i] = {}]
    /\ UNCHANGED <<master, credential, workflow, container, keyring, sealing,
                   keys, put, changes>>

Init ==
    /\ master \in BOOLEAN
    /\ credential = Empty
    /\ workflow = Empty
    /\ container = [id \in Ids |-> Empty]
    /\ keyring = Empty
    /\ sealing = {}
    /\ keys = 0
    /\ cached = [i \in Isolates |-> {}]
    /\ LET t == CHOOSE t \in Texts : TRUE
       IN  put = [credential |-> t, workflow |-> t, container |-> [id \in Ids |-> t]]
    /\ changes = 0

AtMostOne(S) == {{}} \cup {{s} : s \in S}

Next ==
    \/ \E t \in Texts :
          \/ CredentialCreate(t) \/ WorkflowSet(t)
          \/ \E id \in Ids : CreateInline(id, t) \/ CreateSealed(id, t)
    \/ \E new \in AtMostOne(Texts) :
          CredentialUpdate(new) \/ \E id \in Ids : ContainerUpdate(id, new)
    \/ WorkflowDelete
    \/ \E id \in Ids : GenerateKey(id) \/ ContainerUpload(id)
    \/ \E i \in Isolates : Sign(i) \/ Recycle(i)

Spec == Init /\ [][Next]_vars

-----------------------------------------------------------------------------
\* Credentials read back as they were last put in after any sequence of updates,
\* and lie encrypted when there is a master key; so do the inline container secrets
\* where there is none.  A workflow secret reads back as it was first put in, until
\* it is deleted: what set() answers for a key that has one is not what get() then
\* returns.  No isolate signs requests with anything but a secret in the clear.
SecretsReadBack ==
    /\ \A i \in Isolates : cached[i] \subseteq {Plain(t) : t \in Texts}
    /\ Present(credential) =>
          /\ decrypt(Value(credential)) = Plain(put.credential)
          /\ master => Value(credential).layers # <<>>
    /\ Present(workflow) =>
          /\ decrypt(Value(workflow)) = Plain(put.workflow)
          /\ master => Value(workflow).layers # <<>>
    /\ \A id \in Ids :
          Present(container[id]) /\ ~Value(container[id]).sealed /\ ~master
              => Read(id) = {Plain(put.container[id])}
=============================================================================
