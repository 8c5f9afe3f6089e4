------------------------------- MODULE Items --------------------------------
(***************************************************************************)
(* Encrypted items shared between users: src/item.rs over the envelopes of *)
(* src/envelope.rs, the item flows of src/flows.rs, and the re-encryption  *)
(* that rotate_identity leaves to its caller.                              *)
(*                                                                         *)
(* As in Vault, the core keeps no state: a call computes a whole new item  *)
(* from the one the caller read, and the caller stores it later.  Between  *)
(* the two, other users store theirs.  Nothing here is merged: the item    *)
(* that arrives replaces the item that was there.                          *)
(*                                                                         *)
(* A key pair is named by its owner and its generation, a data key and a   *)
(* value by the draw that made it.  A user keeps the secret of a replaced  *)
(* identity, as rotate_identity asks of its caller ("until then old blobs  *)
(* still need the old secret").                                            *)
(***************************************************************************)
EXTENDS Naturals, Sequences, SequencesExt

CONSTANTS
  None,       \* an item not stored yet, no upload pending
  User,
  Item,
  MaxWraps,   \* bound: recipients of one item
  MaxCalls,   \* bound: writes of new values, rotations and crashes
  MaxDraws    \* bound: calls of encrypt_item

ASSUME ItemsAssumption ==
  /\ None \notin User
  /\ MaxWraps \in Nat /\ MaxCalls \in Nat /\ MaxDraws \in Nat

VARIABLES
  checked,     \* TRUE: the server refuses an item that changed since it was read
  store,       \* the stored items
  job,         \* per user: the item it computed and is to store, or None
  generation,  \* per user: how many identities it has had; the last is registered
  draws,       \* how often encrypt_item has run
  calls,       \* how many writes, rotations and crashes there were
  recovered,   \* history: per user, the data keys it has been able to unwrap
  past         \* history: the values that have been stored

vars == <<checked, store, job, generation, draws, calls, recovered, past>>

-----------------------------------------------------------------------------
(* Identities and envelopes.                                               *)

\* The key pair a user registers now, and all it has the secret of.
Registered(u) == [owner |-> u, gen |-> generation[u]]

Secrets(u) == {[owner |-> u, gen |-> g] : g \in 1 .. generation[u]}

\* Sealed to a public key: only the matching secret opens it (a decapsulation
\* with another secret does not fail, it yields a key the AEAD then rejects).
SealTo(recipient, dek) == [v |-> 1, to |-> recipient, pt |-> dek]

OpensWith(secret, env) == env.v = 1 /\ env.to = secret

-----------------------------------------------------------------------------
(* Encrypted items.                                                        *)

WrapDek(pk, dek) == [recipient |-> pk, env |-> SealTo(pk, dek)]

\* Mutant: leaves the version out.
EncryptItemUnversioned(value, dek, recipients) ==
  [v |-> 0,
   ct |-> [key |-> dek, pt |-> value],
   wraps |-> [k \in DOMAIN recipients |-> WrapDek(recipients[k], dek)]]

\* One ciphertext under one data key, and a wrap of it per recipient, in the
\* caller's order and with the caller's repetitions.
EncryptItem(value, dek, recipients) ==
  [v |-> 1,
   ct |-> [key |-> dek, pt |-> value],
   wraps |-> [k \in DOMAIN recipients |-> WrapDek(recipients[k], dek)]]

\* Mutant: looks at the first wrap only.
FirstWrapAtHead(item, pk) == IF item.wraps[1].recipient = pk THEN 1 ELSE 0

\* The position of the first wrap for this public key, 0 if there is none.
FirstWrap(item, pk) ==
  SelectInSeq(item.wraps, LAMBDA w : w.recipient = pk)

CanRecover(item, id) ==
  /\ item.v = 1
  /\ FirstWrap(item, id) # 0
  /\ OpensWith(id, item.wraps[FirstWrap(item, id)].env)

RecoverDek(item, id) == item.wraps[FirstWrap(item, id)].env.pt

CanDecrypt(item, id) ==
  CanRecover(item, id) /\ RecoverDek(item, id) = item.ct.key

\* Mutant: leaves only the new wrap.
GrantItemReplaces(item, opener, pk) ==
  [item EXCEPT !.wraps = <<WrapDek(pk, RecoverDek(item, opener))>>]

\* The data key, recovered with the opener's secret, wrapped for one more.
GrantItem(item, opener, pk) ==
  [item EXCEPT !.wraps = Append(@, WrapDek(pk, RecoverDek(item, opener)))]

\* The users that can read an item with some secret they have.
Readers(item) == {u \in User : \E id \in Secrets(u) : CanDecrypt(item, id)}

-----------------------------------------------------------------------------
Init ==
  /\ checked \in BOOLEAN
  /\ store = [i \in Item |-> None]
  /\ job = [u \in User |-> None]
  /\ generation = [u \in User |-> 1]
  /\ draws = 0
  /\ calls = 0
  /\ recovered = [u \in User |-> {}]
  /\ past = {}

Idle(u) == job[u] = None

Fresh == draws + 1

\* The user keeps the item it computed, and what it had read.
Pending(u, i, item) ==
  /\ Idle(u)
  /\ job' = [job EXCEPT ![u] = [item |-> i, out |-> item, read |-> store[i]]]
  /\ UNCHANGED <<store, generation, recovered, past>>

Call ==
  /\ calls < MaxCalls
  /\ calls' = calls + 1

Encrypt(u, i, value, recipients) ==
  /\ recipients # <<>>
  /\ draws < MaxDraws
  /\ draws' = Fresh
  /\ Pending(u, i, EncryptItem(value, Fresh, recipients))

\* Mutant: keeps the data key an item has.
PutSameDek(u, i, readers) ==
  /\ Call
  /\ draws < MaxDraws
  /\ draws' = Fresh
  /\ Pending(u, i, EncryptItem(Fresh,
       IF store[i] = None THEN Fresh ELSE store[i].ct.key,
       [k \in DOMAIN readers |-> Registered(readers[k])]))

\* Mutant: remembers the first key each recipient registered.
PutCachedKeys(u, i, readers) ==
  /\ Call
  /\ Encrypt(u, i, Fresh, [k \in DOMAIN readers |-> [owner |-> readers[k], gen |-> 1]])

\* A new value for recipients whose registered keys were just read.
Put(u, i, readers) ==
  /\ Call
  /\ Encrypt(u, i, Fresh, [k \in DOMAIN readers |-> Registered(readers[k])])

\* Mutant: wraps a new data key, not the one the ciphertext is under.
GrantFreshDek(u, i, with) ==
  /\ store[i] # None
  /\ Len(store[i].wraps) < MaxWraps
  /\ \E id \in Secrets(u) :
       /\ CanRecover(store[i], id)
       /\ Pending(u, i, [store[i] EXCEPT
            !.wraps = Append(@, WrapDek(Registered(with), Fresh))])
  /\ UNCHANGED <<draws, calls>>

Grant(u, i, with) ==
  /\ store[i] # None
  /\ Len(store[i].wraps) < MaxWraps
  /\ \E id \in Secrets(u) :
       /\ CanRecover(store[i], id)
       /\ Pending(u, i, GrantItem(store[i], id, Registered(with)))
  /\ UNCHANGED <<draws, calls>>

\* rotate_identity, stored: a new key pair is registered.
Rotate(u) ==
  /\ Call
  /\ generation' = [generation EXCEPT ![u] = @ + 1]
  /\ UNCHANGED <<store, job, draws, recovered, past>>

\* Keys of u that are registered no more.
Retired(u) == Secrets(u) \ {Registered(u)}

ListsRetired(u, i) ==
  /\ store[i] # None
  /\ \E k \in DOMAIN store[i].wraps : store[i].wraps[k].recipient \in Retired(u)

\* The recipients of an item, the keys of u brought up to date.
Renewed(u, wraps) ==
  [k \in DOMAIN wraps |->
     IF wraps[k].recipient \in Retired(u) THEN Registered(u)
                                          ELSE wraps[k].recipient]

\* "The caller must re-encrypt every item to the new public identity":
\* decrypt_item with an old secret, then encrypt_item.
Reseal(u, i) ==
  /\ ListsRetired(u, i)
  /\ u \in Readers(store[i])
  /\ Encrypt(u, i, store[i].ct.pt, Renewed(u, store[i].wraps))
  /\ UNCHANGED calls

-----------------------------------------------------------------------------
(* The world around the core (external).                                   *)

\* Which kind of server there is stays the same.
Accepts(j) == checked => store[j.item] = j.read

\* The upload arrives; its acknowledgement may be lost, and it is repeated.
Store(u) ==
  /\ ~Idle(u)
  /\ Accepts(job[u])
  /\ store' = [store EXCEPT ![job[u].item] = job[u].out]
  /\ past' = past \cup {job[u].out.ct.pt}
  /\ recovered' = [r \in User |->
       IF r \in Readers(job[u].out) THEN recovered[r] \cup {job[u].out.ct.key}
                                    ELSE recovered[r]]
  /\ job' \in {job, [job EXCEPT ![u] = None]}
  /\ UNCHANGED <<generation, draws, calls>>

Refuse(u) ==
  /\ ~Idle(u)
  /\ ~Accepts(job[u])
  /\ job' = [job EXCEPT ![u] = None]
  /\ UNCHANGED <<store, generation, draws, calls, recovered, past>>

\* The computed item is lost; the secrets of the user are not.
Crash(u) ==
  /\ ~Idle(u)
  /\ Call
  /\ job' = [job EXCEPT ![u] = None]
  /\ UNCHANGED <<store, generation, draws, recovered, past>>

-----------------------------------------------------------------------------
\* Lists of recipients, possibly with a repetition.
Recipients == [1 .. 1 -> User] \cup [1 .. 2 -> User]

Resealing(u) == \E i \in Item : Reseal(u, i)

Answer(u) == Store(u) \/ Refuse(u)

Step(u) ==
  \/ \E i \in Item, readers \in Recipients : Put(u, i, readers)
  \/ \E i \in Item, with \in User : Grant(u, i, with)
  \/ Rotate(u)
  \/ Resealing(u)
  \/ Answer(u)
  \/ Crash(u)

Next == UNCHANGED checked /\ \E u \in User : Step(u)

Spec == Init /\ [][Next]_vars

\* With a checking server, a user that has rotated goes on re-encrypting, and an
\* upload is answered.
Checking(action) == checked /\ UNCHANGED checked /\ action

Fairness ==
  \A u \in User : WF_vars(Checking(Resealing(u))) /\ WF_vars(Checking(Answer(u)))

FairSpec == Spec /\ Fairness
=============================================================================
