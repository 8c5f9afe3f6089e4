-------------------------- MODULE ItemsProperties ---------------------------
(* What must hold of Items.                                                *)
EXTENDS Items

DrawNumber == 1 .. MaxDraws

KeyPair == [owner : User, gen : Nat \ {0}]

Wrap ==
  [recipient : KeyPair,
   env : [v : {1}, to : KeyPair, pt : DrawNumber]]

ItemOK(item) ==
  /\ item = [v |-> 1, ct |-> item.ct, wraps |-> item.wraps]
  /\ item.ct \in [key : DrawNumber, pt : DrawNumber]
  /\ item.wraps \in Seq(Wrap)

\* An item not stored yet is told from an item, and from what it stands for.
ASSUME NoneIsNoItem ==
  /\ None \notin [v : {1}, ct : [key : DrawNumber, pt : DrawNumber], wraps : Seq(Wrap)]
  /\ None \notin [value : DrawNumber, readers : SUBSET User]

\* Type invariant.
TypeOK ==
  /\ store = [i \in Item |-> store[i]]
  /\ \A i \in Item : store[i] = None \/ ItemOK(store[i])
  /\ job = [u \in User |-> job[u]]
  /\ \A u \in User : job[u] # None =>
       /\ job[u] = [item |-> job[u].item, out |-> job[u].out, read |-> job[u].read]
       /\ job[u].item \in Item
       /\ ItemOK(job[u].out)
  /\ generation \in [User -> Nat \ {0}]
  /\ draws \in 0 .. MaxDraws
  /\ calls \in 0 .. MaxCalls
  /\ recovered \in [User -> SUBSET DrawNumber]
  /\ past \subseteq DrawNumber

-----------------------------------------------------------------------------
\* Every recipient an item lists can decrypt it, whatever grants, writes and
\* re-encryptions raced to make it: the first wrap found for a key opens with
\* that key and holds the data key of the very ciphertext stored with it.
ReadersCanRead ==
  \A i \in Item : store[i] # None =>
    \A k \in DOMAIN store[i].wraps :
      CanDecrypt(store[i], store[i].wraps[k].recipient)

\* On a checking server, a user that is no reader of an item has never held the
\* data key its present ciphertext is under: taking access away by re-encrypting
\* without a reader is not undone by a grant or a migration computed before.
FormerReadersAreShutOut ==
  checked =>
    \A i \in Item, u \in User :
      store[i] # None /\ store[i].ct.key \in recovered[u] => u \in Readers(store[i])

\* After a rotation every item is brought to the new identity, whatever other
\* users write meanwhile, and whichever public key they had read.
RotationCompletes ==
  \A u \in User, i \in Item : checked /\ ListsRetired(u, i) ~> ~ListsRetired(u, i)

\* Neither a stored nor a pending item lists a replaced key of u.
Migrated(u) ==
  /\ \A i \in Item : ~ListsRetired(u, i)
  /\ \A w \in User : job[w] # None =>
       \A k \in DOMAIN job[w].out.wraps : job[w].out.wraps[k].recipient \notin Retired(u)

\* When the old secret of a rotated identity may go ("until then old blobs still
\* need the old secret", flows.rs:293): once no item stored or on its way to the
\* server lists a replaced key, none will again before the next rotation,
\* whoever writes, grants or re-encrypts.
MigrationIsFinal ==
  [][\A u \in User :
       Migrated(u) /\ generation'[u] = generation[u] => Migrated(u)']_vars

\* One value and one set of readers per item.  A server that takes every upload
\* is held to nothing.
Content ==
  [i \in Item |->
     IF ~checked \/ store[i] = None THEN None
     ELSE [value |-> store[i].ct.pt, readers |-> Readers(store[i])]]

Written == IF checked THEN past ELSE {}

Abstract ==
  INSTANCE SharedItems WITH content <- Content, written <- Written, Value <- DrawNumber

\* With a checking server an accepted upload is one write or one sharing of
\* the item as it is at that moment; rotations, migrations, refusals and
\* crashes change neither its value nor who can read it.
ImplementsSharedItems == Abstract!Spec
=============================================================================
