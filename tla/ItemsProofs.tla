---------------------------- MODULE ItemsProofs -----------------------------
(***************************************************************************)
(* Theorems about Items, for any users, items and bounds and for either    *)
(* kind of server.                                                         *)
(***************************************************************************)
EXTENDS ItemsProperties, SequenceTheorems, WellFoundedInduction, TLAPS

\* Every wrap of the item is for the key it names and holds the data key of the
\* item's own ciphertext.
Coherent(item) ==
  \A k \in DOMAIN item.wraps :
    item.wraps[k] = WrapDek(item.wraps[k].recipient, item.ct.key)

\* The inductive invariant: what is stored, and what is yet to be stored, is
\* coherent.
Inv ==
  /\ TypeOK
  /\ \A i \in Item : store[i] # None => Coherent(store[i])
  /\ \A u \in User : job[u] # None => Coherent(job[u].out)

-----------------------------------------------------------------------------
(* The operators of an item.                                               *)

\* A non-empty set of positions has a first one.
LEMMA SmallestPosition ==
  ASSUME NEW T \in SUBSET Nat, T # {}
  PROVE  \E x \in T : \A y \in T : x <= y
<1>1. \E x \in T : \A y \in T : ~(<<y, x>> \in OpToRel(<, Nat))
  BY NatLessThanWellFounded, WFMin
<1>2. PICK x \in T : \A y \in T : ~(<<y, x>> \in OpToRel(<, Nat))
  BY <1>1
<1>3. \A y \in T : ~(y < x)
  BY <1>2 DEF OpToRel
<1>4. \A y \in T : y \in Nat
  OBVIOUS
<1> QED
  BY <1>3, <1>4

\* find() returns a wrap for the key it was asked for, if there is one.
LEMMA FirstWrapFinds ==
  ASSUME NEW item, NEW n \in Nat, DOMAIN item.wraps = 1 .. n, Len(item.wraps) = n, NEW pk
  PROVE  /\ FirstWrap(item, pk) # 0 =>
              /\ FirstWrap(item, pk) \in DOMAIN item.wraps
              /\ item.wraps[FirstWrap(item, pk)].recipient = pk
         /\ (\E k \in DOMAIN item.wraps : item.wraps[k].recipient = pk) =>
              FirstWrap(item, pk) # 0
<1> DEFINE I == {k \in 1 .. n : item.wraps[k].recipient = pk}
<1>1. FirstWrap(item, pk) = IF I # {} THEN Min(I) ELSE 0
  BY DEF FirstWrap, SelectInSeq
<1>2. CASE I = {}
  BY <1>1, <1>2
<1>3. CASE I # {}
  <2> I \in SUBSET Nat
    OBVIOUS
  <2> HIDE DEF I
  <2>1. \E x \in I : \A y \in I : x <= y
    BY <1>3, SmallestPosition
  <2>2. Min(I) \in I
    BY <2>1 DEF Min
  <2> QED
    BY <1>1, <1>3, <2>2 DEF I
<1> QED
  BY <1>2, <1>3

\* encrypt_item writes one well-formed wrap per recipient.
LEMMA WrapsAreASequence ==
  ASSUME NEW item, ItemOK(item)
  PROVE  /\ Len(item.wraps) \in Nat
         /\ DOMAIN item.wraps = 1 .. Len(item.wraps)
         /\ \A k \in DOMAIN item.wraps : item.wraps[k] \in Wrap
  BY DEF ItemOK

\* encrypt_item makes a coherent item.
LEMMA EncryptedItem ==
  ASSUME NEW value \in DrawNumber, NEW dek \in DrawNumber, NEW recipients \in Seq(KeyPair)
  PROVE  /\ ItemOK(EncryptItem(value, dek, recipients))
         /\ Coherent(EncryptItem(value, dek, recipients))
<1> DEFINE wraps == [k \in DOMAIN recipients |-> WrapDek(recipients[k], dek)]
           ct == [key |-> dek, pt |-> value]
<1>1. \A pk \in KeyPair : WrapDek(pk, dek) \in Wrap /\ WrapDek(pk, dek).recipient = pk
  BY DEF WrapDek, SealTo, Wrap
<1>2. wraps \in Seq(Wrap)
  BY <1>1, IsASeq
<1>3. \A k \in DOMAIN wraps : wraps[k] = WrapDek(wraps[k].recipient, dek)
  BY <1>1
<1>4. ct \in [key : DrawNumber, pt : DrawNumber] /\ ct.key = dek
  OBVIOUS
<1>5. EncryptItem(value, dek, recipients) = [v |-> 1, ct |-> ct, wraps |-> wraps]
  BY DEF EncryptItem
<1> HIDE DEF wraps, ct
<1> QED
  BY <1>2, <1>3, <1>4, <1>5 DEF ItemOK, Coherent

\* What an opener recovers from a coherent item is the key of its ciphertext.
LEMMA RecoversTheKey ==
  ASSUME NEW item, ItemOK(item), Coherent(item), NEW id, CanRecover(item, id)
  PROVE  RecoverDek(item, id) = item.ct.key
<1> DEFINE w == item.wraps[FirstWrap(item, id)]
<1>1. FirstWrap(item, id) \in DOMAIN item.wraps
  BY WrapsAreASequence, FirstWrapFinds DEF CanRecover
<1>2. w = WrapDek(w.recipient, item.ct.key)
  BY <1>1 DEF Coherent
<1>3. RecoverDek(item, id) = w.env.pt
  BY DEF RecoverDek
<1> HIDE DEF w
<1>4. w.env = SealTo(w.recipient, item.ct.key)
  BY <1>2 DEF WrapDek
<1> QED
  BY <1>3, <1>4 DEF SealTo

\* grant keeps an item coherent.
LEMMA GrantedItem ==
  ASSUME NEW item, ItemOK(item), Coherent(item), NEW id, CanRecover(item, id),
         NEW pk \in KeyPair
  PROVE  ItemOK(GrantItem(item, id, pk)) /\ Coherent(GrantItem(item, id, pk))
<1> DEFINE w == WrapDek(pk, item.ct.key)
           wraps == Append(item.wraps, w)
<1>1. GrantItem(item, id, pk) = [v |-> 1, ct |-> item.ct, wraps |-> wraps]
  <2> DEFINE ct == item.ct
             ws == item.wraps
  <2>1. item = [v |-> 1, ct |-> ct, wraps |-> ws]
    BY DEF ItemOK
  <2>2. GrantItem(item, id, pk) = [item EXCEPT !.wraps = wraps]
    BY RecoversTheKey DEF GrantItem
  <2> HIDE DEF ct, ws, wraps
  <2>3. [item EXCEPT !.wraps = wraps] = [v |-> 1, ct |-> ct, wraps |-> wraps]
    BY <2>1
  <2> QED
    BY <2>2, <2>3 DEF ct
<1>2. w \in Wrap /\ w = WrapDek(w.recipient, item.ct.key)
  BY DEF WrapDek, SealTo, Wrap, ItemOK
<1> HIDE DEF w
<1>3. wraps \in Seq(Wrap)
  BY <1>2, AppendProperties DEF ItemOK
<1>4. \A k \in DOMAIN wraps : wraps[k] = WrapDek(wraps[k].recipient, item.ct.key)
  BY <1>2, WrapsAreASequence, AppendProperties DEF ItemOK, Coherent
<1> HIDE DEF wraps
<1> QED
  BY <1>1, <1>3, <1>4 DEF ItemOK, Coherent

\* In a coherent item every listed key decrypts.
LEMMA CoherentMeansReadable ==
  ASSUME NEW item, ItemOK(item), Coherent(item), NEW k \in DOMAIN item.wraps
  PROVE  CanDecrypt(item, item.wraps[k].recipient)
<1> DEFINE pk == item.wraps[k].recipient
           f == FirstWrap(item, pk)
<1>1. f # 0 /\ f \in DOMAIN item.wraps /\ item.wraps[f].recipient = pk
  BY WrapsAreASequence, FirstWrapFinds
<1>2. item.wraps[f] = WrapDek(pk, item.ct.key)
  BY <1>1 DEF Coherent
<1>3. item.v = 1
  BY DEF ItemOK
<1> QED
  BY <1>1, <1>2, <1>3
  DEF CanDecrypt, CanRecover, RecoverDek, OpensWith, WrapDek, SealTo

-----------------------------------------------------------------------------
(* Each step.                                                              *)

\* A registered key pair is a key pair.
LEMMA RegisteredType ==
  ASSUME TypeOK, NEW u \in User
  PROVE  Registered(u) \in KeyPair
  BY DEF TypeOK, Registered, KeyPair

\* A new pending item.
LEMMA PendingInv ==
  ASSUME Inv, NEW u \in User, NEW i \in Item, NEW item, Pending(u, i, item),
         ItemOK(item), Coherent(item),
         draws' \in 0 .. MaxDraws, calls' \in 0 .. MaxCalls
  PROVE  Inv'
<1> DEFINE j == [item |-> i, out |-> item, read |-> store[i]]
<1>1. /\ job' = [w \in User |-> job'[w]]
      /\ \A w \in User : job'[w] = IF w = u THEN j ELSE job[w]
  BY DEF Pending, Inv, TypeOK
<1>2. UNCHANGED <<store, generation, recovered, past>>
  BY DEF Pending
<1>3. /\ j = [item |-> j.item, out |-> j.out, read |-> j.read]
      /\ j.item \in Item
      /\ j.out = item
  OBVIOUS
<1> HIDE DEF j
<1>4. \A w \in User : job'[w] # None =>
        /\ job'[w] = [item |-> job'[w].item, out |-> job'[w].out, read |-> job'[w].read]
        /\ job'[w].item \in Item
        /\ ItemOK(job'[w].out)
        /\ Coherent(job'[w].out)
  <2> SUFFICES ASSUME NEW w \in User, job'[w] # None
               PROVE  /\ job'[w] = [item |-> job'[w].item, out |-> job'[w].out,
                                    read |-> job'[w].read]
                      /\ job'[w].item \in Item
                      /\ ItemOK(job'[w].out)
                      /\ Coherent(job'[w].out)
    OBVIOUS
  <2>1. CASE w = u
    BY <1>1, <1>3, <2>1
  <2>2. CASE w # u
    BY <1>1, <2>2 DEF Inv, TypeOK
  <2> QED
    BY <2>1, <2>2
<1>5. TypeOK'
  BY <1>1, <1>2, <1>4 DEF Inv, TypeOK
<1> QED
  BY <1>2, <1>4, <1>5 DEF Inv

\* encrypt_item and the upload it is for.
LEMMA EncryptInv ==
  ASSUME Inv, NEW u \in User, NEW i \in Item, NEW value \in DrawNumber,
         NEW recipients \in Seq(KeyPair), Encrypt(u, i, value, recipients),
         calls' \in 0 .. MaxCalls
  PROVE  Inv'
<1>1. Fresh \in DrawNumber /\ draws' \in 0 .. MaxDraws
  BY ItemsAssumption DEF Encrypt, Fresh, DrawNumber, Inv, TypeOK
<1> QED
  BY <1>1, EncryptedItem, PendingInv DEF Encrypt

\* A counted call stays within its bound.
LEMMA CallType ==
  ASSUME TypeOK, Call
  PROVE  calls' \in 0 .. MaxCalls
  BY ItemsAssumption DEF TypeOK, Call

\* Put preserves the invariant.
LEMMA PutInv ==
  ASSUME Inv, NEW u \in User, NEW i \in Item, NEW readers \in Seq(User),
         Put(u, i, readers)
  PROVE  Inv'
<1> DEFINE recipients == [k \in DOMAIN readers |-> Registered(readers[k])]
<1>1. recipients \in Seq(KeyPair)
  BY RegisteredType, IsASeq DEF Inv
<1>2. Fresh \in DrawNumber
  BY ItemsAssumption DEF Put, Encrypt, Fresh, DrawNumber, Inv, TypeOK
<1>3. Encrypt(u, i, Fresh, recipients) /\ calls' \in 0 .. MaxCalls
  BY CallType DEF Put, Inv
<1> HIDE DEF recipients
<1> QED
  BY <1>1, <1>2, <1>3, EncryptInv

\* Grant preserves the invariant: the opener holds the data key it re-wraps.
LEMMA GrantInv ==
  ASSUME Inv, NEW u \in User, NEW i \in Item, NEW with \in User, Grant(u, i, with)
  PROVE  Inv'
<1> PICK id \in Secrets(u) :
      /\ CanRecover(store[i], id)
      /\ Pending(u, i, GrantItem(store[i], id, Registered(with)))
  BY DEF Grant
<1>1. ItemOK(store[i]) /\ Coherent(store[i])
  BY DEF Grant, Inv, TypeOK
<1>2. /\ ItemOK(GrantItem(store[i], id, Registered(with)))
      /\ Coherent(GrantItem(store[i], id, Registered(with)))
  BY <1>1, GrantedItem, RegisteredType DEF Inv
<1>3. draws' \in 0 .. MaxDraws /\ calls' \in 0 .. MaxCalls
  BY DEF Grant, Inv, TypeOK
<1> QED
  BY <1>2, <1>3, PendingInv

\* Renewed recipients are key pairs.
LEMMA RenewedType ==
  ASSUME Inv, NEW u \in User, NEW i \in Item, store[i] # None
  PROVE  Renewed(u, store[i].wraps) \in Seq(KeyPair) /\ store[i].ct.pt \in DrawNumber
<1> DEFINE wraps == store[i].wraps
           recipients == Renewed(u, wraps)
<1>1. ItemOK(store[i])
  BY DEF Inv, TypeOK
<1>2. wraps \in Seq(Wrap) /\ store[i].ct.pt \in DrawNumber
  BY <1>1 DEF ItemOK
<1> HIDE DEF wraps
<1>3. recipients \in Seq(KeyPair)
  <2> DEFINE key(k) == IF wraps[k].recipient \in Retired(u) THEN Registered(u)
                                                            ELSE wraps[k].recipient
  <2>1. Len(wraps) \in Nat /\ DOMAIN wraps = 1 .. Len(wraps)
    BY <1>2
  <2>2. \A k \in 1 .. Len(wraps) : key(k) \in KeyPair
    <3>1. Registered(u) \in KeyPair
      BY RegisteredType DEF Inv
    <3>2. \A k \in 1 .. Len(wraps) : wraps[k].recipient \in KeyPair
      <4>1. \A k \in 1 .. Len(wraps) : wraps[k] \in Wrap
        BY <1>2, ElementOfSeq
      <4>2. \A w \in Wrap : w.recipient \in KeyPair
        BY DEF Wrap
      <4> QED
        BY <4>1, <4>2
    <3> QED
      BY <3>1, <3>2
  <2>3. recipients = [k \in 1 .. Len(wraps) |-> key(k)]
    BY <2>1 DEF Renewed
  <2> HIDE DEF key
  <2> QED
    BY <2>1, <2>2, <2>3, IsASeq
<1> QED
  BY <1>2, <1>3 DEF wraps

\* Reseal preserves the invariant: it is an encryption for renewed recipients.
LEMMA ResealInv ==
  ASSUME Inv, NEW u \in User, NEW i \in Item, Reseal(u, i)
  PROVE  Inv'
<1> DEFINE recipients == Renewed(u, store[i].wraps)
<1>1. Encrypt(u, i, store[i].ct.pt, recipients) /\ calls' \in 0 .. MaxCalls
  BY DEF Reseal, Inv, TypeOK
<1>2. recipients \in Seq(KeyPair) /\ store[i].ct.pt \in DrawNumber
  BY RenewedType DEF Reseal, ListsRetired
<1> HIDE DEF recipients
<1> QED
  BY <1>1, <1>2, EncryptInv

\* A rotation touches no item.
LEMMA RotateInv ==
  ASSUME Inv, NEW u \in User, Rotate(u)
  PROVE  Inv'
<1>1. UNCHANGED <<store, job, draws, recovered, past>>
  BY DEF Rotate
<1>2. generation' \in [User -> Nat \ {0}] /\ calls' \in 0 .. MaxCalls
  BY CallType DEF Rotate, Inv, TypeOK
<1> QED
  BY <1>1, <1>2 DEF Inv, TypeOK

\* An accepted upload: the item stored is the coherent item that was pending.
LEMMA StoreInv ==
  ASSUME Inv, NEW u \in User, Store(u)
  PROVE  Inv'
<1> DEFINE out == job[u].out
           i == job[u].item
<1>1. i \in Item /\ ItemOK(out) /\ Coherent(out)
  BY DEF Store, Idle, Inv, TypeOK
<1>2. store' = [store EXCEPT ![i] = out]
  BY DEF Store
<1>3. /\ UNCHANGED <<generation, draws, calls>>
      /\ past' = past \cup {out.ct.pt}
      /\ recovered' = [r \in User |->
           IF r \in Readers(out) THEN recovered[r] \cup {out.ct.key} ELSE recovered[r]]
  BY DEF Store
<1>4. out.ct.key \in DrawNumber /\ out.ct.pt \in DrawNumber
  BY <1>1 DEF ItemOK
<1> HIDE DEF out, i
<1>5. past' \subseteq DrawNumber /\ recovered' \in [User -> SUBSET DrawNumber]
  BY <1>3, <1>4 DEF Inv, TypeOK
<1>6. /\ store' = [k \in Item |-> store'[k]]
      /\ \A k \in Item : store'[k] = IF k = i THEN out ELSE store[k]
  BY <1>1, <1>2 DEF Inv, TypeOK
<1>7. \A k \in Item : store'[k] = None \/ ItemOK(store'[k])
  BY <1>1, <1>6 DEF Inv, TypeOK
<1>8. \A k \in Item : store'[k] # None => Coherent(store'[k])
  BY <1>1, <1>6 DEF Inv
<1>9. /\ job' = [w \in User |-> job'[w]]
      /\ \A w \in User : job'[w] = job[w] \/ job'[w] = None
  BY DEF Store, Inv, TypeOK
<1>10. \A w \in User : job'[w] # None =>
         /\ job'[w] = [item |-> job'[w].item, out |-> job'[w].out, read |-> job'[w].read]
         /\ job'[w].item \in Item
         /\ ItemOK(job'[w].out)
         /\ Coherent(job'[w].out)
  BY <1>9 DEF Inv, TypeOK
<1>11. TypeOK'
  BY <1>3, <1>5, <1>6, <1>7, <1>9, <1>10 DEF Inv, TypeOK
<1> QED
  BY <1>8, <1>10, <1>11 DEF Inv

\* A pending item is dropped.
LEMMA DropInv ==
  ASSUME Inv, NEW u \in User, Refuse(u) \/ Crash(u)
  PROVE  Inv'
<1>1. UNCHANGED <<store, generation, draws, recovered, past>>
  BY DEF Refuse, Crash
<1>2. calls' \in 0 .. MaxCalls
  BY CallType DEF Refuse, Crash, Inv, TypeOK
<1>3. /\ job' = [w \in User |-> job'[w]]
      /\ \A w \in User : job'[w] = job[w] \/ job'[w] = None
  BY DEF Refuse, Crash, Inv, TypeOK
<1>4. \A w \in User : job'[w] # None =>
        /\ job'[w] = [item |-> job'[w].item, out |-> job'[w].out, read |-> job'[w].read]
        /\ job'[w].item \in Item
        /\ ItemOK(job'[w].out)
        /\ Coherent(job'[w].out)
  BY <1>3 DEF Inv, TypeOK
<1> QED
  BY <1>1, <1>2, <1>3, <1>4 DEF Inv, TypeOK

\* The invariant is inductive: one step for each disjunct of Next.
LEMMA NextInv == Inv /\ [Next]_vars => Inv'
<1> SUFFICES ASSUME Inv, [Next]_vars PROVE Inv'
  OBVIOUS
<1>1. CASE UNCHANGED vars
  BY <1>1 DEF vars, Inv, TypeOK
<1>2. CASE Next
  <2> PICK u \in User :
        \/ \E i \in Item, readers \in Recipients : Put(u, i, readers)
        \/ \E i \in Item, with \in User : Grant(u, i, with)
        \/ Rotate(u)
        \/ Resealing(u)
        \/ Answer(u)
        \/ Crash(u)
    BY <1>2 DEF Next, Step
  <2>1. CASE \E i \in Item, readers \in Recipients : Put(u, i, readers)
    <3>1. Recipients \subseteq UNION {[1 .. n -> User] : n \in Nat}
      <4>1. \A n \in Nat : [1 .. n -> User] \subseteq UNION {[1 .. m -> User] : m \in Nat}
        BY Zenon
      <4>2. 1 \in Nat /\ 2 \in Nat
        OBVIOUS
      <4> QED
        BY <4>1, <4>2, Zenon DEF Recipients
    <3> QED
      BY <2>1, <3>1, PutInv, SeqDef
  <2>2. CASE \E i \in Item, with \in User : Grant(u, i, with)
    BY <2>2, GrantInv
  <2>3. CASE Rotate(u)
    BY <2>3, RotateInv
  <2>4. CASE Resealing(u)
    BY <2>4, ResealInv DEF Resealing
  <2>5. CASE Answer(u)
    BY <2>5, StoreInv, DropInv DEF Answer
  <2>6. CASE Crash(u)
    BY <2>6, DropInv
  <2> QED
    BY <2>1, <2>2, <2>3, <2>4, <2>5, <2>6
<1> QED
  BY <1>1, <1>2

\* Nothing is stored or pending at first.
LEMMA InitInv == Init => Inv
  BY ItemsAssumption DEF Init, Inv, TypeOK

-----------------------------------------------------------------------------
(* The theorems.                                                           *)

\* Stored and pending items stay well-formed and coherent.
THEOREM Coherence == Spec => []Inv
  BY InitInv, NextInv, PTL DEF Spec

\* Type correctness: stored and pending items, generations and histories keep
\* the shape src/item.rs gives them.
THEOREM TypeCorrect == Spec => []TypeOK
<1>1. Inv => TypeOK
  BY DEF Inv
<1> QED
  BY <1>1, Coherence, PTL

\* Every recipient an item lists can always decrypt it: any number of users,
\* items and recipients, repetitions and stale keys included.
THEOREM ReadersCanAlwaysRead == Spec => []ReadersCanRead
<1>1. Inv => ReadersCanRead
  BY CoherentMeansReadable DEF Inv, TypeOK, ReadersCanRead
<1> QED
  BY <1>1, Coherence, PTL

-----------------------------------------------------------------------------
(* A checking server.  Data keys are drawn once and in order, so that an   *)
(* upload of a new data key tells whether it is older or newer than the    *)
(* item stored.                                                            *)

\* The users an item is wrapped for.
Owners(item) == {item.wraps[k].recipient.owner : k \in DOMAIN item.wraps}

\* Every recipient is a key pair its owner has had.
KnownKeys(item) ==
  \A k \in DOMAIN item.wraps :
    item.wraps[k].recipient.gen <= generation[item.wraps[k].recipient.owner]

\* Draw n has come to the server, as a value or as a data key.
Used(n) ==
  \/ n \in past
  \/ \E u \in User : n \in recovered[u]
  \/ \E i \in Item : store[i] # None /\ store[i].ct.key = n

\* The pending item is a grant: it has the ciphertext that was read.
Grants(j) == j.read # None /\ j.out.ct = j.read.ct

\* A pending item under a new data key replaces older ones, and once it has
\* been stored the item stays as new as it.
NewKey(j) ==
  /\ j.out.ct.key \in 1 .. draws
  /\ j.read # None => j.read.ct.key < j.out.ct.key
  /\ Used(j.out.ct.key) =>
       store[j.item] # None /\ store[j.item].ct.key >= j.out.ct.key

Writes(j) == j.out.ct.pt = j.out.ct.key

Reseals(j) ==
  /\ j.read # None
  /\ j.out.ct.pt = j.read.ct.pt
  /\ Owners(j.out) = Owners(j.read)

JobTimely(u, j) ==
  /\ KnownKeys(j.out)
  /\ Owners(j.out) # {}
  /\ IF Grants(j)
       THEN /\ u \in Owners(j.read)
            /\ \E with \in User : Owners(j.out) = Owners(j.read) \cup {with}
       ELSE NewKey(j) /\ (Writes(j) \/ Reseals(j))

StoreTimely ==
  /\ past \subseteq 1 .. draws
  /\ \A u \in User : recovered[u] \subseteq 1 .. draws
  /\ \A i \in Item : store[i] # None =>
       /\ store[i].ct.key \in 1 .. draws
       /\ store[i].ct.pt \in past
       /\ KnownKeys(store[i])
       /\ Owners(store[i]) # {}
       /\ \A u \in User : store[i].ct.key \in recovered[u] => u \in Owners(store[i])
  /\ \A i, k \in Item :
       i # k /\ store[i] # None /\ store[k] # None => store[i].ct.key # store[k].ct.key

\* No two users are to store items under the same new data key.
KeysApart ==
  \A u, w \in User :
    /\ u # w
    /\ job[u] # None /\ job[w] # None
    /\ ~Grants(job[u]) /\ ~Grants(job[w])
    => job[u].out.ct.key # job[w].out.ct.key

\* The inductive invariant, together with Inv.
Timely ==
  checked =>
    /\ StoreTimely
    /\ \A u \in User : job[u] # None => JobTimely(u, job[u])
    /\ KeysApart

-----------------------------------------------------------------------------
(* A checking server: who can read an item.                                *)

\* The users that can read a coherent item are those it is wrapped for,
\* whichever of their identities they were when it was.
LEMMA ReadersAreOwners ==
  ASSUME TypeOK, NEW item, ItemOK(item), Coherent(item), KnownKeys(item)
  PROVE  Readers(item) = Owners(item)
<1>1. Owners(item) \subseteq User
  BY WrapsAreASequence DEF Owners, Wrap, KeyPair
<1>2. ASSUME NEW u \in Readers(item)
      PROVE  u \in Owners(item)
  <2>1. PICK id \in Secrets(u) : CanDecrypt(item, id)
    BY DEF Readers
  <2>2. /\ FirstWrap(item, id) \in DOMAIN item.wraps
        /\ item.wraps[FirstWrap(item, id)].recipient = id
    BY <2>1, WrapsAreASequence, FirstWrapFinds DEF CanDecrypt, CanRecover
  <2>3. id.owner = u
    BY DEF Secrets
  <2> QED
    BY <2>2, <2>3 DEF Owners
<1>3. ASSUME NEW u \in Owners(item)
      PROVE  u \in Readers(item)
  <2>1. PICK k \in DOMAIN item.wraps : item.wraps[k].recipient.owner = u
    BY DEF Owners
  <2> DEFINE pk == item.wraps[k].recipient
  <2>2. CanDecrypt(item, pk)
    BY CoherentMeansReadable
  <2>3. pk \in KeyPair /\ pk.gen <= generation[u]
    BY <2>1, WrapsAreASequence DEF Wrap, KnownKeys
  <2>4. generation[u] \in Nat
    BY <1>1 DEF TypeOK
  <2> HIDE DEF pk
  <2>5. pk = [owner |-> u, gen |-> pk.gen] /\ pk.gen \in 1 .. generation[u]
    BY <2>1, <2>3, <2>4 DEF KeyPair, pk
  <2>6. pk \in Secrets(u)
    BY <2>5 DEF Secrets
  <2> QED
    BY <1>1, <2>2, <2>6 DEF Readers
<1>4. Readers(item) \subseteq User
  BY DEF Readers
<1> QED
  BY <1>2, <1>3

\* encrypt_item wraps for the owners of the keys it is given.
LEMMA EncryptedOwners ==
  ASSUME NEW value, NEW dek, NEW recipients, NEW item,
         item = EncryptItem(value, dek, recipients)
  PROVE  /\ DOMAIN item.wraps = DOMAIN recipients
         /\ \A k \in DOMAIN recipients : item.wraps[k].recipient = recipients[k]
         /\ item.ct.key = dek /\ item.ct.pt = value
  BY DEF EncryptItem, WrapDek

\* grant wraps for one more.
LEMMA GrantedOwners ==
  ASSUME NEW item, ItemOK(item), Coherent(item), NEW id, CanRecover(item, id),
         NEW pk \in KeyPair, KnownKeys(item), pk.gen <= generation[pk.owner]
  PROVE  /\ GrantItem(item, id, pk).ct = item.ct
         /\ Owners(GrantItem(item, id, pk)) = Owners(item) \cup {pk.owner}
         /\ KnownKeys(GrantItem(item, id, pk))
<1> DEFINE w == WrapDek(pk, RecoverDek(item, id))
           ws == item.wraps
           out == GrantItem(item, id, pk)
           n == Len(ws)
<1>1. item = [v |-> 1, ct |-> item.ct, wraps |-> item.wraps]
  BY DEF ItemOK
<1>2. out.ct = item.ct /\ out.wraps = Append(ws, w)
  BY <1>1 DEF GrantItem
<1>3. w.recipient = pk
  BY DEF WrapDek
<1>4. ws \in Seq(Wrap) /\ n \in Nat /\ DOMAIN ws = 1 .. n
  BY WrapsAreASequence DEF ItemOK
<1> HIDE DEF w
<1>5. w \in Wrap
  <2>1. RecoverDek(item, id) = item.ct.key
    BY RecoversTheKey
  <2> QED
    BY <2>1 DEF w, WrapDek, SealTo, Wrap, ItemOK
<1>6. /\ DOMAIN out.wraps = 1 .. (n + 1)
      /\ \A k \in 1 .. n : out.wraps[k] = ws[k]
      /\ out.wraps[n + 1] = w
  BY <1>2, <1>4, <1>5, AppendProperties
<1> HIDE DEF out, ws, n
<1>7. \A k \in 1 .. (n + 1) : k \in 1 .. n \/ k = n + 1
  BY <1>4
<1>8. 1 .. n \subseteq 1 .. (n + 1) /\ n + 1 \in 1 .. (n + 1)
  BY <1>4
<1>9. Owners(out) = Owners(item) \cup {pk.owner}
  <2>1. ASSUME NEW o \in Owners(out) PROVE o \in Owners(item) \cup {pk.owner}
    BY <1>3, <1>4, <1>6, <1>7 DEF Owners, ws
  <2>2. ASSUME NEW o \in Owners(item) PROVE o \in Owners(out)
    BY <1>4, <1>6, <1>8 DEF Owners, ws
  <2>3. pk.owner \in Owners(out)
    BY <1>3, <1>6, <1>8 DEF Owners
  <2> QED
    BY <2>1, <2>2, <2>3
<1>10. KnownKeys(out)
  BY <1>3, <1>4, <1>6, <1>7 DEF KnownKeys, ws
<1> QED
  BY <1>2, <1>9, <1>10 DEF out

-----------------------------------------------------------------------------
(* A checking server: a new pending item.                                  *)

\* No draw yet to come has been used.
LEMMA FreshUnused ==
  ASSUME StoreTimely, NEW n, n \notin 1 .. draws
  PROVE  ~Used(n)
  BY DEF StoreTimely, Used

\* A user keeps an item that is a grant of what is stored, or is under a new
\* data key.
LEMMA PendingTimely ==
  ASSUME Inv, Timely, checked, UNCHANGED checked, NEW u \in User, NEW i \in Item, NEW item,
         Pending(u, i, item),
         KnownKeys(item), Owners(item) # {},
         \/ /\ draws' = draws
            /\ store[i] # None /\ item.ct = store[i].ct
            /\ u \in Owners(store[i])
            /\ \E with \in User : Owners(item) = Owners(store[i]) \cup {with}
         \/ /\ draws' = Fresh /\ item.ct.key = Fresh
            /\ \/ item.ct.pt = Fresh
               \/ /\ store[i] # None
                  /\ item.ct.pt = store[i].ct.pt
                  /\ Owners(item) = Owners(store[i])
  PROVE  Timely'
<1> DEFINE old == store[i]
           j == [item |-> i, out |-> item, read |-> old]
<1>1. \A w \in User : job'[w] = IF w = u THEN j ELSE job[w]
  BY DEF Pending, Inv, TypeOK
<1>2. UNCHANGED <<store, generation, recovered, past>> /\ job[u] = None
  BY DEF Pending, Idle
<1>3. draws \in Nat /\ Fresh = draws + 1 /\ draws' \in {draws, Fresh}
  BY DEF Inv, TypeOK, Fresh
<1>4. 1 .. draws \subseteq 1 .. draws' /\ Fresh \notin 1 .. draws
  BY <1>3
<1>5. StoreTimely /\ KeysApart /\ \A w \in User : job[w] # None => JobTimely(w, job[w])
  BY DEF Timely
<1>6. StoreTimely'
  BY <1>2, <1>4, <1>5 DEF StoreTimely, KnownKeys
<1>7. \A n : Used(n)' <=> Used(n)
  BY <1>2 DEF Used
<1>8. \A w \in User : w # u /\ job[w] # None => JobTimely(w, job[w])'
  <2> SUFFICES ASSUME NEW w \in User, w # u, job[w] # None PROVE JobTimely(w, job[w])'
    OBVIOUS
  <2>1. job'[w] = job[w] /\ JobTimely(w, job[w])
    BY <1>1, <1>5
  <2> DEFINE k == job[w]
  <2>2. job'[w] = k /\ JobTimely(w, k)
    BY <2>1
  <2> HIDE DEF k
  <2> QED
    BY <1>2, <1>4, <1>7, <2>2 DEF JobTimely, NewKey, KnownKeys
<1>9. job'[u].item = i /\ job'[u].out = item /\ job'[u].read = store[i]
  BY <1>1
<1>10. store[i] # None => store[i].ct.key \in 1 .. draws
  BY <1>5 DEF StoreTimely
<1>11. JobTimely(u, job[u])'
  <2>1. KnownKeys(item)'
    BY <1>2 DEF KnownKeys
  <2>2. CASE Grants(job'[u])
    <3>1. store[i] # None /\ item.ct = store[i].ct
      BY <1>9, <2>2 DEF Grants
    <3>2. item.ct.key # Fresh
      BY <1>4, <1>10, <3>1
    <3>3. /\ u \in Owners(store[i])
          /\ \E with \in User : Owners(item) = Owners(store[i]) \cup {with}
      BY <3>2
    <3> QED
      BY <1>9, <2>1, <2>2, <3>3 DEF JobTimely
  <2>3. CASE ~Grants(job'[u])
    <3>1. /\ draws' = Fresh /\ item.ct.key = Fresh
          /\ \/ item.ct.pt = Fresh
             \/ /\ store[i] # None
                /\ item.ct.pt = store[i].ct.pt
                /\ Owners(item) = Owners(store[i])
      BY <1>9, <2>3 DEF Grants
    <3>2. ~Used(item.ct.key)'
      BY <1>4, <1>5, <1>7, <3>1, FreshUnused
    <3>3. Fresh \in 1 .. draws' /\ (store[i] # None => store[i].ct.key < Fresh)
      BY <1>3, <1>10, <3>1
    <3>4. NewKey(job[u])'
      BY <1>9, <3>1, <3>2, <3>3 DEF NewKey
    <3>5. (Writes(job[u]) \/ Reseals(job[u]))'
      BY <1>9, <3>1 DEF Writes, Reseals
    <3> QED
      BY <1>9, <2>1, <2>3, <3>4, <3>5 DEF JobTimely
  <2> QED
    BY <2>2, <2>3
<1>12. \A w \in User : w # u /\ job[w] # None /\ ~Grants(job[w]) => job[w].out.ct.key \in 1 .. draws
  BY <1>5 DEF JobTimely, NewKey
<1>13. ~Grants(job'[u]) => job'[u].out.ct.key = Fresh
  BY <1>9 DEF Grants
<1> HIDE DEF j
<1>14. KeysApart'
  <2> SUFFICES ASSUME NEW v \in User, NEW w \in User, v # w, job'[v] # None, job'[w] # None,
                      ~Grants(job'[v]), ~Grants(job'[w])
               PROVE  job'[v].out.ct.key # job'[w].out.ct.key
    BY DEF KeysApart, Grants
  <2>1. CASE v # u /\ w # u
    BY <1>1, <1>5, <2>1 DEF KeysApart
  <2>2. CASE v = u
    BY <1>1, <1>4, <1>12, <1>13, <2>2
  <2>3. CASE w = u
    BY <1>1, <1>4, <1>12, <1>13, <2>3
  <2> QED
    BY <2>1, <2>2, <2>3
<1>15. \A w \in User : job'[w] # None => JobTimely(w, job[w])'
  BY <1>1, <1>8, <1>11
<1> QED
  BY <1>6, <1>14, <1>15 DEF Timely

\* A registered key pair is one its owner has had.
LEMMA RegisteredKnown ==
  ASSUME TypeOK, NEW u \in User
  PROVE  Registered(u).owner = u /\ Registered(u).gen <= generation[u]
<1>1. generation[u] \in Nat
  BY DEF TypeOK
<1>2. Registered(u).owner = u /\ Registered(u).gen = generation[u]
  BY DEF Registered
<1> QED
  BY <1>1, <1>2

\* A new value under a new data key.
LEMMA PutTimely ==
  ASSUME Inv, Timely, checked, UNCHANGED checked, NEW u \in User, NEW i \in Item,
         NEW readers \in Recipients, Put(u, i, readers)
  PROVE  Timely'
<1> DEFINE recipients == [k \in DOMAIN readers |-> Registered(readers[k])]
           item == EncryptItem(Fresh, Fresh, recipients)
<1>1. Pending(u, i, item) /\ draws' = Fresh
  BY DEF Put, Encrypt
<1>2. 1 \in DOMAIN readers /\ \A k \in DOMAIN readers : readers[k] \in User
  BY DEF Recipients
<1>3. \A k \in DOMAIN recipients :
        recipients[k].owner \in User /\ recipients[k].gen <= generation[recipients[k].owner]
  BY <1>2, RegisteredKnown DEF Inv
<1>4. 1 \in DOMAIN recipients
  BY <1>2
<1> HIDE DEF recipients
<1>5. /\ DOMAIN item.wraps = DOMAIN recipients
      /\ \A k \in DOMAIN recipients : item.wraps[k].recipient = recipients[k]
      /\ item.ct.key = Fresh /\ item.ct.pt = Fresh
  BY EncryptedOwners
<1> HIDE DEF item
<1>6. KnownKeys(item) /\ Owners(item) # {}
  BY <1>3, <1>4, <1>5 DEF KnownKeys, Owners
<1> QED
  BY <1>1, <1>5, <1>6, PendingTimely

\* A grant of what is stored, by one of its readers.
LEMMA GrantTimely ==
  ASSUME Inv, Timely, checked, UNCHANGED checked, NEW u \in User, NEW i \in Item,
         NEW with \in User, Grant(u, i, with)
  PROVE  Timely'
<1> PICK id \in Secrets(u) :
      /\ CanRecover(store[i], id)
      /\ Pending(u, i, GrantItem(store[i], id, Registered(with)))
  BY DEF Grant
<1> DEFINE item == GrantItem(store[i], id, Registered(with))
<1>1. store[i] # None /\ draws' = draws
  BY DEF Grant
<1>2. /\ ItemOK(store[i]) /\ Coherent(store[i])
      /\ KnownKeys(store[i])
  BY <1>1 DEF Inv, TypeOK, Timely, StoreTimely
<1>3. /\ Registered(with) \in KeyPair
      /\ Registered(with).owner = with /\ Registered(with).gen <= generation[with]
  BY RegisteredType, RegisteredKnown DEF Inv
<1>4. /\ item.ct = store[i].ct
      /\ Owners(item) = Owners(store[i]) \cup {with}
      /\ KnownKeys(item)
  BY <1>2, <1>3, GrantedOwners
<1>5. u \in Owners(store[i])
  <2>1. RecoverDek(store[i], id) = store[i].ct.key
    BY <1>2, RecoversTheKey
  <2>2. u \in Readers(store[i])
    BY <2>1 DEF Readers, CanDecrypt
  <2> QED
    BY <1>2, <2>2, ReadersAreOwners DEF Inv
<1> HIDE DEF item
<1>6. Owners(item) # {}
  BY <1>4
<1>7. Pending(u, i, item)
  BY DEF item
<1> QED
  BY <1>1, <1>4, <1>5, <1>6, <1>7, PendingTimely

\* A key that is registered has not been replaced.
LEMMA RegisteredIsNotRetired ==
  ASSUME NEW u \in User, NEW w \in User
  PROVE  Registered(w) \notin Retired(u)
BY DEF Registered, Retired, Secrets

\* The same value under a new data key, for the same users.
LEMMA ResealComputes ==
  ASSUME Inv, Timely, checked, NEW u \in User, NEW i \in Item, Reseal(u, i)
  PROVE  \E item :
           /\ Pending(u, i, item) /\ draws' = Fresh
           /\ store[i] # None /\ Owners(store[i]) # {}
           /\ ItemOK(item) /\ Coherent(item)
           /\ KnownKeys(item) /\ Owners(item) = Owners(store[i])
           /\ item.ct.key = Fresh /\ item.ct.pt = store[i].ct.pt
           /\ \A k \in DOMAIN item.wraps : item.wraps[k].recipient \notin Retired(u)
<1> DEFINE ws == store[i].wraps
           recipients == Renewed(u, ws)
           item == EncryptItem(store[i].ct.pt, Fresh, recipients)
<1>1. Pending(u, i, item) /\ draws' = Fresh /\ store[i] # None
  BY DEF Reseal, Encrypt, ListsRetired
<1>2. KnownKeys(store[i]) /\ Owners(store[i]) # {}
  BY <1>1 DEF Timely, StoreTimely
<1>3. DOMAIN recipients = DOMAIN ws
  BY DEF Renewed
<1>4. \A k \in DOMAIN ws :
        /\ recipients[k].owner = ws[k].recipient.owner
        /\ recipients[k].gen <= generation[recipients[k].owner]
  <2> SUFFICES ASSUME NEW k \in DOMAIN ws
               PROVE  /\ recipients[k].owner = ws[k].recipient.owner
                      /\ recipients[k].gen <= generation[recipients[k].owner]
    OBVIOUS
  <2>1. CASE ws[k].recipient \in Retired(u)
    <3>1. recipients[k] = Registered(u)
      BY <2>1 DEF Renewed
    <3>2. ws[k].recipient.owner = u
      BY <2>1 DEF Retired, Secrets
    <3> QED
      BY <3>1, <3>2, RegisteredKnown DEF Inv
  <2>2. CASE ws[k].recipient \notin Retired(u)
    <3>1. recipients[k] = ws[k].recipient
      BY <2>2 DEF Renewed
    <3> QED
      BY <1>2, <3>1 DEF KnownKeys
  <2> QED
    BY <2>1, <2>2
<1>5. \A k \in DOMAIN ws : recipients[k] \notin Retired(u)
  BY RegisteredIsNotRetired DEF Renewed
<1>6. ItemOK(item) /\ Coherent(item)
  <2>1. recipients \in Seq(KeyPair) /\ store[i].ct.pt \in DrawNumber
    BY <1>1, RenewedType
  <2>2. Fresh \in DrawNumber
    BY ItemsAssumption DEF Reseal, Encrypt, Fresh, DrawNumber, Inv, TypeOK
  <2> HIDE DEF recipients
  <2> QED
    BY <2>1, <2>2, EncryptedItem
<1> HIDE DEF recipients
<1>7. /\ DOMAIN item.wraps = DOMAIN recipients
      /\ \A k \in DOMAIN recipients : item.wraps[k].recipient = recipients[k]
      /\ item.ct.key = Fresh /\ item.ct.pt = store[i].ct.pt
  BY EncryptedOwners
<1> HIDE DEF item
<1>8. KnownKeys(item)
  BY <1>3, <1>4, <1>7 DEF KnownKeys
<1>9. Owners(item) = Owners(store[i])
  BY <1>3, <1>4, <1>7 DEF Owners
<1> QED
  BY <1>1, <1>2, <1>3, <1>5, <1>6, <1>7, <1>8, <1>9

\* So a re-encryption on its way is under a data key nobody has had.
LEMMA ResealTimely ==
  ASSUME Inv, Timely, checked, UNCHANGED checked, NEW u \in User, NEW i \in Item, Reseal(u, i)
  PROVE  Timely'
BY ResealComputes, PendingTimely

-----------------------------------------------------------------------------
(* A checking server: the other steps.                                     *)

\* The items stay and uploads are kept or dropped; identities may be replaced.
LEMMA QuietTimely ==
  ASSUME Inv, Timely, checked, UNCHANGED <<checked, store, draws, recovered, past>>,
         generation' \in [User -> Nat \ {0}],
         \A u \in User : generation[u] <= generation'[u],
         \A u \in User : job'[u] # None => job'[u] = job[u]
  PROVE  Timely'
<1>1. StoreTimely /\ KeysApart /\ \A w \in User : job[w] # None => JobTimely(w, job[w])
  BY DEF Timely
<1>2. \A item : ItemOK(item) /\ KnownKeys(item) => KnownKeys(item)'
  <2> SUFFICES ASSUME NEW item, ItemOK(item), KnownKeys(item), NEW k \in DOMAIN item.wraps
               PROVE  item.wraps[k].recipient.gen <= generation'[item.wraps[k].recipient.owner]
    BY DEF KnownKeys
  <2> DEFINE pk == item.wraps[k].recipient
  <2>1. pk.gen \in Nat /\ pk.owner \in User /\ pk.gen <= generation[pk.owner]
    BY WrapsAreASequence DEF Wrap, KeyPair, KnownKeys
  <2>2. /\ generation[pk.owner] \in Nat /\ generation'[pk.owner] \in Nat
        /\ generation[pk.owner] <= generation'[pk.owner]
    BY <2>1 DEF Inv, TypeOK
  <2> HIDE DEF pk
  <2>3. pk.gen <= generation'[pk.owner]
    BY <2>1, <2>2
  <2> QED
    BY <2>3 DEF pk
<1>3. StoreTimely'
  BY <1>1, <1>2 DEF StoreTimely, Inv, TypeOK
<1>4. \A n : Used(n)' <=> Used(n)
  BY DEF Used
<1>5. ASSUME NEW w \in User, job'[w] # None
      PROVE  JobTimely(w, job[w])'
  <2> DEFINE k == job[w]
  <2>1. job'[w] = k /\ JobTimely(w, k) /\ ItemOK(k.out)
    BY <1>1, <1>5 DEF Inv, TypeOK
  <2> HIDE DEF k
  <2>2. \A x \in DOMAIN k.out.wraps :
          k.out.wraps[x].recipient.gen <= generation'[k.out.wraps[x].recipient.owner]
    BY <1>2, <2>1 DEF JobTimely, KnownKeys
  <2> QED
    BY <1>4, <2>1, <2>2 DEF JobTimely, NewKey, KnownKeys
<1>6. KeysApart'
  BY <1>1 DEF KeysApart
<1> QED
  BY <1>3, <1>5, <1>6 DEF Timely

\* Identities rotate, and users and the server drop uploads.
LEMMA OtherTimely ==
  ASSUME Inv, Timely, checked, UNCHANGED checked, NEW u \in User,
         Rotate(u) \/ Refuse(u) \/ Crash(u)
  PROVE  Timely'
<1>1. UNCHANGED <<store, draws, recovered, past>>
  BY DEF Rotate, Refuse, Crash
<1>2. generation' \in [User -> Nat \ {0}] /\ \A w \in User : generation[w] <= generation'[w]
  BY DEF Rotate, Refuse, Crash, Inv, TypeOK
<1>3. \A w \in User : job'[w] # None => job'[w] = job[w]
  BY DEF Rotate, Refuse, Crash, Inv, TypeOK
<1> QED
  BY <1>1, <1>2, <1>3, QuietTimely

\* An item is not the absence of one.
LEMMA ItemIsSome ==
  ASSUME NEW item, ItemOK(item)
  PROVE  item # None
<1> DEFINE ct == item.ct
           ws == item.wraps
<1>1. item = [v |-> 1, ct |-> ct, wraps |-> ws]
  BY DEF ItemOK
<1>2. ct \in [key : DrawNumber, pt : DrawNumber] /\ ws \in Seq(Wrap)
  BY DEF ItemOK
<1> HIDE DEF ct, ws
<1>3. item \in [v : {1}, ct : [key : DrawNumber, pt : DrawNumber], wraps : Seq(Wrap)]
  BY <1>1, <1>2
<1> QED
  BY <1>3, NoneIsNoItem

\* What an arriving upload does.
LEMMA StoreParts ==
  ASSUME Inv, Timely, checked, NEW u \in User, Store(u)
  PROVE  LET j == job[u] IN
         /\ j # None /\ j.item \in Item /\ ItemOK(j.out) /\ Coherent(j.out)
         /\ JobTimely(u, j)
         /\ store[j.item] = j.read
         /\ \A k \in Item : store'[k] = IF k = j.item THEN j.out ELSE store[k]
         /\ past' = past \cup {j.out.ct.pt}
         /\ \A r \in User : recovered'[r] = IF r \in Owners(j.out)
                                              THEN recovered[r] \cup {j.out.ct.key}
                                              ELSE recovered[r]
         /\ \A w \in User : job'[w] # None => job'[w] = job[w]
         /\ UNCHANGED <<generation, draws, calls>>
<1> DEFINE j == job[u]
<1>1. j # None
  BY DEF Store, Idle
<1>2. j.item \in Item /\ ItemOK(j.out) /\ Coherent(j.out) /\ JobTimely(u, j)
  BY <1>1 DEF Inv, TypeOK, Timely
<1>3. Readers(j.out) = Owners(j.out)
  BY <1>2, ReadersAreOwners DEF Inv, JobTimely
<1>4. store[j.item] = j.read
  BY DEF Store, Accepts
<1>5. \A k \in Item : store'[k] = IF k = j.item THEN j.out ELSE store[k]
  BY <1>2 DEF Store, Inv, TypeOK
<1>6. \A w \in User : job'[w] # None => job'[w] = job[w]
  BY DEF Store, Inv, TypeOK
<1>7. \A r \in User : recovered'[r] = IF r \in Readers(j.out)
                                        THEN recovered[r] \cup {j.out.ct.key}
                                        ELSE recovered[r]
  BY DEF Store
<1> QED
  BY <1>1, <1>2, <1>3, <1>4, <1>5, <1>6, <1>7 DEF Store

\* An upload under a new data key is accepted once.
LEMMA NewKeyOnce ==
  ASSUME Inv, Timely, checked, NEW u \in User, Store(u), ~Grants(job[u])
  PROVE  NewKey(job[u]) /\ ~Used(job[u].out.ct.key)
<1> DEFINE j == job[u]
<1>1. JobTimely(u, j) /\ store[j.item] = j.read /\ j.item \in Item
  BY StoreParts
<1>2. NewKey(j)
  BY <1>1 DEF JobTimely
<1>3. store[j.item] # None => store[j.item].ct.key \in 1 .. draws
  BY <1>1 DEF Timely, StoreTimely
<1>4. draws \in Nat
  BY DEF Inv, TypeOK
<1> QED
  BY <1>1, <1>2, <1>3, <1>4 DEF NewKey

\* A grant is of the very item stored.
LEMMA GrantIsOfStored ==
  ASSUME Inv, Timely, checked, NEW u \in User, Store(u), Grants(job[u])
  PROVE  LET j == job[u] IN
         /\ store[j.item] # None /\ j.out.ct = store[j.item].ct
         /\ j.out.ct.key \in 1 .. draws /\ j.out.ct.pt \in past
         /\ u \in Owners(store[j.item])
         /\ \E with \in User : Owners(j.out) = Owners(store[j.item]) \cup {with}
         /\ Used(j.out.ct.key)
<1> DEFINE j == job[u]
<1>1. JobTimely(u, j) /\ store[j.item] = j.read /\ j.item \in Item
  BY StoreParts
<1>2. store[j.item] # None /\ j.out.ct = store[j.item].ct
  BY <1>1 DEF Grants
<1>3. store[j.item].ct.key \in 1 .. draws /\ store[j.item].ct.pt \in past
  BY <1>1, <1>2 DEF Timely, StoreTimely
<1> QED
  BY <1>1, <1>2, <1>3 DEF JobTimely, Used

\* What an upload brings that was not there: a new data key, and perhaps a
\* value of the same draw.
LEMMA StoreUses ==
  ASSUME Inv, Timely, checked, NEW u \in User, Store(u)
  PROVE  /\ job[u].out.ct.key \in 1 .. draws
         /\ job[u].out.ct.pt \in past \/ (~Grants(job[u]) /\ Writes(job[u]))
         /\ \A n : Used(n)' => (Used(n) \/ (~Grants(job[u]) /\ n = job[u].out.ct.key))
<1> DEFINE j == job[u]
           key == j.out.ct.key
           pt == j.out.ct.pt
           i == j.item
<1>1. /\ JobTimely(u, j)
      /\ store[i] = j.read /\ i \in Item
      /\ \A k \in Item : store'[k] = IF k = i THEN j.out ELSE store[k]
      /\ past' = past \cup {pt}
      /\ \A r \in User : recovered'[r] = IF r \in Owners(j.out)
                                           THEN recovered[r] \cup {key}
                                           ELSE recovered[r]
  BY StoreParts
<1>2. key \in 1 .. draws /\ (pt \in past \/ (~Grants(j) /\ Writes(j)))
  <2>1. CASE Grants(j)
    BY <2>1, GrantIsOfStored
  <2>2. CASE ~Grants(j)
    <3>1. NewKey(j) /\ (Writes(j) \/ Reseals(j))
      BY <1>1, <2>2 DEF JobTimely
    <3>2. Reseals(j) => pt \in past
      BY <1>1 DEF Reseals, Timely, StoreTimely
    <3> QED
      BY <2>2, <3>1, <3>2 DEF NewKey
  <2> QED
    BY <2>1, <2>2
<1>3. Grants(j) => Used(key)
  BY GrantIsOfStored
<1>4. ~Grants(j) /\ Writes(j) => pt = key
  BY DEF Writes
<1> HIDE DEF j, key, pt, i
<1>5. ASSUME NEW n, Used(n)', ~Used(n)
      PROVE  ~Grants(j) /\ n = key
  <2>1. n = key \/ n = pt
    <3>1. n \in past' => n = pt
      BY <1>1, <1>5 DEF Used
    <3>2. ASSUME NEW r \in User, n \in recovered'[r] PROVE n = key
      BY <1>1, <1>5, <3>2 DEF Used
    <3>3. ASSUME NEW k \in Item, store'[k] # None, store'[k].ct.key = n PROVE n = key
      BY <1>1, <1>5, <3>3 DEF Used, key
    <3> QED
      BY <1>5, <3>1, <3>2, <3>3 DEF Used
  <2>2. n \notin past
    BY <1>5 DEF Used
  <2> QED
    BY <1>2, <1>3, <1>4, <1>5, <2>1, <2>2
<1> QED
  BY <1>2, <1>5 DEF j, key, pt

\* An upload that arrives keeps everything timely: what it replaced was older.
LEMMA StoreKeepsTimely ==
  ASSUME Inv, Timely, checked, UNCHANGED checked, NEW u \in User, Store(u)
  PROVE  Timely'
<1> DEFINE j == job[u]
           out == j.out
           key == out.ct.key
           pt == out.ct.pt
           i == j.item
<1>1. /\ JobTimely(u, j)
      /\ store[i] = j.read /\ i \in Item
      /\ \A k \in Item : store'[k] = IF k = i THEN out ELSE store[k]
      /\ past' = past \cup {pt}
      /\ \A r \in User : recovered'[r] = IF r \in Owners(out)
                                           THEN recovered[r] \cup {key}
                                           ELSE recovered[r]
      /\ \A w \in User : job'[w] # None => job'[w] = job[w]
      /\ UNCHANGED <<generation, draws, calls>>
      /\ out # None
  BY StoreParts, ItemIsSome
<1>2. /\ key \in 1 .. draws
      /\ pt \in past \/ (~Grants(j) /\ Writes(j))
      /\ \A n : Used(n)' => (Used(n) \/ (~Grants(j) /\ n = key))
  BY StoreUses
<1>3. Grants(j) => /\ store[i] # None /\ key = store[i].ct.key
                   /\ Owners(store[i]) \subseteq Owners(out)
  BY GrantIsOfStored
<1>4. ~Grants(j) => ~Used(key) /\ NewKey(j)
  BY NewKeyOnce
<1>5. StoreTimely /\ KeysApart /\ \A w \in User : job[w] # None => JobTimely(w, job[w])
  BY DEF Timely
<1>6. pt \in 1 .. draws
  BY <1>2, <1>5 DEF Writes, StoreTimely
<1>7. KeysApart'
  BY <1>1, <1>5 DEF KeysApart, Grants
<1>8. draws \in Nat
  BY DEF Inv, TypeOK
<1> HIDE DEF j, out, key, pt, i
<1>9. past' \subseteq 1 .. draws' /\ \A r \in User : recovered'[r] \subseteq 1 .. draws'
  <2>1. draws' = draws /\ past' = past \cup {pt}
    BY <1>1
  <2>2. past \subseteq 1 .. draws /\ \A r \in User : recovered[r] \subseteq 1 .. draws
    BY <1>5 DEF StoreTimely
  <2>3. \A r \in User : recovered'[r] \subseteq recovered[r] \cup {key}
    BY <1>1
  <2>4. past' \subseteq 1 .. draws'
    BY <1>6, <2>1, <2>2
  <2>5. ASSUME NEW r \in User PROVE recovered'[r] \subseteq 1 .. draws'
    BY <1>2, <2>1, <2>2, <2>3
  <2> QED
    BY <2>4, <2>5
<1>10. ASSUME NEW k \in Item, store'[k] # None
       PROVE  /\ store'[k].ct.key \in 1 .. draws'
              /\ store'[k].ct.pt \in past'
              /\ KnownKeys(store[k])'
              /\ Owners(store'[k]) # {}
              /\ \A r \in User : store'[k].ct.key \in recovered'[r] => r \in Owners(store'[k])
  <2>1. CASE k = i
    <3>1. store'[k] = out
      BY <1>1, <2>1
    <3>2. KnownKeys(out) /\ Owners(out) # {}
      BY <1>1 DEF JobTimely, out
    <3>3. ASSUME NEW r \in User, key \in recovered'[r], r \notin Owners(out)
          PROVE  FALSE
      <4>1. key \in recovered[r]
        BY <1>1, <3>3
      <4>2. Grants(j)
        BY <1>4, <4>1 DEF Used
      <4>3. r \in Owners(store[i])
        BY <1>1, <1>3, <1>5, <4>1, <4>2 DEF StoreTimely
      <4> QED
        BY <1>3, <3>3, <4>2, <4>3
    <3> QED
      BY <1>1, <1>2, <3>1, <3>2, <3>3 DEF KnownKeys, key, pt
  <2>2. CASE k # i
    <3>1. store'[k] = store[k]
      BY <1>1, <2>2
    <3>2. /\ store[k].ct.key \in 1 .. draws /\ store[k].ct.pt \in past
          /\ KnownKeys(store[k]) /\ Owners(store[k]) # {}
      BY <1>5, <1>10, <3>1 DEF StoreTimely
    <3>3. store[k].ct.key # key
      <4>1. CASE Grants(j)
        BY <1>1, <1>3, <1>5, <1>10, <2>2, <3>1, <4>1 DEF StoreTimely
      <4>2. CASE ~Grants(j)
        BY <1>4, <1>10, <3>1, <4>2 DEF Used
      <4> QED
        BY <4>1, <4>2
    <3>4. ASSUME NEW r \in User, store[k].ct.key \in recovered'[r]
          PROVE  r \in Owners(store[k])
      <4>1. store[k].ct.key \in recovered[r]
        BY <1>1, <3>3, <3>4
      <4>2. store[k] # None
        BY <1>10, <3>1
      <4> QED
        BY <1>5, <4>1, <4>2 DEF StoreTimely
    <3> QED
      BY <1>1, <3>1, <3>2, <3>4 DEF KnownKeys
  <2> QED
    BY <2>1, <2>2
<1>11. ASSUME NEW k \in Item, NEW m \in Item, k # m, store'[k] # None, store'[m] # None,
              store'[k].ct.key = store'[m].ct.key
       PROVE  FALSE
  <2>1. \A a \in Item : a # i /\ store[a] # None => store[a].ct.key # key
    <3>1. CASE Grants(j)
      BY <1>1, <1>3, <1>5, <3>1 DEF StoreTimely
    <3>2. CASE ~Grants(j)
      BY <1>4, <3>2 DEF Used
    <3> QED
      BY <3>1, <3>2
  <2>2. CASE k # i /\ m # i
    BY <1>1, <1>5, <1>11, <2>2 DEF StoreTimely
  <2>3. CASE k = i
    BY <1>1, <1>11, <2>1, <2>3 DEF key
  <2>4. CASE m = i
    BY <1>1, <1>11, <2>1, <2>4 DEF key
  <2> QED
    BY <2>2, <2>3, <2>4
<1>12. StoreTimely'
  BY <1>9, <1>10, <1>11 DEF StoreTimely
<1>13. ASSUME NEW w \in User, job'[w] # None
       PROVE  JobTimely(w, job[w])'
  <2> DEFINE k == job[w]
  <2>1. job'[w] = k /\ job[w] # None /\ JobTimely(w, k) /\ k.item \in Item
    BY <1>1, <1>5, <1>13 DEF Inv, TypeOK
  <2>2. ~Grants(k) /\ ~Grants(j) /\ w # u => k.out.ct.key # key
    BY <1>1, <1>5, <2>1 DEF KeysApart, j, out, key, Store, Idle
  <2>3. w = u => k = j
    BY DEF j
  <2> HIDE DEF k
  <2>4. ASSUME NEW n, n = k.out.ct.key, ~Grants(k), Used(n)'
        PROVE  store'[k.item] # None /\ store'[k.item].ct.key >= k.out.ct.key
    <3>1. NewKey(k)
      BY <2>1, <2>4 DEF JobTimely
    <3>2. CASE w = u
      <4>1. k.item = i /\ k.out = out /\ store'[k.item] = out
        BY <1>1, <2>3, <3>2 DEF i, out
      <4>2. store'[k.item] # None
        BY <1>1, <4>1
      <4>3. store'[k.item].ct.key = key /\ k.out.ct.key = key
        BY <4>1 DEF key
      <4>4. key >= key
        BY <1>2, <1>8
      <4> QED
        BY <4>2, <4>3, <4>4
    <3>3. CASE w # u
      <4>1. Used(k.out.ct.key)
        BY <1>2, <2>2, <2>4, <3>3
      <4>2. store[k.item] # None /\ store[k.item].ct.key >= k.out.ct.key
        BY <3>1, <4>1 DEF NewKey
      <4>3. store[k.item].ct.key \in 1 .. draws /\ k.out.ct.key \in 1 .. draws
        BY <1>5, <2>1, <3>1, <4>2 DEF StoreTimely, NewKey
      <4>4. CASE k.item # i
        BY <1>1, <2>1, <4>2, <4>4
      <4>5. CASE k.item = i
        <5>1. store'[i] = out /\ out # None
          BY <1>1
        <5>2. CASE Grants(j)
          BY <1>3, <4>2, <4>5, <5>1, <5>2 DEF key
        <5>3. CASE ~Grants(j)
          <6>1. store[i].ct.key < key
            BY <1>1, <1>4, <4>2, <4>5, <5>3 DEF NewKey, key, out
          <6> QED
            BY <1>2, <1>8, <4>2, <4>3, <4>5, <5>1, <6>1 DEF key
        <5> QED
          BY <5>2, <5>3
      <4> QED
        BY <4>4, <4>5
    <3> QED
      BY <3>2, <3>3
  <2>5. UNCHANGED <<generation, draws>>
    BY <1>1
  <2>6. KnownKeys(k.out) /\ Owners(k.out) # {}
    BY <2>1 DEF JobTimely
  <2>7. \A x \in DOMAIN k.out.wraps :
          k.out.wraps[x].recipient.gen <= generation'[k.out.wraps[x].recipient.owner]
    BY <2>5, <2>6 DEF KnownKeys
  <2>8. CASE Grants(k)
    BY <2>1, <2>6, <2>7, <2>8 DEF JobTimely, KnownKeys
  <2>9. CASE ~Grants(k)
    <3>1. NewKey(k) /\ (Writes(k) \/ Reseals(k))
      BY <2>1, <2>9 DEF JobTimely
    <3>2. ASSUME NEW n, n = k.out.ct.key, Used(n)'
          PROVE  store'[k.item] # None /\ store'[k.item].ct.key >= n
      BY <2>4, <2>9, <3>2
    <3>3. NewKey(job[w])'
      BY <2>1, <2>5, <3>1, <3>2 DEF NewKey
    <3> QED
      BY <2>1, <2>6, <2>7, <2>9, <3>1, <3>3 DEF JobTimely, KnownKeys
  <2> QED
    BY <2>8, <2>9
<1> QED
  BY <1>7, <1>12, <1>13 DEF Timely


\* Every step keeps everything timely.
LEMMA NextTimely ==
  ASSUME Inv, Timely, [Next]_vars
  PROVE  Timely'
<1>1. checked' = checked
  BY DEF Next, vars
<1>2. CASE ~checked
  BY <1>1, <1>2 DEF Timely
<1>3. CASE checked /\ UNCHANGED vars
  <2>1. \A u \in User : job'[u] # None => job'[u] = job[u]
    BY <1>3 DEF vars
  <2>2. /\ generation' \in [User -> Nat \ {0}]
        /\ \A u \in User : generation[u] <= generation'[u]
    BY <1>3 DEF vars, Inv, TypeOK
  <2> QED
    BY <1>3, <2>1, <2>2, QuietTimely DEF vars
<1>4. CASE checked /\ \E u \in User : Step(u)
  <2> PICK u \in User : Step(u)
    BY <1>4
  <2>1. ASSUME NEW i \in Item, NEW readers \in Recipients, Put(u, i, readers)
        PROVE  Timely'
    BY <1>1, <1>4, <2>1, PutTimely
  <2>2. ASSUME NEW i \in Item, NEW with \in User, Grant(u, i, with)
        PROVE  Timely'
    BY <1>1, <1>4, <2>2, GrantTimely
  <2>3. CASE Rotate(u) \/ Refuse(u) \/ Crash(u)
    BY <1>1, <1>4, <2>3, OtherTimely
  <2>4. CASE Resealing(u)
    BY <1>1, <1>4, <2>4, ResealTimely DEF Resealing
  <2>5. CASE Store(u)
    BY <1>1, <1>4, <2>5, StoreKeepsTimely
  <2> QED
    BY <2>1, <2>2, <2>3, <2>4, <2>5 DEF Step, Answer
<1> QED
  BY <1>2, <1>3, <1>4 DEF Next

\* Nothing has come to the server at first.
LEMMA InitTimely == Init => Timely
  BY ItemsAssumption DEF Init, Timely, StoreTimely, KeysApart

-----------------------------------------------------------------------------
(* A checking server: the theorems.                                        *)

\* Data keys come to the server in the order they were drawn.
THEOREM Timeliness == Spec => []Timely
<1>1. Init => Inv /\ Timely
  BY InitInv, InitTimely
<1>2. Inv /\ Timely /\ [Next]_vars => (Inv /\ Timely)'
  BY NextInv, NextTimely
<1> QED
  BY <1>1, <1>2, PTL DEF Spec

\* On a checking server whoever has held the data key an item is now under is a
\* reader of it: access taken away by re-encrypting stays away, for any number
\* of users and items and whatever was computed before.
THEOREM FormerReadersAreAlwaysShutOut == Spec => []FormerReadersAreShutOut
<1>1. Inv /\ Timely => FormerReadersAreShutOut
  <2> SUFFICES ASSUME Inv, Timely, checked,
                      NEW i \in Item, NEW u \in User,
                      store[i] # None, store[i].ct.key \in recovered[u]
               PROVE  u \in Readers(store[i])
    BY DEF FormerReadersAreShutOut
  <2>1. ItemOK(store[i]) /\ Coherent(store[i])
    BY DEF Inv, TypeOK
  <2>2. KnownKeys(store[i]) /\ u \in Owners(store[i])
    BY DEF Timely, StoreTimely
  <2> QED
    BY <2>1, <2>2, ReadersAreOwners DEF Inv
<1> QED
  BY <1>1, Coherence, Timeliness, PTL


-----------------------------------------------------------------------------
(* A checking server: the items as SharedItems has them.                   *)

\* Who can read a stored item is told from its wraps alone.
Told ==
  checked =>
    \A i \in Item : store[i] # None =>
      /\ ItemOK(store[i])
      /\ Readers(store[i]) = Owners(store[i])
      /\ Owners(store[i]) \subseteq User

LEMMA TimelyIsTold == Inv /\ Timely => Told
<1> SUFFICES ASSUME Inv, Timely, checked, NEW i \in Item, store[i] # None
             PROVE  /\ ItemOK(store[i])
                    /\ Readers(store[i]) = Owners(store[i])
                    /\ Owners(store[i]) \subseteq User
  BY DEF Told
<1>1. ItemOK(store[i]) /\ Coherent(store[i]) /\ KnownKeys(store[i])
  BY DEF Inv, TypeOK, Timely, StoreTimely
<1>2. Readers(store[i]) = Owners(store[i])
  BY <1>1, ReadersAreOwners DEF Inv
<1> QED
  BY <1>1, <1>2 DEF Readers

\* Only an upload that arrives changes what is stored.
LEMMA OnlyStoreChanges ==
  ASSUME NEW u \in User, Step(u), ~Store(u)
  PROVE  UNCHANGED <<store, past>>
BY DEF Step, Put, Grant, Rotate, Resealing, Reseal, Answer, Refuse, Crash, Encrypt, Pending

\* What stands for an item.
Summary(item) == [value |-> item.ct.pt, readers |-> Owners(item)]

\* It is not the absence of one.
LEMMA SummaryIsSome ==
  ASSUME NEW item, ItemOK(item), Owners(item) \subseteq User
  PROVE  Summary(item) # None
<1>1. item.ct.pt \in DrawNumber
  BY DEF ItemOK
<1>2. Summary(item) \in [value : DrawNumber, readers : SUBSET User]
  BY <1>1 DEF Summary
<1> QED
  BY <1>2, NoneIsNoItem

LEMMA ContentIsSummary ==
  ASSUME Told, checked
  PROVE  Content = [i \in Item |-> IF store[i] = None THEN None ELSE Summary(store[i])]
BY DEF Told, Content, Summary

\* Every step is one write, one sharing, or no step of SharedItems.
LEMMA ItemsImplement ==
  ASSUME Inv, Timely, Told, Told', [Next]_vars
  PROVE  [Abstract!Next]_<<Content, Written>>
<1>1. checked' = checked
  BY DEF Next, vars
<1>2. CASE ~checked
  <2>1. Content = [i \in Item |-> None] /\ Content' = [i \in Item |-> None]
    BY <1>1, <1>2 DEF Content
  <2>2. Written = {} /\ Written' = {}
    BY <1>1, <1>2 DEF Written
  <2> QED
    BY <2>1, <2>2
<1>3. CASE checked
  <2>1. /\ Content = [i \in Item |-> IF store[i] = None THEN None ELSE Summary(store[i])]
        /\ Written = past
    BY <1>3, ContentIsSummary DEF Written
  <2>2. /\ Content' = [i \in Item |-> IF store'[i] = None THEN None ELSE Summary(store'[i])]
        /\ Written' = past'
    BY <1>1, <1>3 DEF Told, Content, Summary, Owners, Written
  <2>3. CASE UNCHANGED <<store, past>>
    BY <2>1, <2>2, <2>3
  <2>4. ASSUME NEW u \in User, Store(u)
        PROVE  [Abstract!Next]_<<Content, Written>>
    <3> DEFINE j == job[u]
               i == j.item
               out == j.out
               pt == out.ct.pt
    <3>1. /\ j # None /\ i \in Item /\ ItemOK(out)
          /\ JobTimely(u, j)
          /\ store[i] = j.read
          /\ \A k \in Item : store'[k] = IF k = i THEN out ELSE store[k]
          /\ past' = past \cup {pt}
          /\ out # None
      BY <1>3, <2>4, StoreParts, ItemIsSome
    <3>2. Owners(out) \subseteq User /\ Owners(out) # {}
      <4>1. ItemOK(out) /\ Owners(out) # {}
        BY <3>1 DEF JobTimely
      <4> HIDE DEF out
      <4>2. Owners(out) \subseteq User
        BY <4>1, WrapsAreASequence DEF Owners, Wrap, KeyPair
      <4> QED
        BY <4>1, <4>2
    <3>3. pt \in DrawNumber
      BY <3>1 DEF ItemOK
    <3>4. Grants(j) =>
            /\ store[i] # None /\ out.ct = store[i].ct /\ pt \in past
            /\ u \in Owners(store[i])
            /\ \E with \in User : Owners(out) = Owners(store[i]) \cup {with}
      BY <1>3, <2>4, GrantIsOfStored
    <3>5. ~Grants(j) => ~Used(out.ct.key)
      BY <1>3, <2>4, NewKeyOnce
    <3>6. store[i] # None =>
            Summary(store[i]) # None /\ store[i].ct.pt \in past
      BY <1>3, <3>1, SummaryIsSome DEF Told, Timely, StoreTimely
    <3> HIDE DEF j, i, out, pt
    <3>7. Content' = [k \in Item |-> IF k = i THEN Summary(out) ELSE Content[k]]
      BY <2>1, <2>2, <3>1
    <3>8. CASE Grants(j)
      <4> PICK with \in User : Owners(out) = Owners(store[i]) \cup {with}
        BY <3>4, <3>8
      <4>1. /\ Content[i] = Summary(store[i]) /\ Content[i] # None
            /\ u \in Content[i].readers
        BY <2>1, <3>1, <3>4, <3>6, <3>8 DEF Summary
      <4>2. Summary(out) = [Content[i] EXCEPT !.readers = @ \cup {with}]
        BY <3>4, <3>8, <4>1 DEF Summary, pt
      <4>3. Content' = [Content EXCEPT ![i].readers = @ \cup {with}]
        BY <2>1, <3>1, <3>7, <4>2
      <4>4. Written' = Written
        BY <2>1, <2>2, <3>1, <3>4, <3>8
      <4> QED
        BY <3>1, <4>1, <4>3, <4>4 DEF Abstract!Next, Abstract!Share
    <3>9. CASE ~Grants(j) /\ Writes(j)
      <4>1. pt \notin Written
        BY <2>1, <3>5, <3>9 DEF Writes, Used, pt, out
      <4>2. Written' = Written \cup {pt}
        BY <2>1, <2>2, <3>1
      <4>3. Content' = [Content EXCEPT ![i] = [value |-> pt, readers |-> Owners(out)]]
        BY <2>1, <3>1, <3>7 DEF Summary, pt
      <4> DEFINE readers == Owners(out)
      <4>4. readers \in (SUBSET User) \ {{}}
        BY <3>2
      <4>5. Abstract!Write(i, pt, readers)
        BY <4>1, <4>2, <4>3 DEF Abstract!Write
      <4> HIDE DEF readers
      <4> QED
        BY <3>1, <3>3, <4>4, <4>5 DEF Abstract!Next
    <3>10. CASE ~Grants(j) /\ Reseals(j)
      <4>1. store[i] # None /\ pt = store[i].ct.pt /\ Owners(out) = Owners(store[i])
        BY <3>1, <3>10 DEF Reseals, pt, out
      <4>2. Content[i] = Summary(out)
        BY <2>1, <3>1, <4>1 DEF Summary, pt
      <4>3. Content' = Content
        BY <2>1, <3>1, <3>7, <4>2
      <4>4. Written' = Written
        BY <2>1, <2>2, <3>1, <3>6, <4>1
      <4> QED
        BY <4>3, <4>4
    <3> QED
      BY <3>1, <3>8, <3>9, <3>10 DEF JobTimely
  <2> QED
    BY <2>3, <2>4, OnlyStoreChanges DEF Next, vars
<1> QED
  BY <1>2, <1>3

\* With a checking server the items refine SharedItems: every accepted upload
\* is one write or one sharing of the item as it is at that moment.
THEOREM UploadsAreAtomic == Spec => ImplementsSharedItems
<1>1. Init => Abstract!Init
  BY DEF Init, Abstract!Init, Content, Written
<1>2. Inv /\ Timely /\ Told /\ Told' /\ [Next]_vars => [Abstract!Next]_(Abstract!svars)
  BY ItemsImplement DEF Abstract!svars
<1> QED
  BY <1>1, <1>2, Coherence, Timeliness, TimelyIsTold, PTL
     DEF Spec, ImplementsSharedItems, Abstract!Spec


-----------------------------------------------------------------------------
(* When an old secret may go.                                              *)

\* A user keeps an item that lists no replaced key of u.
LEMMA PendingMigrated ==
  ASSUME Inv, NEW u \in User, Migrated(u), generation'[u] = generation[u],
         NEW w \in User, NEW i \in Item, NEW item, Pending(w, i, item),
         \A k \in DOMAIN item.wraps : item.wraps[k].recipient \notin Retired(u)
  PROVE  Migrated(u)'
<1>1. Retired(u)' = Retired(u)
  BY DEF Retired, Secrets, Registered
<1>2. store' = store
  BY DEF Pending
<1>3. \A i0 \in Item : ~ListsRetired(u, i0)'
  BY <1>1, <1>2 DEF Migrated, ListsRetired
<1>4. job'[w].out = item /\ \A x \in User : x # w => job'[x] = job[x]
  BY DEF Pending, Inv, TypeOK
<1>5. ASSUME NEW x \in User, job'[x] # None, NEW k \in DOMAIN job'[x].out.wraps
      PROVE  job'[x].out.wraps[k].recipient \notin Retired(u)
  <2>1. CASE x = w
    BY <1>4, <1>5, <2>1
  <2>2. CASE x # w
    <3>1. job'[x] = job[x]
      BY <1>4, <2>2
    <3> QED
      BY <1>5, <3>1 DEF Migrated
  <2> QED
    BY <2>1, <2>2
<1> QED
  BY <1>1, <1>3, <1>5 DEF Migrated

\* Encrypting for keys that are not replaced.
LEMMA EncryptMigrated ==
  ASSUME Inv, NEW u \in User, Migrated(u), generation'[u] = generation[u],
         NEW w \in User, NEW i \in Item, NEW value, NEW recipients,
         Encrypt(w, i, value, recipients),
         \A k \in DOMAIN recipients : recipients[k] \notin Retired(u)
  PROVE  Migrated(u)'
<1> DEFINE item == EncryptItem(value, Fresh, recipients)
<1>1. Pending(w, i, item)
  BY DEF Encrypt
<1>2. /\ DOMAIN item.wraps = DOMAIN recipients
      /\ \A k \in DOMAIN recipients : item.wraps[k].recipient = recipients[k]
  BY EncryptedOwners
<1> HIDE DEF item
<1> QED
  BY <1>1, <1>2, PendingMigrated

\* A grant adds a registered key to those the item lists.
LEMMA GrantMigrated ==
  ASSUME Inv, NEW u \in User, Migrated(u), generation'[u] = generation[u],
         NEW w \in User, NEW i \in Item, NEW with \in User, Grant(w, i, with)
  PROVE  Migrated(u)'
<1> PICK id \in Secrets(w) :
      /\ CanRecover(store[i], id)
      /\ Pending(w, i, GrantItem(store[i], id, Registered(with)))
  BY DEF Grant
<1> DEFINE old == store[i]
           new == WrapDek(Registered(with), RecoverDek(old, id))
           item == GrantItem(old, id, Registered(with))
<1>1. old # None /\ ItemOK(old) /\ Coherent(old)
  BY DEF Grant, Inv, TypeOK
<1>2. item.wraps = Append(old.wraps, new)
  <2>1. old = [v |-> 1, ct |-> old.ct, wraps |-> old.wraps]
    BY <1>1 DEF ItemOK
  <2> QED
    BY <2>1 DEF GrantItem
<1>3. new.recipient = Registered(with)
  BY DEF WrapDek
<1>4. new \in Wrap
  <2>1. RecoverDek(old, id) = old.ct.key
    BY <1>1, RecoversTheKey
  <2>2. Registered(with) \in KeyPair
    BY RegisteredType DEF Inv
  <2> QED
    BY <1>1, <2>1, <2>2 DEF WrapDek, SealTo, Wrap, ItemOK
<1>5. \A k \in DOMAIN old.wraps : old.wraps[k].recipient \notin Retired(u)
  BY <1>1 DEF Migrated, ListsRetired
<1>6. old.wraps \in Seq(Wrap)
  BY <1>1 DEF ItemOK
<1> HIDE DEF new, item, old
<1>7. \A k \in DOMAIN item.wraps : item.wraps[k] = new \/ (k \in DOMAIN old.wraps /\ item.wraps[k] = old.wraps[k])
  BY <1>2, <1>4, <1>6, AppendProperties
<1>8. \A k \in DOMAIN item.wraps : item.wraps[k].recipient \notin Retired(u)
  BY <1>3, <1>5, <1>7, RegisteredIsNotRetired
<1>9. Pending(w, i, item)
  BY DEF item, old
<1> QED
  BY <1>8, <1>9, PendingMigrated

\* Once migrated, migrated until the next rotation.
LEMMA StepMigrated ==
  ASSUME Inv, NEW u \in User, Migrated(u), generation'[u] = generation[u],
         NEW w \in User, Step(w)
  PROVE  Migrated(u)'
<1>1. Retired(u)' = Retired(u)
  BY DEF Retired, Secrets, Registered
<1>2. ASSUME NEW i \in Item, NEW readers \in Recipients, Put(w, i, readers)
      PROVE  Migrated(u)'
  <2> DEFINE recipients == [k \in DOMAIN readers |-> Registered(readers[k])]
  <2>1. \A k \in DOMAIN readers : readers[k] \in User
    BY DEF Recipients
  <2>2. \A k \in DOMAIN recipients : recipients[k] \notin Retired(u)
    BY <2>1, RegisteredIsNotRetired
  <2>3. Encrypt(w, i, Fresh, recipients)
    BY <1>2 DEF Put
  <2> HIDE DEF recipients
  <2> QED
    BY <2>2, <2>3, EncryptMigrated
<1>3. ASSUME NEW i \in Item, Reseal(w, i)
      PROVE  Migrated(u)'
  <2> DEFINE ws == store[i].wraps
             recipients == Renewed(w, ws)
  <2>1. store[i] # None /\ Encrypt(w, i, store[i].ct.pt, recipients)
    BY <1>3 DEF Reseal, ListsRetired
  <2>2. \A k \in DOMAIN ws : ws[k].recipient \notin Retired(u)
    BY <2>1 DEF Migrated, ListsRetired
  <2>3. \A k \in DOMAIN recipients : recipients[k] \notin Retired(u)
    BY <2>2, RegisteredIsNotRetired DEF Renewed
  <2> HIDE DEF recipients
  <2> QED
    BY <2>1, <2>3, EncryptMigrated
<1>4. CASE Store(w)
  <2>1. job[w] # None /\ job[w].item \in Item
    BY <1>4 DEF Store, Idle, Inv, TypeOK
  <2>2. \A i \in Item : store'[i] = store[i] \/ store'[i] = job[w].out
    BY <1>4, <2>1 DEF Store, Inv, TypeOK
  <2>3. \A x \in User : job'[x] # None => job'[x] = job[x]
    BY <1>4 DEF Store, Inv, TypeOK
  <2>4. ASSUME NEW i \in Item, store'[i] # None, NEW k \in DOMAIN store'[i].wraps
        PROVE  store'[i].wraps[k].recipient \notin Retired(u)
    BY <2>1, <2>2, <2>4 DEF Migrated, ListsRetired
  <2>5. \A i \in Item : ~ListsRetired(u, i)'
    BY <1>1, <2>4 DEF ListsRetired
  <2> QED
    BY <1>1, <2>3, <2>5 DEF Migrated
<1>5. CASE Rotate(w) \/ Refuse(w) \/ Crash(w)
  <2>1. store' = store
    BY <1>5 DEF Rotate, Refuse, Crash
  <2>2. \A x \in User : job'[x] # None => job'[x] = job[x]
    BY <1>5 DEF Rotate, Refuse, Crash, Inv, TypeOK
  <2>3. \A i \in Item : ~ListsRetired(u, i)'
    BY <1>1, <2>1 DEF Migrated, ListsRetired
  <2> QED
    BY <1>1, <2>2, <2>3 DEF Migrated
<1> QED
  BY <1>2, <1>3, <1>4, <1>5, GrantMigrated DEF Step, Resealing, Answer

\* Once no item stored or pending lists a replaced key of a user, the old secrets
\* may go: no step but a rotation makes them needed again, on either kind of
\* server and for any number of users and items.
THEOREM MigrationStaysFinal == Spec => MigrationIsFinal
<1>1. Inv /\ [Next]_vars =>
        [\A u \in User : Migrated(u) /\ generation'[u] = generation[u] => Migrated(u)']_vars
  BY StepMigrated DEF Next
<1> QED
  BY <1>1, Coherence, PTL DEF Spec, MigrationIsFinal

-----------------------------------------------------------------------------
(* A migration goes on.                                                    *)

\* Whoever has rotated can do what rotate_identity asks of its caller: as long as
\* an item lists a replaced key of a user, one of the secrets this user has kept
\* opens the item, on either kind of server and whatever the others stored.
NobodyIsStuck ==
  \A u \in User, i \in Item : ListsRetired(u, i) => u \in Readers(store[i])

\* Re-encrypting is a step ahead: the item computed lists no replaced key of the
\* user, and has the value and the readers of the item that it is to replace.
MigrationAdvances ==
  [][\A u \in User, i \in Item :
       checked /\ Reseal(u, i) =>
         /\ \A k \in DOMAIN job'[u].out.wraps :
              job'[u].out.wraps[k].recipient \notin Retired(u)
         /\ Readers(job'[u].out) = Readers(store[i])
         /\ job'[u].out.ct.pt = store[i].ct.pt]_vars

\* A user with a replaced key among the recipients is always a reader.
THEOREM NobodyIsEverStuck == Spec => []NobodyIsStuck
<1>1. Inv => NobodyIsStuck
  <2> SUFFICES ASSUME Inv, NEW u \in User, NEW i \in Item, ListsRetired(u, i)
               PROVE  u \in Readers(store[i])
    BY DEF NobodyIsStuck
  <2>1. PICK k \in DOMAIN store[i].wraps : store[i].wraps[k].recipient \in Retired(u)
    BY DEF ListsRetired
  <2>2. ItemOK(store[i]) /\ Coherent(store[i])
    BY DEF ListsRetired, Inv, TypeOK
  <2>3. CanDecrypt(store[i], store[i].wraps[k].recipient)
    BY <2>2, CoherentMeansReadable
  <2> QED
    BY <2>1, <2>3 DEF Retired, Readers
<1> QED
  BY <1>1, Coherence, PTL

\* What is re-encrypted has the same value and readers, under present keys.
THEOREM MigrationAlwaysAdvances == Spec => MigrationAdvances
<1>1. ASSUME Inv, Timely, NEW u \in User, NEW i \in Item, checked, Reseal(u, i)
      PROVE  /\ \A k \in DOMAIN job'[u].out.wraps :
                  job'[u].out.wraps[k].recipient \notin Retired(u)
             /\ Readers(job'[u].out) = Readers(store[i])
             /\ job'[u].out.ct.pt = store[i].ct.pt
  <2> PICK item :
        /\ Pending(u, i, item) /\ store[i] # None
        /\ ItemOK(item) /\ Coherent(item)
        /\ KnownKeys(item) /\ Owners(item) = Owners(store[i])
        /\ item.ct.pt = store[i].ct.pt
        /\ \A k \in DOMAIN item.wraps : item.wraps[k].recipient \notin Retired(u)
    BY <1>1, ResealComputes
  <2>1. job'[u].out = item
    <3>1. job'[u] = [item |-> i, out |-> item, read |-> store[i]]
      BY <1>1 DEF Pending, Inv, TypeOK
    <3> QED
      BY <3>1
  <2>2. ItemOK(store[i]) /\ Coherent(store[i]) /\ KnownKeys(store[i])
    BY <1>1 DEF Inv, TypeOK, Timely, StoreTimely
  <2>3. Readers(item) = Owners(item) /\ Readers(store[i]) = Owners(store[i])
    BY <1>1, <2>2, ReadersAreOwners DEF Inv
  <2> QED
    BY <2>1, <2>3
<1>2. Inv /\ Timely =>
        [\A u \in User, i \in Item :
           checked /\ Reseal(u, i) =>
             /\ \A k \in DOMAIN job'[u].out.wraps :
                  job'[u].out.wraps[k].recipient \notin Retired(u)
             /\ Readers(job'[u].out) = Readers(store[i])
             /\ job'[u].out.ct.pt = store[i].ct.pt]_vars
  BY <1>1
<1> QED
  BY <1>2, Coherence, Timeliness, PTL DEF Spec, MigrationAdvances
=============================================================================
