-------------------------- MODULE VaultProperties ---------------------------
(***************************************************************************)
(* What must hold of Vault.  The first group holds even when the server    *)
(* takes every write it is sent; the second needs a server that checks.    *)
(***************************************************************************)
EXTENDS Vault

\* The well-formed values of each part of the state.
DrawNumber == 1 .. MaxDraws

Kek ==
  [kind : {"2skd", "recovery", "prf"},
   factor : Passphrase \cup Device \cup {None},
   secret : DrawNumber \cup {None},
   profile : Profile \cup {None}]

Blob(Key) == [key : Key, pt : DrawNumber, nonce : DrawNumber]

WrappedAuk ==
  [v : {1},
   method : {"passphrase", "recovery", "webauthn-prf"},
   params : Profile \cup {"zero"},
   blob : Blob(Kek)]

Public == [public : DrawNumber]

\* An absent field is told from a wrap and from a sealed secret.
ASSUME NoneIsNoBlob == None \notin WrappedAuk \cup Blob(DrawNumber)

FieldType(f) ==
  CASE f \in {"wpp", "wrec", "wprf"} -> WrappedAuk
    [] f \in {"wid", "wamk"}         -> Blob(DrawNumber)
    [] f \in {"pub", "amkPub"}       -> Public

\* Field values as the server may hold them.
RecordOK(r) ==
  /\ r = [f \in Field |-> r[f]]
  /\ \A f \in Field : r[f] = None \/ r[f] \in FieldType(f)

JobOK(j) ==
  /\ j = [op |-> j.op, n |-> j.n, out |-> j.out, read |-> j.read]
  /\ j.n \in DrawNumber
  /\ DOMAIN j.out \subseteq Field
  /\ DOMAIN j.read = DOMAIN j.out
  /\ \A f \in DOMAIN j.out :
       /\ j.out[f] \in FieldType(f)
       /\ j.read[f] = None \/ j.read[f] \in FieldType(f)

\* Type invariant: every variable, every stored field and every pending
\* upload has the shape the flows give it.
TypeOK ==
  /\ RecordOK(server)
  /\ job = [d \in Device |-> job[d]]
  /\ \A d \in Device : job[d] = None \/ JobOK(job[d])
  /\ keys \in [Device -> SUBSET DrawNumber]
  /\ codes \subseteq DrawNumber
  /\ held \in [Device -> SUBSET DrawNumber]
  /\ signed \subseteq DrawNumber
  /\ draws \in 0 .. MaxDraws
  /\ past \subseteq DrawNumber

-----------------------------------------------------------------------------
(* With any server.                                                        *)

\* The key that seals the stored identity: the vault's AUK.
VaultAuk == server.wid.key

\* Every stored wrap yields the one AUK that seals the stored identity and
\* the stored AMK, however the re-wraps of several devices interleave: a wrap
\* made from a stale read is old, never foreign (auk.rs, the re-wrapping flows).
OneAuk ==
  Registered =>
    /\ AukOf(server.wpp) = VaultAuk
    /\ AukOf(server.wrec) = VaultAuk
    /\ server.wprf # None => AukOf(server.wprf) = VaultAuk
    /\ server.wamk # None => server.wamk.key = VaultAuk

\* No flow but a creation makes an AUK: once registered, a vault keeps its own
\* through every change, reset, rotation and enrolment.
AukNeverReplaced == [][Registered => VaultAuk' = VaultAuk]_vars

\* The registered public keys are those of the sealed secrets.  An identity
\* rotation and an AMK mint each write a pair of fields, and no interleaving
\* leaves the halves of two different pairs.
PublicKeysMatch ==
  Registered =>
    /\ server.pub = PublicOf(server.wid.pt)
    /\ IF server.wamk = None
         THEN server.amkPub = None
         ELSE server.amkPub = PublicOf(server.wamk.pt)

\* The user is never locked out: some device has saved a Secret Key that opens
\* the stored passphrase wrap, the user has a code that opens the stored
\* recovery wrap, and either yields the identity.  This is what lets
\* reset_passphrase take any Secret Key the device happens to have.
NeverLockedOut ==
  Registered =>
    /\ \E pp \in Passphrase, sk \in SavedKeys :
         /\ CanUnlockAuk(pp, sk)
         /\ Opens(AukOf(server.wpp), server.wid)
    /\ \E code \in codes :
         /\ CanUnlockRecovery(code)
         /\ Opens(AukOf(server.wrec), server.wid)

-----------------------------------------------------------------------------
(* The inductive invariant behind the four properties above: what is true  *)
(* of the stored fields is already true of every pending upload, whatever  *)
(* the upload was computed from.                                           *)

\* A value of field f that concerns the vault with this AUK.
BelongsTo(f, x, auk) ==
  /\ f \in {"wpp", "wrec", "wprf"} => AukOf(x) = auk
  /\ f \in {"wid", "wamk"} => x.key = auk

\* A value of field f that some saved key or written code opens.
Usable(f, x, saved, written) ==
  /\ f = "wpp" => \E pp \in Passphrase, sk \in saved :
                    UnwrapsWithPassphrase(x, pp, sk)
  /\ f = "wrec" => \E code \in written : UnwrapsWithKek(x, RecoveryKek(code))

\* Each public key travels with its secret.
Paired(out) ==
  /\ "wid" \in DOMAIN out <=> "pub" \in DOMAIN out
  /\ "wid" \in DOMAIN out => out.pub = PublicOf(out.wid.pt)
  /\ "wamk" \in DOMAIN out <=> "amkPub" \in DOMAIN out
  /\ "wamk" \in DOMAIN out => out.amkPub = PublicOf(out.wamk.pt)

OutSound(out, auk, saved, written) ==
  /\ \A f \in DOMAIN out :
       BelongsTo(f, out[f], auk) /\ Usable(f, out[f], saved, written)
  /\ Paired(out)

\* What a creation stores; the other fields come later.
Core == {"wpp", "wrec", "wid", "pub"}

JobSound(j) ==
  IF j.op = "create_vault"
    THEN DOMAIN j.out = Core /\ OutSound(j.out, j.out.wid.key, SavedKeys, codes)
    ELSE Registered /\ OutSound(j.out, VaultAuk, SavedKeys, codes)

ServerSound ==
  Registered =>
    /\ \A f \in Core : server[f] \in FieldType(f)
    /\ \A f \in Field :
         server[f] # None =>
           /\ BelongsTo(f, server[f], VaultAuk)
           /\ Usable(f, server[f], SavedKeys, codes)
    /\ PublicKeysMatch

\* The inductive invariant.
Sound ==
  /\ TypeOK
  /\ ServerSound
  /\ \A d \in Device : job[d] # None => JobSound(job[d])

-----------------------------------------------------------------------------
(* With a server that checks writes.                                       *)

\* "The old code stops working once the server replaces the stored recovery
\* wrap" (rotate_recovery_code), and for good: no late or repeated upload
\* brings back a code that was stored once and no longer opens the wrap.
RetiredCodeStaysDead ==
  [][\A code \in codes \cap past :
       ~CanUnlockRecovery(code) => ~CanUnlockRecovery(code)']_vars

OpensWithKey(sk) == \E pp \in Passphrase : CanUnlockAuk(pp, sk)

\* A Secret Key that was rotated away opens the vault again only through
\* reset_passphrase, the one flow that takes the key on the caller's word.
RetiredKeyReturnsOnlyByReset ==
  [][\A sk \in SavedKeys \cap past :
       ~OpensWithKey(sk) /\ Registered /\ OpensWithKey(sk)' =>
         \E d \in Device :
           /\ ~Idle(d)
           /\ job[d].op = "reset_passphrase"
           /\ server'.wpp = job[d].out.wpp]_vars

\* When an identity is replaced, the device that replaced it holds both the
\* replaced secret and the new one, so the items sealed to the replaced
\* identity can still be re-encrypted (rotate_identity returns the old secret).
ReplacedIdentityIsHeld ==
  [][Registered /\ server.wid' # server.wid =>
       \E d \in Device : {server.wid.pt, server'.wid.pt} \subseteq held[d]]_vars

\* A signature by the AMK verifies under the registered AMK public key for
\* ever after: two devices that both find no AMK do not both install one.
SignaturesVerify ==
  \A signer \in signed : Verifies(server.amkPub, signer)

-----------------------------------------------------------------------------
(* The inductive invariant behind the properties of a checking server:     *)
(* nonces tell which of two values of a field is the later one, so that a  *)
(* check that a field still is what was read is a check of its time.       *)

\* The fields that are sealed, and carry the nonce of the draw that sealed them.
Stamped == {"wpp", "wrec", "wprf", "wid", "wamk"}

Stamp(f, x) == IF f \in {"wid", "wamk"} THEN x.nonce ELSE x.blob.nonce

\* The factors a passphrase wrap was made with.
Factor(w) == w.blob.key.factor
Secret(w) == w.blob.key.secret

\* What each flow makes of the fields it read: the credential it is about is
\* new, and of the wrap that holds two factors the other is kept.
Result(d, j) ==
  \/ /\ j.op = "create_vault"
     /\ DOMAIN j.out = Core
     /\ j.out.wpp.params \in Profile
     /\ Secret(j.out.wpp) = j.n
     /\ Secret(j.out.wrec) = j.n
     /\ j.out.wid.pt = j.n
  \/ /\ j.op \in {"change_passphrase", "reset_passphrase", "rotate_secret_key"}
     /\ DOMAIN j.out = {"wpp"}
     /\ j.out.wpp.params = "constrained"
     /\ j.op = "change_passphrase" => Secret(j.out.wpp) = Secret(j.read.wpp)
     /\ j.op = "rotate_secret_key" => /\ Factor(j.out.wpp) = Factor(j.read.wpp)
                                      /\ Secret(j.out.wpp) = j.n
  \/ /\ j.op = "rotate_recovery_code"
     /\ DOMAIN j.out = {"wrec"}
     /\ Secret(j.out.wrec) = j.n
  \/ /\ j.op = "rotate_identity"
     /\ DOMAIN j.out = {"wid", "pub"}
     /\ j.out.wid.pt = j.n
  \/ /\ j.op = "enroll_prf"
     /\ DOMAIN j.out = {"wprf"}
     /\ Factor(j.out.wprf) = d
  \/ /\ j.op = "amk_mint"
     /\ DOMAIN j.out = {"wamk", "amkPub"}
     /\ j.read.wamk = None
     /\ j.out.wamk.pt = j.n
  \/ /\ j.op = "amk_load"
     /\ DOMAIN j.out = {"wamk", "amkPub"}
     /\ j.out.wamk = j.read.wamk
     /\ j.out.wamk # None

\* A pending upload of a draw was sealed by that draw, after what it replaces;
\* once it has been stored, the fields it wrote are as new as it or newer.
JobOrderly(d, j) ==
  /\ Result(d, j)
  /\ j.op = "amk_load" => j.n \in past
  /\ j.op = "rotate_identity" => {j.n, j.read.wid.pt} \subseteq held[d]
  /\ j.op # "amk_load" =>
       /\ j.n \in 1 .. draws
       /\ \A f \in DOMAIN j.out \cap Stamped :
            /\ Stamp(f, j.out[f]) = j.n
            /\ j.read[f] # None => Stamp(f, j.read[f]) < j.n
            /\ j.n \in past => server[f] # None /\ Stamp(f, server[f]) >= j.n

\* The record was sealed by draws that reached the server, and what signed is
\* the AMK it holds.
ServerOrderly ==
  /\ past \subseteq 1 .. draws
  /\ ~Registered => past = {}
  /\ \A f \in Stamped : server[f] # None => Stamp(f, server[f]) \in past
  /\ signed # {} => server.wamk # None /\ signed = {server.wamk.pt}

\* No two devices keep results of the same draw.
DrawsApart ==
  \A d, e \in Device :
    /\ d # e
    /\ job[d] # None /\ job[e] # None
    /\ job[d].op # "amk_load" /\ job[e].op # "amk_load"
    => job[d].n # job[e].n

\* The inductive invariant, together with Sound.
Orderly ==
  /\ ServerOrderly
  /\ \A d \in Device : job[d] # None => JobOrderly(d, job[d])
  /\ DrawsApart

-----------------------------------------------------------------------------
(* The abstract account.                                                   *)

\* The credentials that fields r of a registered vault stand for.
Credentials(r) ==
  [pp       |-> Factor(r.wpp),
   sk       |-> Secret(r.wpp),
   profile  |-> r.wpp.params,
   code     |-> Secret(r.wrec),
   passkey  |-> IF r.wprf = None THEN None ELSE Factor(r.wprf),
   identity |-> r.wid.pt,
   amk      |-> IF r.wamk = None THEN None ELSE r.wamk.pt]

AccountView == IF Registered THEN Credentials(server) ELSE None

AccountRecord ==
  [pp       : Passphrase,
   sk       : DrawNumber,
   profile  : Profile \cup {"zero"},
   code     : DrawNumber,
   passkey  : Passphrase \cup Device \cup {None},
   identity : DrawNumber,
   amk      : DrawNumber \cup {None}]

\* No account is told from an account.
ASSUME NoneIsNoAccount == None \notin AccountRecord

Abstract ==
  INSTANCE Account WITH
    acct <- AccountView, Passkey <- Device, Draw <- DrawNumber

\* With a checking server the flows are atomic: every accepted upload is one
\* operation of Account on the credentials current at that moment, and every
\* other step changes none of them.
ImplementsAccount == Abstract!Spec
=============================================================================
