------------------------------- MODULE Shares -------------------------------
(***************************************************************************)
(* One-time shares: src/share.rs and the share flows of src/flows.rs.      *)
(*                                                                         *)
(* encrypt_share makes an envelope, a PKEV byte string to upload, and a    *)
(* key blob, a line of text to hand over.  The two travel apart and may be *)
(* mixed up or damaged on the way; decrypt_share is given one of each.     *)
(* The header of an envelope is not authenticated: magic, version, cipher  *)
(* tag and the length of the KEM ciphertext are as they arrive.            *)
(***************************************************************************)
EXTENDS Blobs

CONSTANTS
  Bundle,       \* what is shared: records with a version v and files
  KemCtLen,
  KeyLen,       \* length of a symmetric key and of a KEM secret alike
  MaxShares,    \* bound: shares made
  MaxDamage     \* bound: faults in transit

ASSUME SharesAssumption ==
  /\ Noise \subseteq Byte /\ Byte \subseteq 0 .. 255
  /\ {NonceLen, TagLen, DataLen, KemCtLen, KeyLen} \subseteq Nat \ {0}
  /\ KemCtLen < 65536
  /\ None \notin Bundle
  /\ {MaxShares, MaxDamage} \subseteq Nat

VARIABLES
  made,      \* the shares made
  wire,      \* the envelope and the key blob that arrive, or None
  damage,    \* how many faults there were
  result     \* what decrypt_share returned, or None

vars == <<made, wire, damage, result>>

-----------------------------------------------------------------------------
(* The envelope.                                                           *)

Magic == <<80, 75, 69, 86>>
Version == 2
Cipher == {"xchacha", "xwing"}
Tag(cipher) == IF cipher = "xchacha" THEN 1 ELSE 2

\* Mutant: writes no version.
FrameUnversioned(cipher, payload) == Magic \o <<Tag(cipher)>> \o payload

Frame(cipher, payload) == Magic \o <<Version, Tag(cipher)>> \o payload

\* Mutant: takes any version.
UnframesAnyVersion(e) ==
  /\ Len(e) >= 6
  /\ Slice(e, 0, 4) = Magic
  /\ e[6] \in {Tag(c) : c \in Cipher}

Unframes(e) ==
  /\ Len(e) >= 6
  /\ Slice(e, 0, 4) = Magic
  /\ e[5] = Version
  /\ e[6] \in {Tag(c) : c \in Cipher}

\* Mutant: the bytes the wrong way round.
U16LittleEndian(n) == <<n % 256, n \div 256>>

U16BigEndian(n) == <<n \div 256, n % 256>>

\* Mutant: does not look at the length.
KemPartUnchecked(payload) ==
  LET end == 2 + 256 * payload[1] + payload[2]
  IN  [ct |-> Slice(payload, 2, end), blob |-> Slice(payload, end, Len(payload)),
       ok |-> TRUE]

\* The KEM ciphertext and the AEAD blob of a payload; not ok if it is too
\* short for the length it states.
KemPart(payload) ==
  LET end == 2 + 256 * payload[1] + payload[2]
  IN  [ct |-> Slice(payload, 2, end), blob |-> Slice(payload, end, Len(payload)),
       ok |-> end <= Len(payload)]

-----------------------------------------------------------------------------
(* Keys.  `secret' numbers the share a key was made for.                   *)

SymmetricKey(secret) == [secret |-> secret, ct |-> <<>>]

\* HKDF of the shared secret and the KEM ciphertext.  Decapsulation does not
\* fail: another secret, or another ciphertext, yields another key.
KemKey(secret, ct) == [secret |-> secret, ct |-> ct]

\* pock-key:v2:<cipher>:<key>
KeyBlob(cipher, secret) == [cipher |-> cipher, secret |-> secret, len |-> KeyLen]

Sealed == {made[n].sealed : n \in DOMAIN made}

\* X-Wing: the stated length must fit, the ciphertext have its one length.
OpenXwing(payload, key) ==
  IF Len(payload) < 2 THEN Err("decode")
  ELSE LET part == KemPart(payload)
       IN  CASE ~part.ok -> Err("decode")
             [] part.ok /\ Panic \in {part.ct, part.blob} -> Err("panic")
             [] part.ok /\ Panic \notin {part.ct, part.blob}
                  /\ (Len(part.ct) # KemCtLen \/ key.len # KeyLen) -> Err("decode")
             [] OTHER -> OpenBlob(KemKey(key.secret, part.ct), part.blob, Sealed)

OpenXchacha(payload, key) ==
  IF key.len # KeyLen THEN Err("decode")
  ELSE OpenBlob(SymmetricKey(key.secret), payload, Sealed)

DecryptShare(e, key) ==
  IF ~Unframes(e) \/ key.cipher \notin Cipher THEN Err("decode")
  ELSE IF e[6] # Tag(key.cipher) THEN Err("decode")
  ELSE IF key.cipher = "xchacha" THEN OpenXchacha(Slice(e, 6, Len(e)), key)
  ELSE OpenXwing(Slice(e, 6, Len(e)), key)

-----------------------------------------------------------------------------
Init ==
  /\ made = <<>>
  /\ wire = None
  /\ damage = 0
  /\ result = None

\* A share made: its parts, and what was sealed under what.
Made(cipher, payload, key, blob, bundle) ==
  [envelope |-> Frame(cipher, payload),
   key      |-> KeyBlob(cipher, key.secret),
   sealed   |-> [key |-> key, blob |-> blob, data |-> bundle]]

EncryptShare(bundle, cipher) ==
  /\ wire = None
  /\ Len(made) < MaxShares
  /\ \E nonce \in RandomBytes(NonceLen), ct \in RandomBytes(KemCtLen) :
       LET n    == Len(made) + 1
           blob == SealedBlob(nonce)
       IN  made' = Append(made,
             IF cipher = "xchacha"
               THEN Made(cipher, blob, SymmetricKey(n), blob, bundle)
               ELSE Made(cipher, U16BigEndian(Len(ct)) \o ct \o blob,
                         KemKey(n, ct), blob, bundle))
  /\ UNCHANGED <<wire, damage, result>>

-----------------------------------------------------------------------------
(* The way to the recipient (external).                                    *)

Deliver(i, j) ==
  /\ wire = None
  /\ wire' = [envelope |-> made[i].envelope, key |-> made[j].key]
  /\ UNCHANGED <<made, damage, result>>

\* A fault in the text of a key blob: another cipher, or part of the key lost.
DamagedKey(key) ==
  {[key EXCEPT !.cipher = c] : c \in Cipher \cup {"other"}}
    \cup {[key EXCEPT !.len = KeyLen - 1]}

Damage ==
  /\ wire # None /\ result = None
  /\ damage < MaxDamage
  /\ damage' = damage + 1
  /\ wire' \in {[wire EXCEPT !.envelope = e] :
                  e \in Damaged(wire.envelope, {made[n].envelope : n \in DOMAIN made})}
               \cup {[wire EXCEPT !.key = k] : k \in DamagedKey(wire.key)}
  /\ UNCHANGED <<made, result>>

Decrypt ==
  /\ wire # None /\ result = None
  /\ result' = DecryptShare(wire.envelope, wire.key)
  /\ UNCHANGED <<made, wire, damage>>

Next ==
  \/ \E bundle \in Bundle, cipher \in Cipher : EncryptShare(bundle, cipher)
  \/ \E i, j \in DOMAIN made : Deliver(i, j)
  \/ Damage
  \/ Decrypt

Spec == Init /\ [][Next]_vars

-----------------------------------------------------------------------------
(* Properties.                                                             *)

\* The length of a payload.
PayloadLen(cipher) ==
  NonceLen + DataLen + TagLen + (IF cipher = "xwing" THEN 2 + KemCtLen ELSE 0)

\* Type invariant.
TypeOK ==
  /\ Len(made) <= MaxShares
  /\ \A n \in DOMAIN made :
       /\ made[n].key.cipher \in Cipher
       /\ made[n].envelope \in Seq(0 .. 255)
       /\ Len(made[n].envelope) = 6 + PayloadLen(made[n].key.cipher)
       /\ made[n].sealed.data \in Bundle
  /\ wire # None => wire.envelope \in Seq(0 .. 255) /\ wire.key.len \in Nat
  /\ damage \in 0 .. MaxDamage
  /\ result # None => result.tag \in {"ok", "decode", "wrong_key", "panic"}

\* The n-th share arrived as it was made.
Whole(n) == wire.envelope = made[n].envelope /\ wire.key = made[n].key

\* What opens is a share as it was made, byte for byte, with its own key: of
\* the header, which is not authenticated, nothing can change unnoticed, and
\* no fault turns one share, or one cipher, into another.
OpensOnlyWhole ==
  result # None /\ result.tag = "ok" =>
    \E n \in DOMAIN made : Whole(n) /\ result.value = made[n].sealed.data

\* A share that arrives whole opens to its bundle, with either cipher.
WholeOpens ==
  result # None =>
    \A n \in DOMAIN made : Whole(n) => result = Ok(made[n].sealed.data)

\* However it was damaged, an envelope is refused, never read out of bounds.
NeverPanics == result # None => result.tag # "panic"

\* "Every versioned artifact carries v: 1 and rejects unknown versions on
\* parse" (README), for the version a bundle carries.
UnknownVersionsRejected ==
  result # None /\ result.tag = "ok" => result.value.v = 1
=============================================================================
