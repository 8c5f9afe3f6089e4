-------------------------------- MODULE Keys --------------------------------
(***************************************************************************)
(* The key hierarchy of src/auk.rs, over the AEAD of src/aead.rs and the   *)
(* derivations of src/kdf.rs, as symbolic terms.                           *)
(*                                                                         *)
(* Random bytes are numbers: a flow call makes one draw, and the number of *)
(* that draw names every secret, salt and nonce the call generates (they   *)
(* are only ever compared with values of the same role).  A sealed blob    *)
(* records its key, and opens under that key and no other: that is the     *)
(* promise of XChaCha20-Poly1305 the whole crate rests on.                 *)
(***************************************************************************)
EXTENDS Naturals

CONSTANT None          \* an absent value (a JSON null, an empty string)

-----------------------------------------------------------------------------
(* AEAD                                                                    *)

Seal(key, pt, nonce) == [key |-> key, pt |-> pt, nonce |-> nonce]

Opens(key, blob) == blob.key = key

-----------------------------------------------------------------------------
(* Key encryption keys.  The info string of the HKDF call is the kind, so  *)
(* no two derivations collide.                                             *)

\* The two profiles whose parameters are distinct triples.
Profile == {"native", "constrained"}

\* 2SKD: Argon2id of the passphrase, then HKDF salted with the Secret Key.
PassphraseKek(pp, sk, profile) ==
  [kind |-> "2skd", factor |-> pp, secret |-> sk, profile |-> profile]

RecoveryKek(code) ==
  [kind |-> "recovery", factor |-> None, secret |-> code, profile |-> None]

PrfKek(passkey) ==
  [kind |-> "prf", factor |-> passkey, secret |-> None, profile |-> None]

-----------------------------------------------------------------------------
(* WrappedAuk: `params' stands for (m_kib, t, p), which are zero in a wrap *)
(* under a KEK.                                                            *)

\* The profile is rebuilt from the stored parameters: whatever is not the
\* native triple is taken for the constrained one.
StoredProfile(params) == IF params = "native" THEN "native" ELSE "constrained"

WrapWithPassphrase(auk, pp, sk, profile, n) ==
  [v |-> 1, method |-> "passphrase", params |-> profile,
   blob |-> Seal(PassphraseKek(pp, sk, profile), auk, n)]

UnwrapsWithPassphrase(w, pp, sk) ==
  /\ w.v = 1
  /\ Opens(PassphraseKek(pp, sk, StoredProfile(w.params)), w.blob)

\* Mutant: does not record the method.
WrapWithKekNoMethod(auk, kek, method, n) ==
  [v |-> 1, method |-> None, params |-> "zero", blob |-> Seal(kek, auk, n)]

WrapWithKek(auk, kek, method, n) ==
  [v |-> 1, method |-> method, params |-> "zero", blob |-> Seal(kek, auk, n)]

UnwrapsWithKek(w, kek) ==
  /\ w.v = 1
  /\ Opens(kek, w.blob)

\* What a successful unwrap returns.
AukOf(w) == w.blob.pt

-----------------------------------------------------------------------------
(* What the AUK seals: the identity secret and the account master key.     *)

WrapIdentity(auk, identity, n) == Seal(auk, identity, n)

WrapSecret(auk, secret, n) == Seal(auk, secret, n)

\* The public half of a key pair: injective, and never the secret itself.
PublicOf(secret) == [public |-> secret]

\* Ed25519: a signature names the secret that made it.
Verifies(public, signer) == public = PublicOf(signer)
=============================================================================
