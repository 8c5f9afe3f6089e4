------------------------------- MODULE Vault --------------------------------
(***************************************************************************)
(* The life of a vault: the flows of src/flows.rs that create, unlock,     *)
(* re-wrap and rotate, called by several devices of one user against one   *)
(* server record.                                                          *)
(*                                                                         *)
(* The core keeps no state.  A flow is a pure function of what the caller  *)
(* read from the server and of the credentials the caller holds, and it    *)
(* returns the fields the caller must store.  Between the read and the     *)
(* store other devices run, so a flow is two steps here: a step named for  *)
(* the flow, which reads the record, computes the fields and keeps them in *)
(* job[d], and Store, which writes them.  An upload may be repeated (its   *)
(* acknowledgement is lost) and a device may crash with the upload pending.*)
(*                                                                         *)
(* The server and the client are not in the repository.  What is assumed   *)
(* of them is small and stated where it is used: a record is read at once, *)
(* the fields one flow returns are written at once, a vault is registered  *)
(* once, and a client persists a new Secret Key or recovery code before it *)
(* uploads the wrap that needs it.                                         *)
(***************************************************************************)
EXTENDS Keys

CONSTANTS
  Device,       \* the user's devices; each has one passkey
  Passphrase,   \* the passphrases the user may choose
  Checked,      \* TRUE: the server refuses a write of fields changed since read
  MaxDraws      \* bound: flow calls that draw randomness, for TLC

ASSUME NoneAssumption == None \notin Device \cup Passphrase
ASSUME CheckedAssumption == Checked \in BOOLEAN
ASSUME MaxDrawsAssumption == MaxDraws \in Nat

VARIABLES
  server,   \* the account's stored fields
  job,      \* per device: the flow whose result is to be stored, or None
  keys,     \* per device: the Secret Keys it has saved
  codes,    \* the recovery codes the user has written down
  held,     \* per device: the identity secrets in its memory
  signed,   \* the AMK secrets that have signed a message
  draws,    \* how many flow calls have drawn randomness
  past      \* history: the draws whose fields have reached the server

vars == <<server, job, keys, codes, held, signed, draws, past>>

-----------------------------------------------------------------------------
Field == {"wpp", "wrec", "wprf", "wid", "pub", "wamk", "amkPub"}

Vacant == [f \in Field |-> None]

Registered == server # Vacant

\* Secret Keys that some device has saved.
SavedKeys == UNION {keys[d] : d \in Device}

Init ==
  /\ server = Vacant
  /\ job = [d \in Device |-> None]
  /\ keys = [d \in Device |-> {}]
  /\ codes = {}
  /\ held = [d \in Device |-> {}]
  /\ signed = {}
  /\ draws = 0
  /\ past = {}

-----------------------------------------------------------------------------
(* Running a flow: `out' is the JSON object the flow returns, as far as it *)
(* concerns the server.                                                    *)

Idle(d) == job[d] = None

\* The device keeps `out', and what it read of the fields it will replace.
Pending(d, op, n, out) ==
  job' = [job EXCEPT ![d] =
            [op |-> op, n |-> n, out |-> out,
             read |-> [f \in DOMAIN out |-> server[f]]]]

\* The next draw of randomness.
Fresh == draws + 1

\* A flow that draws once, with the result to store.
Flow(d, op, out) ==
  /\ Idle(d)
  /\ draws < MaxDraws
  /\ draws' = Fresh
  /\ Pending(d, op, Fresh, out)
  /\ UNCHANGED <<server, signed, past>>

\* Every re-wrap of a change, reset or rotation is under the constrained profile.
Rewrap(auk, pp, sk) == WrapWithPassphrase(auk, pp, sk, "constrained", Fresh)

RecoveryWrap(auk, code) == WrapWithKek(auk, RecoveryKek(code), "recovery", Fresh)

\* parse_sk, then unlock_auk: the credentials open the stored passphrase wrap.
CanUnlockAuk(pp, sk) == Registered /\ UnwrapsWithPassphrase(server.wpp, pp, sk)

CanUnlockRecovery(code) ==
  Registered /\ UnwrapsWithKek(server.wrec, RecoveryKek(code))

CanUnlockPrf(d) ==
  /\ Registered
  /\ server.wprf # None
  /\ UnwrapsWithKek(server.wprf, PrfKek(d))

CreateVault(d, pp, profile) ==
  /\ ~Registered
  /\ Flow(d, "create_vault",
       [wpp  |-> WrapWithPassphrase(Fresh, pp, Fresh, profile, Fresh),
        wrec |-> RecoveryWrap(Fresh, Fresh),
        wid  |-> WrapIdentity(Fresh, Fresh, Fresh),
        pub  |-> PublicOf(Fresh)])
  /\ keys' = [keys EXCEPT ![d] = @ \cup {Fresh}]
  /\ codes' = codes \cup {Fresh}
  /\ held' = [held EXCEPT ![d] = {Fresh}]

\* Mutant: wraps under any saved key, not the one that opened.
ChangePassphraseAnyKey(d, pp, sk, newPp) ==
  /\ CanUnlockAuk(pp, sk)
  /\ \E saved \in keys[d] :
       Flow(d, "change_passphrase",
         [wpp |-> Rewrap(AukOf(server.wpp), newPp, saved)])
  /\ UNCHANGED <<keys, codes, held>>

ChangePassphrase(d, pp, sk, newPp) ==
  /\ CanUnlockAuk(pp, sk)
  /\ Flow(d, "change_passphrase", [wpp |-> Rewrap(AukOf(server.wpp), newPp, sk)])
  /\ UNCHANGED <<keys, codes, held>>

\* Mutant: generates a new AUK instead of unwrapping the vault's.
ResetPassphraseForks(d, code, sk, newPp) ==
  /\ CanUnlockRecovery(code)
  /\ Flow(d, "reset_passphrase", [wpp |-> Rewrap(Fresh, newPp, sk)])
  /\ UNCHANGED <<keys, codes, held>>

\* Mutant: changes the recovery code as well.
ResetPassphraseAndCode(d, code, sk, newPp) ==
  /\ CanUnlockRecovery(code)
  /\ Flow(d, "reset_passphrase",
       [wpp  |-> Rewrap(AukOf(server.wrec), newPp, sk),
        wrec |-> RecoveryWrap(AukOf(server.wrec), Fresh)])
  /\ UNCHANGED <<keys, codes, held>>

\* The Secret Key is the caller's word: nothing checks it against the vault.
ResetPassphrase(d, code, sk, newPp) ==
  /\ CanUnlockRecovery(code)
  /\ Flow(d, "reset_passphrase", [wpp |-> Rewrap(AukOf(server.wrec), newPp, sk)])
  /\ UNCHANGED <<keys, codes, held>>

\* Mutant: returns the old key, not the one it wrapped under.
RotateSecretKeyReturnsOld(d, pp, sk) ==
  /\ CanUnlockAuk(pp, sk)
  /\ Flow(d, "rotate_secret_key", [wpp |-> Rewrap(AukOf(server.wpp), pp, Fresh)])
  /\ keys' = [keys EXCEPT ![d] = @ \cup {sk}]
  /\ UNCHANGED <<codes, held>>

RotateSecretKey(d, pp, sk) ==
  /\ CanUnlockAuk(pp, sk)
  /\ Flow(d, "rotate_secret_key", [wpp |-> Rewrap(AukOf(server.wpp), pp, Fresh)])
  /\ keys' = [keys EXCEPT ![d] = @ \cup {Fresh}]
  /\ UNCHANGED <<codes, held>>

\* Mutant: draws from so few codes that one may repeat.
RotateRecoveryCodeRepeats(d, pp, sk) ==
  /\ CanUnlockAuk(pp, sk)
  /\ \E code \in codes \cup {Fresh} :
       Flow(d, "rotate_recovery_code",
         [wrec |-> RecoveryWrap(AukOf(server.wpp), code)])
  /\ codes' = codes \cup {Fresh}
  /\ UNCHANGED <<keys, held>>

RotateRecoveryCode(d, pp, sk) ==
  /\ CanUnlockAuk(pp, sk)
  /\ Flow(d, "rotate_recovery_code",
       [wrec |-> RecoveryWrap(AukOf(server.wpp), Fresh)])
  /\ codes' = codes \cup {Fresh}
  /\ UNCHANGED <<keys, held>>

\* Mutant: seals the new identity under a new AUK.
FreshIdentityForks(auk) ==
  [wid |-> WrapIdentity(Fresh, Fresh, Fresh), pub |-> PublicOf(Fresh)]

\* Mutant: returns the public keys of the old identity.
FreshIdentityOldPublic(auk) ==
  [wid |-> WrapIdentity(auk, Fresh, Fresh), pub |-> server.pub]

\* A new identity under the same AUK, with its public keys.
FreshIdentity(auk) ==
  [wid |-> WrapIdentity(auk, Fresh, Fresh), pub |-> PublicOf(Fresh)]

\* Mutant: does not return the old secret.
RotateIdentityNewOnly(d, pp, sk) ==
  /\ CanUnlockAuk(pp, sk)
  /\ Opens(AukOf(server.wpp), server.wid)
  /\ Flow(d, "rotate_identity", FreshIdentity(AukOf(server.wpp)))
  /\ held' = [held EXCEPT ![d] = {Fresh}]
  /\ UNCHANGED <<keys, codes>>

\* Returns the old identity secret with the new one: the caller holds both.
RotateIdentity(d, pp, sk) ==
  /\ CanUnlockAuk(pp, sk)
  /\ Opens(AukOf(server.wpp), server.wid)
  /\ Flow(d, "rotate_identity", FreshIdentity(AukOf(server.wpp)))
  /\ held' = [held EXCEPT ![d] = {Fresh, server.wid.pt}]
  /\ UNCHANGED <<keys, codes>>

EnrollPrf(d, pp, sk) ==
  /\ CanUnlockAuk(pp, sk)
  /\ Flow(d, "enroll_prf",
       [wprf |-> WrapWithKek(AukOf(server.wpp), PrfKek(d), "webauthn-prf", Fresh)])
  /\ UNCHANGED <<keys, codes, held>>

-----------------------------------------------------------------------------
(* The account master key, from an AUK opened by passphrase or by passkey. *)

FreshAmk(auk) == [wamk |-> WrapSecret(auk, Fresh, Fresh), amkPub |-> PublicOf(Fresh)]

\* Mutant: does not look at the existing AMK.
AmkMintAlways(d, auk) == Flow(d, "amk_mint", FreshAmk(auk))

\* No AMK in what the caller read: mint one.
AmkMint(d, auk) ==
  /\ server.wamk = None
  /\ Flow(d, "amk_mint", FreshAmk(auk))

\* Otherwise load it, and return the blob that was passed in.
AmkLoad(d, auk) ==
  /\ Idle(d)
  /\ server.wamk # None
  /\ Opens(auk, server.wamk)
  /\ Pending(d, "amk_load", server.wamk.nonce,
       [wamk |-> server.wamk, amkPub |-> PublicOf(server.wamk.pt)])
  /\ UNCHANGED <<server, signed, draws, past>>

AmkEnsureFromAuk(d, auk) ==
  /\ AmkMint(d, auk) \/ AmkLoad(d, auk)
  /\ UNCHANGED <<keys, codes, held>>

AmkEnsure(d, pp, sk) ==
  CanUnlockAuk(pp, sk) /\ AmkEnsureFromAuk(d, AukOf(server.wpp))

AmkEnsurePrf(d) ==
  CanUnlockPrf(d) /\ AmkEnsureFromAuk(d, AukOf(server.wprf))

AmkSignFromAuk(auk) ==
  /\ server.wamk # None
  /\ Opens(auk, server.wamk)
  /\ signed' = signed \cup {server.wamk.pt}
  /\ UNCHANGED <<server, job, keys, codes, held, draws, past>>

AmkSign(pp, sk) ==
  CanUnlockAuk(pp, sk) /\ AmkSignFromAuk(AukOf(server.wpp))

AmkSignPrf(d) ==
  CanUnlockPrf(d) /\ AmkSignFromAuk(AukOf(server.wprf))

-----------------------------------------------------------------------------
(* Unlocking returns the identity secret.                                  *)

UnwrapIdentity(d, auk) ==
  /\ Opens(auk, server.wid)
  /\ held' = [held EXCEPT ![d] = {server.wid.pt}]
  /\ UNCHANGED <<server, job, keys, codes, signed, draws, past>>

UnlockVault(d, pp, sk) ==
  Idle(d) /\ CanUnlockAuk(pp, sk) /\ UnwrapIdentity(d, AukOf(server.wpp))

UnlockRecovery(d, code) ==
  Idle(d) /\ CanUnlockRecovery(code) /\ UnwrapIdentity(d, AukOf(server.wrec))

UnlockPrf(d) ==
  Idle(d) /\ CanUnlockPrf(d) /\ UnwrapIdentity(d, AukOf(server.wprf))

-----------------------------------------------------------------------------
(* The world around the core (external).                                   *)

\* The server takes a write when the vault is not registered yet, for a
\* creation, and otherwise, if it checks, when the fields the flow returned
\* still are what the device read.
Accepts(j) ==
  IF j.op = "create_vault"
    THEN ~Registered
    ELSE Checked => \A f \in DOMAIN j.out : server[f] = j.read[f]

\* The fields named in `out' are replaced, the others stay.
Overlay(record, out) ==
  [f \in Field |-> IF f \in DOMAIN out THEN out[f] ELSE record[f]]

\* The upload arrives.  Its acknowledgement may be lost, and the device then
\* keeps the job and will repeat it.
Store(d) ==
  /\ ~Idle(d)
  /\ Accepts(job[d])
  /\ server' = Overlay(server, job[d].out)
  /\ past' = past \cup {job[d].n}
  /\ job' \in {job, [job EXCEPT ![d] = None]}
  /\ UNCHANGED <<keys, codes, held, signed, draws>>

\* The server refuses: the device drops the result and may start again.
Refuse(d) ==
  /\ ~Idle(d)
  /\ ~Accepts(job[d])
  /\ job' = [job EXCEPT ![d] = None]
  /\ UNCHANGED <<server, keys, codes, held, signed, draws, past>>

\* Memory is lost, saved Secret Keys are not.
Crash(d) ==
  /\ ~Idle(d) \/ held[d] # {}
  /\ job' = [job EXCEPT ![d] = None]
  /\ held' = [held EXCEPT ![d] = {}]
  /\ UNCHANGED <<server, keys, codes, signed, draws, past>>

\* The user types a Secret Key of the vault that another device saved.
LinkDevice(d, sk) ==
  /\ sk \in (SavedKeys \cap past) \ keys[d]
  /\ keys' = [keys EXCEPT ![d] = @ \cup {sk}]
  /\ UNCHANGED <<server, job, codes, held, signed, draws, past>>

-----------------------------------------------------------------------------
\* The flows that take a passphrase and a saved Secret Key.
PassphraseFlow(d) ==
  \E pp \in Passphrase, sk \in keys[d] :
    \/ UnlockVault(d, pp, sk)
    \/ \E newPp \in Passphrase : ChangePassphrase(d, pp, sk, newPp)
    \/ RotateSecretKey(d, pp, sk)
    \/ RotateRecoveryCode(d, pp, sk)
    \/ RotateIdentity(d, pp, sk)
    \/ EnrollPrf(d, pp, sk)
    \/ AmkEnsure(d, pp, sk)
    \/ AmkSign(pp, sk)

RecoveryFlow(d) ==
  \E code \in codes :
    \/ UnlockRecovery(d, code)
    \/ \E sk \in keys[d], newPp \in Passphrase :
         ResetPassphrase(d, code, sk, newPp)

PrfFlow(d) == UnlockPrf(d) \/ AmkEnsurePrf(d) \/ AmkSignPrf(d)

Environment(d) ==
  \/ Store(d)
  \/ Refuse(d)
  \/ Crash(d)
  \/ \E sk \in SavedKeys : LinkDevice(d, sk)

Next ==
  \E d \in Device :
    \/ \E pp \in Passphrase, profile \in Profile : CreateVault(d, pp, profile)
    \/ PassphraseFlow(d)
    \/ RecoveryFlow(d)
    \/ PrfFlow(d)
    \/ Environment(d)

Spec == Init /\ [][Next]_vars
=============================================================================
