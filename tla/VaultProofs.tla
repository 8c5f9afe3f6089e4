---------------------------- MODULE VaultProofs -----------------------------
(***************************************************************************)
(* Theorems about Vault, for any devices, passphrases and number of draws, *)
(* and (but where a theorem says otherwise) for either kind of server.     *)
(***************************************************************************)
EXTENDS VaultProperties, TLAPS

\* The fields of a flow's result are fields of the record, of their types.
OutOK(out) ==
  /\ DOMAIN out \subseteq Field
  /\ \A f \in DOMAIN out : out[f] \in FieldType(f)

-----------------------------------------------------------------------------
(* Types of what the flows compute.                                        *)

\* A draw within the bound is a draw number.
LEMMA FreshType == TypeOK /\ draws < MaxDraws => Fresh \in DrawNumber
  BY MaxDrawsAssumption DEF TypeOK, Fresh, DrawNumber

\* wrap_with_passphrase makes a well-formed wrap.
LEMMA PassphraseWrapType ==
  ASSUME NEW auk \in DrawNumber, NEW pp \in Passphrase, NEW sk \in DrawNumber,
         NEW profile \in Profile, NEW n \in DrawNumber
  PROVE  WrapWithPassphrase(auk, pp, sk, profile, n) \in WrappedAuk
  BY DEF WrapWithPassphrase, WrappedAuk, Blob, Kek, Seal, PassphraseKek, Profile

\* wrap_with_kek makes a well-formed wrap.
LEMMA KekWrapType ==
  ASSUME NEW auk \in DrawNumber, NEW kek \in Kek, NEW n \in DrawNumber,
         NEW method \in {"recovery", "webauthn-prf"}
  PROVE  WrapWithKek(auk, kek, method, n) \in WrappedAuk
  BY DEF WrapWithKek, WrappedAuk, Blob, Seal

\* The key encryption keys of a recovery code and of a passkey are such keys.
LEMMA KekType ==
  /\ \A code \in DrawNumber : RecoveryKek(code) \in Kek
  /\ \A d \in Device : PrfKek(d) \in Kek
  BY DEF RecoveryKek, PrfKek, Kek

\* What each field of the record holds.
LEMMA FieldTypes ==
  /\ \A f \in {"wpp", "wrec", "wprf"} : FieldType(f) = WrappedAuk
  /\ \A f \in {"wid", "wamk"} : FieldType(f) = Blob(DrawNumber)
  /\ \A f \in {"pub", "amkPub"} : FieldType(f) = Public
  BY DEF FieldType

\* A wrap holds an AUK.
LEMMA AukType == ASSUME NEW w \in WrappedAuk PROVE AukOf(w) \in DrawNumber
  BY DEF WrappedAuk, Blob, AukOf

-----------------------------------------------------------------------------
(* Type correctness.                                                       *)

\* The part of TypeOK a pending result is about.
JobsOK ==
  /\ job = [d \in Device |-> job[d]]
  /\ \A d \in Device : job[d] = None \/ JobOK(job[d])

\* Keeping a well-formed result keeps the jobs well-formed.
LEMMA PendingType ==
  ASSUME TypeOK, NEW d \in Device, NEW op, NEW n \in DrawNumber, NEW out,
         OutOK(out), Pending(d, op, n, out)
  PROVE  JobsOK'
<1> DEFINE j == [op |-> op, n |-> n, out |-> out,
                 read |-> [f \in DOMAIN out |-> server[f]]]
<1>1. JobOK(j)
  BY DEF JobOK, OutOK, TypeOK, RecordOK
<1>2. job' = [job EXCEPT ![d] = j]
  BY DEF Pending
<1>3. job' = [e \in Device |-> job'[e]]
  BY <1>2 DEF TypeOK
<1>4. \A e \in Device : job'[e] = IF e = d THEN j ELSE job[e]
  BY <1>2 DEF TypeOK
<1> HIDE DEF j
<1>5. \A e \in Device : job'[e] = None \/ JobOK(job'[e])
  BY <1>1, <1>4 DEF TypeOK
<1> QED
  BY <1>3, <1>5 DEF JobsOK, JobOK, RecordOK

\* A flow call with a well-formed result preserves the type invariant.
LEMMA FlowType ==
  ASSUME TypeOK, NEW d \in Device, NEW op, NEW out, OutOK(out), Flow(d, op, out),
         keys' \in [Device -> SUBSET DrawNumber],
         codes' \subseteq DrawNumber,
         held' \in [Device -> SUBSET DrawNumber]
  PROVE  TypeOK'
<1>1. Fresh \in DrawNumber
  BY FreshType DEF Flow
<1>2. JobsOK'
  BY <1>1, PendingType DEF Flow
<1>3. draws' \in 0 .. MaxDraws /\ past' \subseteq DrawNumber
  BY MaxDrawsAssumption DEF Flow, TypeOK, Fresh
<1>4. RecordOK(server)' /\ (signed \subseteq DrawNumber)'
  BY DEF Flow, TypeOK, RecordOK
<1> QED
  BY <1>2, <1>3, <1>4 DEF TypeOK, JobsOK

-----------------------------------------------------------------------------
(* The inductive invariant: a flow step.                                   *)

\* Result `out' of flow op may be pending in the next state.
MayPend(op, out) ==
  IF op = "create_vault"
    THEN DOMAIN out = Core /\ OutSound(out, out.wid.key, SavedKeys', codes')
    ELSE Registered /\ OutSound(out, VaultAuk, SavedKeys', codes')

\* Nothing the user has saved or written down is lost.
KeepsCredentials == SavedKeys \subseteq SavedKeys' /\ codes \subseteq codes'

\* A wrap stays usable when more keys are saved or more codes written down.
LEMMA UsableGrows ==
  ASSUME NEW f, NEW x, NEW s1, NEW s2, NEW c1, NEW c2, s1 \subseteq s2, c1 \subseteq c2,
         Usable(f, x, s1, c1)
  PROVE  Usable(f, x, s2, c2)
  BY DEF Usable

\* So does a whole pending upload.
LEMMA OutSoundGrows ==
  ASSUME NEW out, NEW auk, NEW s1, NEW s2, NEW c1, NEW c2, s1 \subseteq s2, c1 \subseteq c2,
         OutSound(out, auk, s1, c1)
  PROVE  OutSound(out, auk, s2, c2)
  BY UsableGrows DEF OutSound

\* With the record untouched, what was sound stays sound.
LEMMA UntouchedServer ==
  ASSUME Sound, UNCHANGED server, KeepsCredentials
  PROVE  /\ ServerSound'
         /\ \A e \in Device :
              job'[e] = job[e] /\ job[e] # None => JobSound(job[e])'
<1>1. ServerSound'
  <2>1. VaultAuk' = VaultAuk /\ Registered' = Registered
    BY DEF VaultAuk, Registered
  <2>2. PublicKeysMatch' = PublicKeysMatch
    BY <2>1 DEF PublicKeysMatch
  <2> QED
    BY <2>1, <2>2, UsableGrows DEF Sound, ServerSound, KeepsCredentials
<1>2. ASSUME NEW e \in Device, job'[e] = job[e], job[e] # None
      PROVE  JobSound(job[e])'
  BY <1>2, OutSoundGrows DEF Sound, JobSound, KeepsCredentials, VaultAuk, Registered
<1> QED
  BY <1>1, <1>2

\* A flow call with a sound result, of which only saved credentials grow, preserves Sound.
LEMMA FlowSound ==
  ASSUME Sound, NEW d \in Device, NEW op, NEW out, OutOK(out), Flow(d, op, out),
         keys' \in [Device -> SUBSET DrawNumber],
         codes' \subseteq DrawNumber,
         held' \in [Device -> SUBSET DrawNumber],
         KeepsCredentials,
         MayPend(op, out)
  PROVE  Sound'
<1>1. TypeOK'
  BY FlowType DEF Sound
<1>2. /\ ServerSound'
      /\ \A e \in Device : job'[e] = job[e] /\ job[e] # None => JobSound(job[e])'
  BY UntouchedServer DEF Flow
<1> DEFINE j == [op |-> op, n |-> Fresh, out |-> out,
                 read |-> [f \in DOMAIN out |-> server[f]]]
<1>3. \A e \in Device : job'[e] = IF e = d THEN j ELSE job[e]
  BY DEF Flow, Pending, Sound, TypeOK
<1>4. JobSound(job[d])'
  <2> DEFINE seen == [f \in DOMAIN out |-> server[f]]
  <2>1. job'[d] = [op |-> op, n |-> Fresh, out |-> out, read |-> seen]
    BY <1>3
  <2> HIDE DEF seen
  <2>2. job'[d].op = op /\ job'[d].out = out
    BY <2>1
  <2>3. server' = server
    BY DEF Flow
  <2>4. Registered' = Registered /\ VaultAuk' = VaultAuk
    BY <2>3 DEF Registered, VaultAuk
  <2> QED
    BY <2>2, <2>4 DEF JobSound, MayPend
<1>5. \A e \in Device : job'[e] # None => JobSound(job[e])'
  BY <1>2, <1>3, <1>4 DEF Sound
<1> QED
  BY <1>1, <1>2, <1>5 DEF Sound

-----------------------------------------------------------------------------
(* The inductive invariant: each flow.                                     *)

\* What Sound says of the fields a flow reads.
LEMMA ReadSound ==
  ASSUME Sound, Registered
  PROVE  /\ server.wpp \in WrappedAuk /\ AukOf(server.wpp) = VaultAuk
         /\ server.wrec \in WrappedAuk /\ AukOf(server.wrec) = VaultAuk
         /\ server.wid \in Blob(DrawNumber)
         /\ VaultAuk \in DrawNumber
         /\ server.wprf # None => /\ server.wprf \in WrappedAuk
                                  /\ AukOf(server.wprf) = VaultAuk
         /\ server.wamk # None => /\ server.wamk \in Blob(DrawNumber)
                                  /\ server.wamk.key = VaultAuk
                                  /\ server.amkPub = PublicOf(server.wamk.pt)
<1>1. /\ server.wpp \in WrappedAuk
      /\ server.wrec \in WrappedAuk
      /\ server.wid \in Blob(DrawNumber)
  BY FieldTypes DEF Sound, ServerSound, Core
<1>2. VaultAuk \in DrawNumber
  BY <1>1 DEF VaultAuk, Blob
<1>3. /\ server.wprf # None => server.wprf \in WrappedAuk
      /\ server.wamk # None => server.wamk \in Blob(DrawNumber)
  BY FieldTypes DEF Sound, TypeOK, RecordOK, Field
<1>4. server.wpp # None /\ server.wrec # None
  BY <1>1, NoneIsNoBlob
<1> QED
  BY <1>1, <1>2, <1>3, <1>4
  DEF Sound, ServerSound, BelongsTo, Field, PublicKeysMatch

\* A result that is one passphrase wrap of the vault's AUK.
LEMMA RewrapSound ==
  ASSUME Sound, Registered, draws < MaxDraws, NEW pp \in Passphrase,
         NEW sk \in DrawNumber, sk \in SavedKeys'
  PROVE  LET out == [wpp |-> Rewrap(VaultAuk, pp, sk)] IN
         OutOK(out) /\ OutSound(out, VaultAuk, SavedKeys', codes')
<1> DEFINE w == Rewrap(VaultAuk, pp, sk)
<1>1. w \in WrappedAuk
  BY ReadSound, FreshType, PassphraseWrapType DEF Rewrap, Sound, Profile
<1>2. AukOf(w) = VaultAuk
  BY DEF Rewrap, WrapWithPassphrase, AukOf, Seal
<1>3. UnwrapsWithPassphrase(w, pp, sk)
  BY DEF Rewrap, WrapWithPassphrase, UnwrapsWithPassphrase, Opens, Seal, StoredProfile
<1> HIDE DEF w
<1> DEFINE out == [wpp |-> w]
<1>4. OutOK(out)
  BY <1>1, FieldTypes DEF OutOK, Field
<1>5. OutSound(out, VaultAuk, SavedKeys', codes')
  BY <1>2, <1>3 DEF OutSound, BelongsTo, Usable, Paired
<1> QED
  BY <1>4, <1>5 DEF w

\* A result that is one recovery or passkey wrap of the vault's AUK.
LEMMA KekWrapSound ==
  ASSUME Sound, Registered, draws < MaxDraws
  PROVE  /\ \A code \in DrawNumber \cap codes' :
              LET out == [wrec |-> RecoveryWrap(VaultAuk, code)] IN
              OutOK(out) /\ OutSound(out, VaultAuk, SavedKeys', codes')
         /\ \A d \in Device :
              LET out == [wprf |-> WrapWithKek(VaultAuk, PrfKek(d), "webauthn-prf", Fresh)] IN
              OutOK(out) /\ OutSound(out, VaultAuk, SavedKeys', codes')
<1>1. ASSUME NEW code \in DrawNumber, code \in codes'
      PROVE  LET out == [wrec |-> RecoveryWrap(VaultAuk, code)] IN
             OutOK(out) /\ OutSound(out, VaultAuk, SavedKeys', codes')
  <2> DEFINE w == RecoveryWrap(VaultAuk, code)
  <2>1. w \in WrappedAuk
    BY ReadSound, FreshType, KekWrapType, KekType DEF RecoveryWrap, Sound
  <2>2. AukOf(w) = VaultAuk
    BY DEF RecoveryWrap, WrapWithKek, AukOf, Seal
  <2>3. UnwrapsWithKek(w, RecoveryKek(code))
    BY DEF RecoveryWrap, WrapWithKek, UnwrapsWithKek, Opens, Seal
  <2> HIDE DEF w
  <2> DEFINE out == [wrec |-> w]
  <2>4. OutOK(out)
    BY <2>1, FieldTypes DEF OutOK, Field
  <2>5. OutSound(out, VaultAuk, SavedKeys', codes')
    BY <1>1, <2>2, <2>3 DEF OutSound, BelongsTo, Usable, Paired
  <2> QED
    BY <2>4, <2>5 DEF w
<1>2. ASSUME NEW d \in Device
      PROVE  LET out == [wprf |-> WrapWithKek(VaultAuk, PrfKek(d), "webauthn-prf", Fresh)] IN
             OutOK(out) /\ OutSound(out, VaultAuk, SavedKeys', codes')
  <2> DEFINE w == WrapWithKek(VaultAuk, PrfKek(d), "webauthn-prf", Fresh)
  <2>1. w \in WrappedAuk
    BY ReadSound, FreshType, KekWrapType, KekType DEF Sound
  <2>2. AukOf(w) = VaultAuk
    BY DEF WrapWithKek, AukOf, Seal
  <2> HIDE DEF w
  <2> DEFINE out == [wprf |-> w]
  <2>3. OutOK(out)
    BY <2>1, FieldTypes DEF OutOK, Field
  <2>4. OutSound(out, VaultAuk, SavedKeys', codes')
    BY <2>2 DEF OutSound, BelongsTo, Usable, Paired
  <2> QED
    BY <2>3, <2>4 DEF w
<1> QED
  BY <1>1, <1>2

\* A result that is a new secret under the vault's AUK, with its public half.
LEMMA FreshPairSound ==
  ASSUME Sound, Registered, draws < MaxDraws
  PROVE  /\ OutOK(FreshIdentity(VaultAuk))
         /\ OutSound(FreshIdentity(VaultAuk), VaultAuk, SavedKeys', codes')
         /\ OutOK(FreshAmk(VaultAuk))
         /\ OutSound(FreshAmk(VaultAuk), VaultAuk, SavedKeys', codes')
<1> DEFINE blob == Seal(VaultAuk, Fresh, Fresh)
<1>1. blob \in Blob(DrawNumber) /\ blob.key = VaultAuk
  BY ReadSound, FreshType DEF Seal, Blob, Sound
<1>2. PublicOf(Fresh) \in Public /\ blob.pt = Fresh
  BY FreshType DEF PublicOf, Public, Seal, Sound
<1>3. /\ FreshIdentity(VaultAuk) = [wid |-> blob, pub |-> PublicOf(Fresh)]
      /\ FreshAmk(VaultAuk) = [wamk |-> blob, amkPub |-> PublicOf(Fresh)]
  BY DEF FreshIdentity, FreshAmk, WrapIdentity, WrapSecret
<1> HIDE DEF blob
<1> DEFINE idOut == [wid |-> blob, pub |-> PublicOf(Fresh)]
           amkOut == [wamk |-> blob, amkPub |-> PublicOf(Fresh)]
<1>4. OutOK(idOut) /\ OutOK(amkOut)
  BY <1>1, <1>2, FieldTypes DEF OutOK, Field
<1>5. OutSound(idOut, VaultAuk, SavedKeys', codes')
  BY <1>1, <1>2 DEF OutSound, BelongsTo, Usable, Paired
<1>6. OutSound(amkOut, VaultAuk, SavedKeys', codes')
  BY <1>1, <1>2 DEF OutSound, BelongsTo, Usable, Paired
<1> QED
  BY <1>3, <1>4, <1>5, <1>6

\* Each flow of a device that has the Secret Key it uses.
LEMMA SavedKeyType ==
  ASSUME TypeOK, NEW d \in Device, NEW sk \in keys[d]
  PROVE  sk \in DrawNumber /\ sk \in SavedKeys
  BY DEF TypeOK, SavedKeys

\* A flow that saves no credential leaves the saved sets as they are.
LEMMA UnchangedCredentials ==
  ASSUME TypeOK, UNCHANGED <<keys, codes, held>>
  PROVE  /\ keys' \in [Device -> SUBSET DrawNumber]
         /\ codes' \subseteq DrawNumber
         /\ held' \in [Device -> SUBSET DrawNumber]
         /\ KeepsCredentials
         /\ SavedKeys' = SavedKeys
  BY DEF TypeOK, KeepsCredentials, SavedKeys

\* change_passphrase preserves Sound.
LEMMA ChangePassphraseSound ==
  ASSUME Sound, NEW d \in Device, NEW pp \in Passphrase, NEW sk \in keys[d],
         NEW newPp \in Passphrase, ChangePassphrase(d, pp, sk, newPp)
  PROVE  Sound'
<1> DEFINE out == [wpp |-> Rewrap(AukOf(server.wpp), newPp, sk)]
<1>1. Registered /\ draws < MaxDraws /\ Flow(d, "change_passphrase", out)
  BY DEF ChangePassphrase, CanUnlockAuk, Flow
<1>2. UNCHANGED <<keys, codes, held>>
  BY DEF ChangePassphrase
<1>3. OutOK(out) /\ OutSound(out, VaultAuk, SavedKeys', codes')
  BY <1>1, <1>2, RewrapSound, ReadSound, SavedKeyType, UnchangedCredentials DEF Sound
<1> HIDE DEF out
<1>4. MayPend("change_passphrase", out)
  BY <1>1, <1>3 DEF MayPend
<1> QED
  BY <1>1, <1>2, <1>3, <1>4, FlowSound, UnchangedCredentials DEF Sound

\* reset_passphrase preserves Sound, with any Secret Key the device has saved.
LEMMA ResetPassphraseSound ==
  ASSUME Sound, NEW d \in Device, NEW code \in codes, NEW sk \in keys[d],
         NEW newPp \in Passphrase, ResetPassphrase(d, code, sk, newPp)
  PROVE  Sound'
<1> DEFINE out == [wpp |-> Rewrap(AukOf(server.wrec), newPp, sk)]
<1>1. Registered /\ draws < MaxDraws /\ Flow(d, "reset_passphrase", out)
  BY DEF ResetPassphrase, CanUnlockRecovery, Flow
<1>2. UNCHANGED <<keys, codes, held>>
  BY DEF ResetPassphrase
<1>3. OutOK(out) /\ OutSound(out, VaultAuk, SavedKeys', codes')
  BY <1>1, <1>2, RewrapSound, ReadSound, SavedKeyType, UnchangedCredentials DEF Sound
<1> HIDE DEF out
<1>4. MayPend("reset_passphrase", out)
  BY <1>1, <1>3 DEF MayPend
<1> QED
  BY <1>1, <1>2, <1>3, <1>4, FlowSound, UnchangedCredentials DEF Sound

\* enroll_prf preserves Sound.
LEMMA EnrollPrfSound ==
  ASSUME Sound, NEW d \in Device, NEW pp \in Passphrase, NEW sk \in keys[d],
         EnrollPrf(d, pp, sk)
  PROVE  Sound'
<1> DEFINE out == [wprf |-> WrapWithKek(AukOf(server.wpp), PrfKek(d), "webauthn-prf", Fresh)]
<1>1. Registered /\ draws < MaxDraws /\ Flow(d, "enroll_prf", out)
  BY DEF EnrollPrf, CanUnlockAuk, Flow
<1>2. UNCHANGED <<keys, codes, held>>
  BY DEF EnrollPrf
<1>3. OutOK(out) /\ OutSound(out, VaultAuk, SavedKeys', codes')
  BY <1>1, <1>2, KekWrapSound, ReadSound
<1> HIDE DEF out
<1>4. MayPend("enroll_prf", out)
  BY <1>1, <1>3 DEF MayPend
<1> QED
  BY <1>1, <1>2, <1>3, <1>4, FlowSound, UnchangedCredentials DEF Sound

\* rotate_secret_key preserves Sound: the new key is saved with the wrap computed.
LEMMA RotateSecretKeySound ==
  ASSUME Sound, NEW d \in Device, NEW pp \in Passphrase, NEW sk \in keys[d],
         RotateSecretKey(d, pp, sk)
  PROVE  Sound'
<1> DEFINE out == [wpp |-> Rewrap(AukOf(server.wpp), pp, Fresh)]
<1>1. Registered /\ draws < MaxDraws /\ Flow(d, "rotate_secret_key", out)
  BY DEF RotateSecretKey, CanUnlockAuk, Flow
<1>2. Fresh \in DrawNumber
  BY <1>1, FreshType DEF Sound
<1>3. /\ keys' \in [Device -> SUBSET DrawNumber]
      /\ Fresh \in SavedKeys'
      /\ SavedKeys \subseteq SavedKeys'
  BY <1>2 DEF RotateSecretKey, Sound, TypeOK, SavedKeys
<1>4. /\ codes' = codes /\ codes \subseteq DrawNumber
      /\ held' \in [Device -> SUBSET DrawNumber]
  BY DEF RotateSecretKey, Sound, TypeOK
<1>5. OutOK(out) /\ OutSound(out, VaultAuk, SavedKeys', codes')
  BY <1>1, <1>2, <1>3, RewrapSound, ReadSound
<1> HIDE DEF out
<1>6. MayPend("rotate_secret_key", out)
  BY <1>1, <1>5 DEF MayPend
<1>7. KeepsCredentials
  BY <1>3, <1>4 DEF KeepsCredentials
<1> QED
  BY <1>1, <1>3, <1>4, <1>5, <1>6, <1>7, FlowSound

\* rotate_recovery_code preserves Sound: the new code is written down likewise.
LEMMA RotateRecoveryCodeSound ==
  ASSUME Sound, NEW d \in Device, NEW pp \in Passphrase, NEW sk \in keys[d],
         RotateRecoveryCode(d, pp, sk)
  PROVE  Sound'
<1> DEFINE out == [wrec |-> RecoveryWrap(AukOf(server.wpp), Fresh)]
<1>1. Registered /\ draws < MaxDraws /\ Flow(d, "rotate_recovery_code", out)
  BY DEF RotateRecoveryCode, CanUnlockAuk, Flow
<1>2. Fresh \in DrawNumber
  BY <1>1, FreshType DEF Sound
<1>3. /\ codes' \subseteq DrawNumber
      /\ Fresh \in codes'
      /\ codes \subseteq codes'
  BY <1>2 DEF RotateRecoveryCode, Sound, TypeOK
<1>4. /\ keys' = keys /\ keys \in [Device -> SUBSET DrawNumber]
      /\ held' \in [Device -> SUBSET DrawNumber]
  BY DEF RotateRecoveryCode, Sound, TypeOK
<1>5. OutOK(out) /\ OutSound(out, VaultAuk, SavedKeys', codes')
  BY <1>1, <1>2, <1>3, KekWrapSound, ReadSound
<1> HIDE DEF out
<1>6. MayPend("rotate_recovery_code", out)
  BY <1>1, <1>5 DEF MayPend
<1>7. KeepsCredentials
  BY <1>3, <1>4 DEF KeepsCredentials, SavedKeys
<1> QED
  BY <1>1, <1>3, <1>4, <1>5, <1>6, <1>7, FlowSound

\* rotate_identity preserves Sound: secret and public keys stay a pair.
LEMMA RotateIdentitySound ==
  ASSUME Sound, NEW d \in Device, NEW pp \in Passphrase, NEW sk \in keys[d],
         RotateIdentity(d, pp, sk)
  PROVE  Sound'
<1> DEFINE out == FreshIdentity(AukOf(server.wpp))
<1>1. Registered /\ draws < MaxDraws /\ Flow(d, "rotate_identity", out)
  BY DEF RotateIdentity, CanUnlockAuk, Flow
<1>2. Fresh \in DrawNumber
  BY <1>1, FreshType DEF Sound
<1>3. server.wid.pt \in DrawNumber
  BY <1>1, ReadSound DEF Blob
<1>4. held' \in [Device -> SUBSET DrawNumber]
  BY <1>2, <1>3 DEF RotateIdentity, Sound, TypeOK
<1>5. /\ keys' = keys /\ keys \in [Device -> SUBSET DrawNumber]
      /\ codes' = codes /\ codes \subseteq DrawNumber
  BY DEF RotateIdentity, Sound, TypeOK
<1>6. OutOK(out) /\ OutSound(out, VaultAuk, SavedKeys', codes')
  BY <1>1, FreshPairSound, ReadSound
<1> HIDE DEF out
<1>7. MayPend("rotate_identity", out)
  BY <1>1, <1>6 DEF MayPend
<1>8. KeepsCredentials
  BY <1>5 DEF KeepsCredentials, SavedKeys
<1> QED
  BY <1>1, <1>4, <1>5, <1>6, <1>7, <1>8, FlowSound

\* create_vault preserves Sound: all four fields are under one new AUK.
LEMMA CreateVaultSound ==
  ASSUME Sound, NEW d \in Device, NEW pp \in Passphrase, NEW profile \in Profile,
         CreateVault(d, pp, profile)
  PROVE  Sound'
<1> DEFINE wpp == WrapWithPassphrase(Fresh, pp, Fresh, profile, Fresh)
           wrec == RecoveryWrap(Fresh, Fresh)
           wid == WrapIdentity(Fresh, Fresh, Fresh)
           out == [wpp |-> wpp, wrec |-> wrec, wid |-> wid, pub |-> PublicOf(Fresh)]
<1>1. draws < MaxDraws /\ Flow(d, "create_vault", out)
  BY DEF CreateVault, Flow
<1>2. Fresh \in DrawNumber
  BY <1>1, FreshType DEF Sound
<1>3. /\ keys' \in [Device -> SUBSET DrawNumber]
      /\ codes' \subseteq DrawNumber
      /\ held' \in [Device -> SUBSET DrawNumber]
  BY <1>2 DEF CreateVault, Sound, TypeOK
<1>4. Fresh \in SavedKeys' /\ Fresh \in codes' /\ KeepsCredentials
  BY DEF CreateVault, Sound, TypeOK, SavedKeys, KeepsCredentials
<1>5. /\ wpp \in WrappedAuk /\ AukOf(wpp) = Fresh
      /\ UnwrapsWithPassphrase(wpp, pp, Fresh)
  <2>1. wpp \in WrappedAuk
    BY <1>2, PassphraseWrapType
  <2>2. AukOf(wpp) = Fresh
    BY DEF WrapWithPassphrase, AukOf, Seal
  <2>3. UnwrapsWithPassphrase(wpp, pp, Fresh)
    BY DEF WrapWithPassphrase, UnwrapsWithPassphrase, Opens, Seal, StoredProfile, Profile
  <2> QED
    BY <2>1, <2>2, <2>3
<1>6. /\ wrec \in WrappedAuk /\ AukOf(wrec) = Fresh
      /\ UnwrapsWithKek(wrec, RecoveryKek(Fresh))
  <2>1. wrec \in WrappedAuk
    BY <1>2, KekWrapType, KekType DEF RecoveryWrap
  <2>2. AukOf(wrec) = Fresh
    BY DEF RecoveryWrap, WrapWithKek, AukOf, Seal
  <2>3. UnwrapsWithKek(wrec, RecoveryKek(Fresh))
    BY DEF RecoveryWrap, WrapWithKek, UnwrapsWithKek, Opens, Seal
  <2> QED
    BY <2>1, <2>2, <2>3
<1>7. wid \in Blob(DrawNumber) /\ wid.key = Fresh /\ wid.pt = Fresh
  BY <1>2 DEF WrapIdentity, Seal, Blob
<1>8. PublicOf(Fresh) \in Public
  BY <1>2 DEF PublicOf, Public
<1> HIDE DEF wpp, wrec, wid
<1>9. OutOK(out)
  BY <1>5, <1>6, <1>7, <1>8, FieldTypes DEF OutOK, Field
<1>10. OutSound(out, out.wid.key, SavedKeys', codes')
  BY <1>4, <1>5, <1>6, <1>7 DEF OutSound, BelongsTo, Usable, Paired
<1>11. MayPend("create_vault", out)
  BY <1>10 DEF MayPend, Core
<1> HIDE DEF out
<1> QED
  BY <1>1, <1>3, <1>4, <1>9, <1>11, FlowSound

\* Minting draws like any flow; loading returns the blob it was given.
LEMMA AmkEnsureSound ==
  ASSUME Sound, NEW d \in Device, Registered, AmkEnsureFromAuk(d, VaultAuk)
  PROVE  Sound'
<1>1. UNCHANGED <<keys, codes, held>>
  BY DEF AmkEnsureFromAuk
<1>2. CASE AmkMint(d, VaultAuk)
  <2> DEFINE out == FreshAmk(VaultAuk)
  <2>1. draws < MaxDraws /\ Flow(d, "amk_mint", out)
    BY <1>2 DEF AmkMint, Flow
  <2>2. OutOK(out) /\ OutSound(out, VaultAuk, SavedKeys', codes')
    BY <2>1, FreshPairSound
  <2> HIDE DEF out
  <2>3. MayPend("amk_mint", out)
    BY <2>2 DEF MayPend
  <2> QED
    BY <1>1, <2>1, <2>2, <2>3, FlowSound, UnchangedCredentials DEF Sound
<1>3. CASE AmkLoad(d, VaultAuk)
  <2> DEFINE n == server.wamk.nonce
             public == PublicOf(server.wamk.pt)
             out == [wamk |-> server.wamk, amkPub |-> public]
             seen == [f \in DOMAIN out |-> server[f]]
  <2>1. server.wamk \in Blob(DrawNumber) /\ server.wamk.key = VaultAuk
    BY <1>3, ReadSound DEF AmkLoad
  <2>2. n \in DrawNumber /\ public \in Public
    BY <2>1 DEF Blob, PublicOf, Public
  <2>3. Pending(d, "amk_load", n, out) /\ UNCHANGED <<server, signed, draws, past>>
    BY <1>3 DEF AmkLoad
  <2> HIDE DEF n
  <2>4. OutSound(out, VaultAuk, SavedKeys', codes')
    BY <2>1 DEF OutSound, BelongsTo, Usable, Paired
  <2> HIDE DEF public
  <2>5. OutOK(out)
    BY <2>1, <2>2, FieldTypes DEF OutOK, Field
  <2>6. \A e \in Device : job'[e] =
          IF e = d THEN [op |-> "amk_load", n |-> n, out |-> out, read |-> seen] ELSE job[e]
    BY <2>3 DEF Pending, Sound, TypeOK
  <2> HIDE DEF out, seen
  <2>7. TypeOK'
    <3>1. JobsOK'
      BY <2>2, <2>3, <2>5, PendingType DEF Sound
    <3>2. RecordOK(server)'
      BY <2>3 DEF Sound, TypeOK, RecordOK
    <3> QED
      BY <1>1, <2>3, <3>1, <3>2 DEF Sound, TypeOK, JobsOK
  <2>8. /\ ServerSound'
        /\ \A e \in Device : job'[e] = job[e] /\ job[e] # None => JobSound(job[e])'
    BY <1>1, <2>3, UntouchedServer, UnchangedCredentials DEF Sound
  <2>9. JobSound(job[d])'
    <3>1. job'[d].op = "amk_load" /\ job'[d].out = out
      BY <2>6
    <3>2. Registered' = Registered /\ VaultAuk' = VaultAuk
      BY <2>3 DEF Registered, VaultAuk
    <3> QED
      BY <2>4, <3>1, <3>2 DEF JobSound
  <2> QED
    BY <2>6, <2>7, <2>8, <2>9 DEF Sound
<1> QED
  BY <1>2, <1>3 DEF AmkEnsureFromAuk

-----------------------------------------------------------------------------
(* The inductive invariant: the environment.                               *)

\* A record that an accepted upload has been laid over.
LEMMA StoreType ==
  ASSUME TypeOK, NEW d \in Device, Store(d)
  PROVE  TypeOK'
<1>1. /\ JobOK(job[d])
      /\ server' = Overlay(server, job[d].out)
      /\ past' = past \cup {job[d].n}
      /\ UNCHANGED <<keys, codes, held, signed, draws>>
  BY DEF Store, Idle, TypeOK
<1>2. RecordOK(server)'
  BY <1>1 DEF JobOK, Overlay, TypeOK, RecordOK
<1>3. past' \subseteq DrawNumber
  BY <1>1 DEF JobOK, TypeOK
<1>4. job' = job \/ job' = [job EXCEPT ![d] = None]
  BY DEF Store
<1>5. JobsOK'
  BY <1>4 DEF TypeOK, JobsOK, JobOK
<1> QED
  BY <1>1, <1>2, <1>3, <1>5 DEF TypeOK, JobsOK

\* The fields of an accepted upload are sound for the AUK the record then has,
\* and so are the fields it leaves alone.
LEMMA StoreSound ==
  ASSUME Sound, NEW d \in Device, Store(d)
  PROVE  Sound'
<1> DEFINE out == job[d].out
           creates == job[d].op = "create_vault"
<1>1. /\ JobSound(job[d])
      /\ Accepts(job[d])
      /\ server' = Overlay(server, out)
      /\ SavedKeys' = SavedKeys /\ codes' = codes
  BY DEF Store, Idle, Sound, SavedKeys
<1>2. OutOK(out)
  BY DEF Store, Idle, Sound, TypeOK, JobOK, OutOK
<1>3. \A f \in Field : server'[f] = IF f \in DOMAIN out THEN out[f] ELSE server[f]
  BY <1>1 DEF Overlay
<1>4. Core \subseteq Field
  BY DEF Core, Field
<1>5. /\ creates => ~Registered /\ DOMAIN out = Core
      /\ ~creates => Registered
      /\ OutSound(out, VaultAuk', SavedKeys, codes)
      /\ ~creates => VaultAuk' = VaultAuk
  <2>1. "wid" \in Field /\ "wid" \in Core
    BY DEF Field, Core
  <2>2. CASE creates
    BY <1>1, <1>3, <2>1, <2>2 DEF JobSound, Accepts, VaultAuk
  <2>3. CASE ~creates
    <3>1. Registered /\ OutSound(out, VaultAuk, SavedKeys, codes)
      BY <1>1, <2>3 DEF JobSound
    <3>2. VaultAuk' = VaultAuk
      BY <1>3, <2>1, <3>1 DEF OutSound, BelongsTo, VaultAuk
    <3> QED
      BY <2>3, <3>1, <3>2
  <2> QED
    BY <2>2, <2>3
<1>6. \A f \in Core : server'[f] \in FieldType(f)
  BY <1>2, <1>3, <1>4, <1>5 DEF OutOK, Sound, ServerSound
<1>7. Registered'
  <2>1. server'["wpp"] \in WrappedAuk
    BY <1>6, FieldTypes DEF Core
  <2>2. server'["wpp"] # None
    BY <2>1, NoneIsNoBlob
  <2> QED
    BY <2>2 DEF Registered, Vacant, Field
<1>8. \A f \in Field \ DOMAIN out :
        creates => server[f] = None
  BY <1>5 DEF Registered, Vacant
<1>9. \A f \in Field : server'[f] # None =>
        /\ BelongsTo(f, server'[f], VaultAuk')
        /\ Usable(f, server'[f], SavedKeys, codes)
  <2> SUFFICES ASSUME NEW f \in Field, server'[f] # None
               PROVE  /\ BelongsTo(f, server'[f], VaultAuk')
                      /\ Usable(f, server'[f], SavedKeys, codes)
    OBVIOUS
  <2>1. CASE f \in DOMAIN out
    BY <1>3, <1>5, <2>1 DEF OutSound
  <2>2. CASE f \notin DOMAIN out
    BY <1>3, <1>5, <1>8, <2>2 DEF Sound, ServerSound
  <2> QED
    BY <2>1, <2>2
<1>10. PublicKeysMatch'
  <2>1. Paired(out)
    BY <1>5 DEF OutSound
  <2>2. {"wid", "pub", "wamk", "amkPub"} \subseteq Field
    BY DEF Field
  <2>3. server'["pub"] = PublicOf(server'["wid"].pt)
    BY <1>3, <1>5, <2>1, <2>2 DEF Paired, Core, Sound, ServerSound, PublicKeysMatch
  <2>4. IF server'["wamk"] = None
          THEN server'["amkPub"] = None
          ELSE server'["amkPub"] = PublicOf(server'["wamk"].pt)
    <3>1. CASE creates
      BY <1>3, <1>5, <1>8, <2>2, <3>1 DEF Core
    <3>2. CASE ~creates /\ "wamk" \in DOMAIN out
      <4>1. out["wamk"] \in Blob(DrawNumber)
        BY <1>2, <3>2, FieldTypes DEF OutOK
      <4>2. out["wamk"] # None /\ out["amkPub"] = PublicOf(out["wamk"].pt)
        BY <2>1, <3>2, <4>1, NoneIsNoBlob DEF Paired
      <4> QED
        BY <1>3, <2>1, <2>2, <3>2, <4>2 DEF Paired
    <3>3. CASE ~creates /\ "wamk" \notin DOMAIN out
      <4>1. PublicKeysMatch /\ Registered
        BY <1>5, <3>3 DEF Sound, ServerSound
      <4> QED
        BY <1>3, <2>1, <2>2, <3>3, <4>1 DEF Paired, PublicKeysMatch
    <3> QED
      BY <3>1, <3>2, <3>3
  <2> QED
    BY <2>3, <2>4 DEF PublicKeysMatch
<1>11. ServerSound'
  BY <1>1, <1>6, <1>9, <1>10 DEF ServerSound
<1>12. \A e \in Device : job'[e] # None => JobSound(job[e])'
  <2> SUFFICES ASSUME NEW e \in Device, job'[e] # None
               PROVE  JobSound(job[e])'
    OBVIOUS
  <2>1. job'[e] = job[e] /\ job[e] # None
    BY DEF Store, Sound, TypeOK
  <2>2. JobSound(job[e])
    BY <2>1 DEF Sound
  <2>3. CASE job[e].op = "create_vault"
    BY <1>1, <2>1, <2>2, <2>3 DEF JobSound
  <2>4. CASE job[e].op # "create_vault"
    <3>1. Registered /\ OutSound(job[e].out, VaultAuk, SavedKeys, codes)
      BY <2>2, <2>4 DEF JobSound
    <3>2. VaultAuk' = VaultAuk
      BY <1>5, <3>1
    <3> QED
      BY <1>1, <1>7, <2>1, <2>4, <3>1, <3>2 DEF JobSound
  <2> QED
    BY <2>3, <2>4
<1> QED
  BY StoreType, <1>11, <1>12 DEF Sound

\* The record and the pending uploads stay, or uploads are dropped; saved keys
\* and written codes stay or grow: unlocking, signing, a refusal, a crash and
\* linking a device.
LEMMA QuietSound ==
  ASSUME Sound, TypeOK', UNCHANGED server, KeepsCredentials,
         \A e \in Device : job'[e] \in {job[e], None}
  PROVE  Sound'
  BY UntouchedServer DEF Sound

\* Unlocking changes memory alone.
LEMMA UnwrapSound ==
  ASSUME Sound, Registered, NEW d \in Device, NEW auk, UnwrapIdentity(d, auk)
  PROVE  Sound'
<1>1. UNCHANGED <<server, job, keys, codes, signed, draws, past>>
  BY DEF UnwrapIdentity
<1>2. server.wid.pt \in DrawNumber
  BY ReadSound DEF Blob
<1>3. held' \in [Device -> SUBSET DrawNumber]
  BY <1>2 DEF UnwrapIdentity, Sound, TypeOK
<1>4. TypeOK'
  BY <1>1, <1>3 DEF Sound, TypeOK, RecordOK, JobOK
<1>5. KeepsCredentials
  BY <1>1 DEF KeepsCredentials, SavedKeys
<1> QED
  BY <1>1, <1>4, <1>5, QuietSound

\* Signing with the AMK changes nothing stored.
LEMMA SignSound ==
  ASSUME Sound, Registered, NEW auk, AmkSignFromAuk(auk)
  PROVE  Sound'
<1>1. UNCHANGED <<server, job, keys, codes, held, draws, past>>
  BY DEF AmkSignFromAuk
<1>2. server.wamk.pt \in DrawNumber
  BY ReadSound DEF Blob, AmkSignFromAuk
<1>3. signed' \subseteq DrawNumber
  BY <1>2 DEF AmkSignFromAuk, Sound, TypeOK
<1>4. TypeOK'
  BY <1>1, <1>3 DEF Sound, TypeOK, RecordOK, JobOK
<1>5. KeepsCredentials
  BY <1>1 DEF KeepsCredentials, SavedKeys
<1> QED
  BY <1>1, <1>4, <1>5, QuietSound

\* A device drops what it was about to store, and perhaps its memory.
LEMMA DropSound ==
  ASSUME Sound, NEW d \in Device, Refuse(d) \/ Crash(d)
  PROVE  Sound'
<1>1. /\ UNCHANGED <<server, keys, codes, signed, draws, past>>
      /\ job' = [job EXCEPT ![d] = None]
  BY DEF Refuse, Crash
<1>2. held' \in [Device -> SUBSET DrawNumber]
  BY DEF Refuse, Crash, Sound, TypeOK
<1>3. \A e \in Device : job'[e] = IF e = d THEN None ELSE job[e]
  BY <1>1 DEF Sound, TypeOK
<1>4. JobsOK'
  BY <1>1, <1>3 DEF JobsOK, JobOK, Sound, TypeOK
<1>5. TypeOK'
  BY <1>1, <1>2, <1>4 DEF Sound, TypeOK, RecordOK, JobsOK
<1>6. KeepsCredentials
  BY <1>1 DEF KeepsCredentials, SavedKeys
<1> QED
  BY <1>1, <1>3, <1>5, <1>6, QuietSound

\* Linking a device only adds a saved key.
LEMMA LinkSound ==
  ASSUME Sound, NEW d \in Device, NEW sk \in SavedKeys, LinkDevice(d, sk)
  PROVE  Sound'
<1>1. UNCHANGED <<server, job, codes, held, signed, draws, past>>
  BY DEF LinkDevice
<1>2. sk \in DrawNumber
  BY DEF Sound, TypeOK, SavedKeys
<1>3. keys' \in [Device -> SUBSET DrawNumber] /\ KeepsCredentials
  BY <1>1, <1>2 DEF LinkDevice, Sound, TypeOK, SavedKeys, KeepsCredentials
<1>4. TypeOK'
  BY <1>1, <1>3 DEF Sound, TypeOK, RecordOK, JobOK
<1> QED
  BY <1>1, <1>3, <1>4, QuietSound

-----------------------------------------------------------------------------
(* The inductive invariant: every step.                                    *)

\* Every flow that takes a passphrase and a Secret Key preserves Sound.
LEMMA PassphraseFlowSound ==
  ASSUME Sound, NEW d \in Device, PassphraseFlow(d)
  PROVE  Sound'
<1> PICK pp \in Passphrase, sk \in keys[d] :
      \/ UnlockVault(d, pp, sk)
      \/ \E newPp \in Passphrase : ChangePassphrase(d, pp, sk, newPp)
      \/ RotateSecretKey(d, pp, sk)
      \/ RotateRecoveryCode(d, pp, sk)
      \/ RotateIdentity(d, pp, sk)
      \/ EnrollPrf(d, pp, sk)
      \/ AmkEnsure(d, pp, sk)
      \/ AmkSign(pp, sk)
  BY DEF PassphraseFlow
<1>1. CASE UnlockVault(d, pp, sk)
  BY <1>1, UnwrapSound DEF UnlockVault, CanUnlockAuk
<1>2. CASE \E newPp \in Passphrase : ChangePassphrase(d, pp, sk, newPp)
  BY <1>2, ChangePassphraseSound
<1>3. CASE RotateSecretKey(d, pp, sk)
  BY <1>3, RotateSecretKeySound
<1>4. CASE RotateRecoveryCode(d, pp, sk)
  BY <1>4, RotateRecoveryCodeSound
<1>5. CASE RotateIdentity(d, pp, sk)
  BY <1>5, RotateIdentitySound
<1>6. CASE EnrollPrf(d, pp, sk)
  BY <1>6, EnrollPrfSound
<1>7. CASE AmkEnsure(d, pp, sk)
  BY <1>7, AmkEnsureSound, ReadSound DEF AmkEnsure, CanUnlockAuk
<1>8. CASE AmkSign(pp, sk)
  BY <1>8, SignSound DEF AmkSign, CanUnlockAuk
<1> QED
  BY <1>1, <1>2, <1>3, <1>4, <1>5, <1>6, <1>7, <1>8

\* Sound is inductive: one step for each disjunct of Next.
LEMMA NextSound == Sound /\ [Next]_vars => Sound'
<1> SUFFICES ASSUME Sound, [Next]_vars PROVE Sound'
  OBVIOUS
<1>1. CASE UNCHANGED vars
  BY <1>1, QuietSound DEF vars, Sound, TypeOK, RecordOK, JobOK, KeepsCredentials, SavedKeys
<1>2. CASE Next
  <2> PICK d \in Device :
        \/ \E pp \in Passphrase, profile \in Profile : CreateVault(d, pp, profile)
        \/ PassphraseFlow(d)
        \/ RecoveryFlow(d)
        \/ PrfFlow(d)
        \/ Environment(d)
    BY <1>2 DEF Next
  <2>1. CASE \E pp \in Passphrase, profile \in Profile : CreateVault(d, pp, profile)
    BY <2>1, CreateVaultSound
  <2>2. CASE PassphraseFlow(d)
    BY <2>2, PassphraseFlowSound
  <2>3. CASE RecoveryFlow(d)
    <3> PICK code \in codes :
          \/ UnlockRecovery(d, code)
          \/ \E sk \in keys[d], newPp \in Passphrase :
               ResetPassphrase(d, code, sk, newPp)
      BY <2>3 DEF RecoveryFlow
    <3>1. CASE UnlockRecovery(d, code)
      BY <3>1, UnwrapSound DEF UnlockRecovery, CanUnlockRecovery
    <3>2. CASE \E sk \in keys[d], newPp \in Passphrase :
                 ResetPassphrase(d, code, sk, newPp)
      BY <3>2, ResetPassphraseSound
    <3> QED
      BY <3>1, <3>2
  <2>4. CASE PrfFlow(d)
    <3>1. CASE UnlockPrf(d)
      BY <3>1, UnwrapSound DEF UnlockPrf, CanUnlockPrf
    <3>2. CASE AmkEnsurePrf(d)
      BY <3>2, AmkEnsureSound, ReadSound DEF AmkEnsurePrf, CanUnlockPrf
    <3>3. CASE AmkSignPrf(d)
      BY <3>3, SignSound DEF AmkSignPrf, CanUnlockPrf
    <3> QED
      BY <2>4, <3>1, <3>2, <3>3 DEF PrfFlow
  <2>5. CASE Environment(d)
    BY <2>5, StoreSound, DropSound, LinkSound DEF Environment
  <2> QED
    BY <2>1, <2>2, <2>3, <2>4, <2>5
<1> QED
  BY <1>1, <1>2

\* Sound holds of an account not yet registered.
LEMMA InitSound == Init => Sound
<1> SUFFICES ASSUME Init PROVE Sound
  OBVIOUS
<1>1. TypeOK
  BY MaxDrawsAssumption DEF Init, TypeOK, RecordOK, Vacant
<1> QED
  BY <1>1 DEF Init, Sound, ServerSound, Registered

-----------------------------------------------------------------------------
(* The theorems.                                                           *)

\* The stored fields and every pending upload stay coherent: the invariant the
\* theorems below are read off from.
THEOREM Soundness == Spec => []Sound
  BY InitSound, NextSound, PTL DEF Spec

\* Type correctness: the record, the pending uploads and the credentials keep
\* the shape src/flows.rs gives them.
THEOREM TypeCorrect == Spec => []TypeOK
<1>1. Sound => TypeOK
  BY DEF Sound
<1> QED
  BY <1>1, Soundness, PTL

\* Whatever way in the user takes, the same AUK comes out, and it is the one
\* that seals the identity and the AMK.
THEOREM OneAukAlways == Spec => []OneAuk
<1>1. Sound => OneAuk
  <2> SUFFICES ASSUME Sound, Registered
               PROVE  /\ AukOf(server.wpp) = VaultAuk
                      /\ AukOf(server.wrec) = VaultAuk
                      /\ server.wprf # None => AukOf(server.wprf) = VaultAuk
                      /\ server.wamk # None => server.wamk.key = VaultAuk
    BY DEF OneAuk
  <2> QED
    BY ReadSound
<1> QED
  BY <1>1, Soundness, PTL

\* The registered public keys are always those of the sealed secrets.
THEOREM PublicKeysAlwaysMatch == Spec => []PublicKeysMatch
<1>1. Sound => PublicKeysMatch
  BY DEF Sound, ServerSound, PublicKeysMatch
<1> QED
  BY <1>1, Soundness, PTL

\* There is always a passphrase with a saved Secret Key, and a written recovery
\* code, that open the vault.
THEOREM NeverLockedOutAlways == Spec => []NeverLockedOut
<1>1. Sound => NeverLockedOut
  <2> SUFFICES ASSUME Sound, Registered PROVE NeverLockedOut
    BY DEF NeverLockedOut
  <2>1. /\ AukOf(server.wpp) = VaultAuk /\ AukOf(server.wrec) = VaultAuk
        /\ server.wpp # None /\ server.wrec # None
    BY ReadSound, NoneIsNoBlob
  <2>2. Usable("wpp", server["wpp"], SavedKeys, codes)
    BY <2>1 DEF Sound, ServerSound, Field
  <2>3. Usable("wrec", server["wrec"], SavedKeys, codes)
    BY <2>1 DEF Sound, ServerSound, Field
  <2>4. Opens(AukOf(server.wpp), server.wid) /\ Opens(AukOf(server.wrec), server.wid)
    BY <2>1 DEF Opens, VaultAuk
  <2> QED
    BY <2>2, <2>3, <2>4 DEF NeverLockedOut, Usable, CanUnlockAuk, CanUnlockRecovery
<1> QED
  BY <1>1, Soundness, PTL

\* The flows compute; the record, and the draws that reached the server, change
\* only when an upload arrives.
LEMMA OnlyStoreWrites == Next => UNCHANGED <<server, past>> \/ \E d \in Device : Store(d)
<1> SUFFICES ASSUME NEW d \in Device,
                    \/ \E pp \in Passphrase, profile \in Profile : CreateVault(d, pp, profile)
                    \/ PassphraseFlow(d)
                    \/ RecoveryFlow(d)
                    \/ PrfFlow(d)
                    \/ Environment(d)
             PROVE  UNCHANGED <<server, past>> \/ Store(d)
  BY DEF Next
<1>1. \A op, out : Flow(d, op, out) => UNCHANGED <<server, past>>
  BY DEF Flow
<1>2. \A auk : AmkEnsureFromAuk(d, auk) => UNCHANGED <<server, past>>
  BY <1>1 DEF AmkEnsureFromAuk, AmkMint, AmkLoad
<1>3. \A auk : UnwrapIdentity(d, auk) \/ AmkSignFromAuk(auk) => UNCHANGED <<server, past>>
  BY DEF UnwrapIdentity, AmkSignFromAuk
<1>4. CASE \E pp \in Passphrase, profile \in Profile : CreateVault(d, pp, profile)
  BY <1>1, <1>4 DEF CreateVault
<1>5. CASE PassphraseFlow(d)
  BY <1>1, <1>2, <1>3, <1>5
  DEF PassphraseFlow, UnlockVault, ChangePassphrase, RotateSecretKey,
      RotateRecoveryCode, RotateIdentity, EnrollPrf, AmkEnsure, AmkSign
<1>6. CASE RecoveryFlow(d)
  BY <1>1, <1>3, <1>6 DEF RecoveryFlow, UnlockRecovery, ResetPassphrase
<1>7. CASE PrfFlow(d)
  BY <1>2, <1>3, <1>7 DEF PrfFlow, UnlockPrf, AmkEnsurePrf, AmkSignPrf
<1>8. CASE Environment(d)
  BY <1>8 DEF Environment, Refuse, Crash, LinkDevice
<1> QED
  BY <1>4, <1>5, <1>6, <1>7, <1>8

\* Only Store writes the record, and a pending upload that is not a creation
\* seals its identity under the AUK the vault has.
THEOREM AukIsForever == Spec => AukNeverReplaced
<1>1. Sound /\ [Next]_vars => [Registered => VaultAuk' = VaultAuk]_vars
  <2> SUFFICES ASSUME Sound, Next, Registered PROVE VaultAuk' = VaultAuk
    BY DEF vars
  <2>1. CASE UNCHANGED server
    BY <2>1 DEF VaultAuk
  <2>2. CASE \E d \in Device : Store(d)
    <3> PICK d \in Device : Store(d)
      BY <2>2
    <3>1. /\ JobSound(job[d]) /\ Accepts(job[d])
          /\ server' = Overlay(server, job[d].out)
      BY DEF Store, Idle, Sound
    <3>2. OutSound(job[d].out, VaultAuk, SavedKeys, codes)
      BY <3>1 DEF JobSound, Accepts
    <3> QED
      BY <3>1, <3>2 DEF Overlay, OutSound, BelongsTo, VaultAuk, Field
  <2>3. UNCHANGED server \/ \E d \in Device : Store(d)
    BY OnlyStoreWrites
  <2> QED
    BY <2>1, <2>2, <2>3
<1> QED
  BY <1>1, Soundness, PTL DEF Spec, AukNeverReplaced

-----------------------------------------------------------------------------
(* A checking server: flow steps.                                          *)

\* What a flow call leaves on the device.
LEMMA FlowJob ==
  ASSUME TypeOK, NEW d \in Device, NEW op, NEW out, Flow(d, op, out)
  PROVE  /\ job'[d].op = op
         /\ job'[d].n = Fresh
         /\ job'[d].out = out
         /\ job'[d].read = [f \in DOMAIN out |-> server[f]]
         /\ \A e \in Device : e # d => job'[e] = job[e]
         /\ UNCHANGED <<server, signed, past>>
         /\ draws \in Nat /\ draws' = Fresh /\ Fresh = draws + 1
         /\ job[d] = None
<1> DEFINE seen == [f \in DOMAIN out |-> server[f]]
           j == [op |-> op, n |-> Fresh, out |-> out, read |-> seen]
<1>1. \A e \in Device : job'[e] = IF e = d THEN j ELSE job[e]
  BY DEF Flow, Pending, TypeOK
<1>2. /\ UNCHANGED <<server, signed, past>>
      /\ draws' = Fresh
      /\ job[d] = None
  BY DEF Flow, Idle
<1>3. draws \in Nat /\ Fresh = draws + 1
  BY MaxDrawsAssumption DEF TypeOK, Fresh
<1> HIDE DEF seen
<1>4. job'[d].op = op /\ job'[d].n = Fresh /\ job'[d].out = out /\ job'[d].read = seen
  BY <1>1
<1> QED
  BY <1>1, <1>2, <1>3, <1>4 DEF seen

\* The record stays and no draw is lost: what was orderly of the record and of
\* an upload that is kept, with the memory it needs, stays orderly.
LEMMA StaysOrderly ==
  ASSUME Orderly, UNCHANGED <<server, past>>, draws \in Nat, draws' \in Nat, draws <= draws'
  PROVE  /\ past' \subseteq 1 .. draws'
         /\ ~Registered' => past' = {}
         /\ \A f \in Stamped : server'[f] # None => Stamp(f, server'[f]) \in past'
         /\ \A e \in Device :
              /\ job[e] # None
              /\ job'[e] = job[e]
              /\ held'[e] = held[e] \/ job[e].op # "rotate_identity"
              => JobOrderly(e, job[e])'
<1>1. 1 .. draws \subseteq 1 .. draws'
  OBVIOUS
<1>2. past' \subseteq 1 .. draws'
  BY <1>1 DEF Orderly, ServerOrderly
<1>3. /\ ~Registered' => past' = {}
      /\ \A f \in Stamped : server'[f] # None => Stamp(f, server'[f]) \in past'
  BY DEF Orderly, ServerOrderly, Registered
<1>4. ASSUME NEW e \in Device, job[e] # None, job'[e] = job[e],
             held'[e] = held[e] \/ job[e].op # "rotate_identity"
      PROVE  JobOrderly(e, job[e])'
  <2>1. JobOrderly(e, job[e])
    BY <1>4 DEF Orderly
  <2> DEFINE j == job[e]
  <2>2. job'[e] = j
    BY <1>4
  <2> HIDE DEF j
  <2> QED
    BY <1>1, <1>4, <2>1, <2>2 DEF JobOrderly, j
<1> QED
  BY <1>2, <1>3, <1>4

\* A flow call whose result replaces what it should, sealed by its own draw,
\* keeps everything orderly.
LEMMA FlowOrderly ==
  ASSUME TypeOK, Orderly, NEW d \in Device, NEW op, NEW out, Flow(d, op, out),
         op # "amk_load",
         Result(d, job'[d]),
         \A f \in DOMAIN out \cap Stamped : Stamp(f, out[f]) = Fresh,
         \A e \in Device : e # d => held'[e] = held[e],
         op = "rotate_identity" => {Fresh, server.wid.pt} \subseteq held'[d],
         "wid" \in DOMAIN out \/ op # "rotate_identity"
  PROVE  Orderly'
<1>1. /\ job'[d].op = op
      /\ job'[d].n = Fresh
      /\ job'[d].out = out
      /\ job'[d].read = [f \in DOMAIN out |-> server[f]]
      /\ \A e \in Device : e # d => job'[e] = job[e]
      /\ UNCHANGED <<server, signed, past>>
      /\ draws \in Nat /\ draws' = Fresh /\ Fresh = draws + 1
  BY FlowJob
<1>2. draws' \in Nat /\ draws <= draws' /\ Fresh \in 1 .. draws' /\ Fresh \notin 1 .. draws
  BY <1>1
<1>3. /\ past' \subseteq 1 .. draws'
      /\ ~Registered' => past' = {}
      /\ \A f \in Stamped : server'[f] # None => Stamp(f, server'[f]) \in past'
      /\ \A e \in Device :
           /\ job[e] # None
           /\ job'[e] = job[e]
           /\ held'[e] = held[e] \/ job[e].op # "rotate_identity"
           => JobOrderly(e, job[e])'
  BY <1>1, <1>2, StaysOrderly
<1>4. ServerOrderly'
  BY <1>1, <1>3 DEF Orderly, ServerOrderly
<1>5. Fresh \notin past /\ \A x \in past : x \in Nat /\ x < Fresh
  BY <1>1, <1>2 DEF Orderly, ServerOrderly
<1>6. JobOrderly(d, job[d])'
  <2>1. op = "rotate_identity" => {job'[d].n, job'[d].read.wid.pt} \subseteq held'[d]
    BY <1>1
  <2>2. \A f \in DOMAIN out \cap Stamped :
          job'[d].read[f] # None => Stamp(f, job'[d].read[f]) < Fresh
    BY <1>1, <1>5 DEF Orderly, ServerOrderly
  <2> QED
    BY <1>1, <1>2, <1>5, <2>1, <2>2 DEF JobOrderly
<1>7. \A e \in Device : job'[e] # None => JobOrderly(e, job[e])'
  BY <1>1, <1>3, <1>6
<1>8. \A e \in Device : e # d /\ job[e] # None /\ job[e].op # "amk_load" => job[e].n # Fresh
  BY <1>2 DEF Orderly, JobOrderly
<1>9. DrawsApart'
  BY <1>1, <1>8 DEF Orderly, DrawsApart
<1> QED
  BY <1>4, <1>7, <1>9 DEF Orderly

\* The factors and the nonce of a passphrase wrap, and of a wrap under a KEK.
LEMMA WrapParts ==
  /\ \A auk, pp, sk, profile, n :
       LET w == WrapWithPassphrase(auk, pp, sk, profile, n) IN
       /\ Factor(w) = pp /\ Secret(w) = sk /\ w.params = profile
       /\ w.blob.nonce = n /\ AukOf(w) = auk
  /\ \A auk, kek, method, n :
       LET w == WrapWithKek(auk, kek, method, n) IN
       Factor(w) = kek.factor /\ Secret(w) = kek.secret /\ w.blob.nonce = n
  /\ \A w, pp, sk :
       UnwrapsWithPassphrase(w, pp, sk) => Factor(w) = pp /\ Secret(w) = sk
  /\ \A w, code : UnwrapsWithKek(w, RecoveryKek(code)) <=>
                    w.v = 1 /\ w.blob.key = RecoveryKek(code)
<1>1. ASSUME NEW auk, NEW pp, NEW sk, NEW profile, NEW n
      PROVE  LET w == WrapWithPassphrase(auk, pp, sk, profile, n) IN
             /\ Factor(w) = pp /\ Secret(w) = sk /\ w.params = profile
             /\ w.blob.nonce = n /\ AukOf(w) = auk
  BY DEF WrapWithPassphrase, Seal, PassphraseKek, Factor, Secret, AukOf
<1>2. ASSUME NEW auk, NEW kek, NEW method, NEW n
      PROVE  LET w == WrapWithKek(auk, kek, method, n) IN
             Factor(w) = kek.factor /\ Secret(w) = kek.secret /\ w.blob.nonce = n
  BY DEF WrapWithKek, Seal, Factor, Secret
<1>3. ASSUME NEW w, NEW pp, NEW sk, UnwrapsWithPassphrase(w, pp, sk)
      PROVE  Factor(w) = pp /\ Secret(w) = sk
  BY <1>3 DEF UnwrapsWithPassphrase, Opens, PassphraseKek, Factor, Secret
<1>4. \A w, code : UnwrapsWithKek(w, RecoveryKek(code)) <=>
                    w.v = 1 /\ w.blob.key = RecoveryKek(code)
  BY DEF UnwrapsWithKek, Opens
<1> QED
  BY <1>1, <1>2, <1>3, <1>4

\* The code and the nonce of a recovery wrap.
LEMMA RecoveryWrapParts ==
  ASSUME NEW auk, NEW code
  PROVE  /\ Secret(RecoveryWrap(auk, code)) = code
         /\ RecoveryWrap(auk, code).blob.nonce = Fresh
<1>1. RecoveryKek(code).secret = code
  BY DEF RecoveryKek
<1> QED
  BY <1>1, WrapParts DEF RecoveryWrap

\* create_vault: every secret is of the call's own draw.
LEMMA CreateVaultOrderly ==
  ASSUME TypeOK, Orderly, NEW d \in Device, NEW pp \in Passphrase, NEW profile \in Profile,
         CreateVault(d, pp, profile)
  PROVE  Orderly'
<1> DEFINE wpp == WrapWithPassphrase(Fresh, pp, Fresh, profile, Fresh)
           wrec == RecoveryWrap(Fresh, Fresh)
           wid == WrapIdentity(Fresh, Fresh, Fresh)
           pub == PublicOf(Fresh)
           out == [wpp |-> wpp, wrec |-> wrec, wid |-> wid, pub |-> pub]
<1>1. /\ Flow(d, "create_vault", out)
      /\ \A e \in Device : e # d => held'[e] = held[e]
  BY DEF CreateVault, TypeOK
<1>2. /\ Secret(wpp) = Fresh /\ wpp.params = profile /\ wpp.blob.nonce = Fresh
      /\ Secret(wrec) = Fresh /\ wrec.blob.nonce = Fresh
      /\ wid.pt = Fresh /\ wid.nonce = Fresh
  BY WrapParts, RecoveryWrapParts DEF WrapIdentity, Seal
<1> HIDE DEF wpp, wrec, wid, pub, out
<1>3. job'[d].op = "create_vault" /\ job'[d].n = Fresh /\ job'[d].out = out
  BY <1>1, FlowJob
<1>4. DOMAIN out = Core
  BY DEF Core, out
<1>5. Result(d, job'[d])
  BY <1>2, <1>3, <1>4 DEF Result, out
<1>6. \A f \in DOMAIN out \cap Stamped : Stamp(f, out[f]) = Fresh
  BY <1>2 DEF Stamp, Stamped, out
<1> QED
  BY <1>1, <1>5, <1>6, FlowOrderly

\* The three flows that return a new passphrase wrap.
LEMMA RewrapOrderly ==
  ASSUME TypeOK, Orderly, NEW d \in Device, NEW auk, NEW pp, NEW sk,
         NEW op \in {"change_passphrase", "reset_passphrase", "rotate_secret_key"},
         Flow(d, op, [wpp |-> Rewrap(auk, pp, sk)]),
         op = "change_passphrase" => Secret(server.wpp) = sk,
         op = "rotate_secret_key" => Factor(server.wpp) = pp /\ sk = Fresh,
         held' = held
  PROVE  Orderly'
<1> DEFINE w == Rewrap(auk, pp, sk)
           out == [wpp |-> w]
<1>1. Factor(w) = pp /\ Secret(w) = sk /\ w.params = "constrained" /\ w.blob.nonce = Fresh
  BY WrapParts DEF Rewrap
<1>2. Flow(d, op, out)
  OBVIOUS
<1> HIDE DEF w, out
<1>3. /\ job'[d].op = op /\ job'[d].n = Fresh /\ job'[d].out = out
      /\ job'[d].read = [f \in DOMAIN out |-> server[f]]
  BY <1>2, FlowJob
<1>4. Result(d, job'[d])
  BY <1>1, <1>3 DEF Result, out
<1>5. \A f \in DOMAIN out \cap Stamped : Stamp(f, out[f]) = Fresh
  BY <1>1 DEF Stamp, out
<1>6. op # "amk_load" /\ op # "rotate_identity"
  OBVIOUS
<1> QED
  BY <1>2, <1>4, <1>5, <1>6, FlowOrderly

\* Its three callers.
LEMMA PassphraseChangesOrderly ==
  ASSUME TypeOK, Orderly, NEW d \in Device, NEW pp, NEW sk, NEW newPp,
         \/ ChangePassphrase(d, pp, sk, newPp)
         \/ RotateSecretKey(d, pp, sk)
         \/ ResetPassphrase(d, pp, sk, newPp)
  PROVE  Orderly'
<1>1. CASE ChangePassphrase(d, pp, sk, newPp)
  BY <1>1, WrapParts, RewrapOrderly DEF ChangePassphrase, CanUnlockAuk
<1>2. CASE RotateSecretKey(d, pp, sk)
  BY <1>2, WrapParts, RewrapOrderly DEF RotateSecretKey, CanUnlockAuk
<1>3. CASE ResetPassphrase(d, pp, sk, newPp)
  BY <1>3, RewrapOrderly DEF ResetPassphrase
<1> QED
  BY <1>1, <1>2, <1>3

\* rotate_recovery_code.
LEMMA RotateRecoveryCodeOrderly ==
  ASSUME TypeOK, Orderly, NEW d \in Device, NEW pp, NEW sk, RotateRecoveryCode(d, pp, sk)
  PROVE  Orderly'
<1> DEFINE w == RecoveryWrap(AukOf(server.wpp), Fresh)
           out == [wrec |-> w]
<1>1. Secret(w) = Fresh /\ w.blob.nonce = Fresh
  BY RecoveryWrapParts
<1>2. Flow(d, "rotate_recovery_code", out) /\ held' = held
  BY DEF RotateRecoveryCode
<1> HIDE DEF w, out
<1>3. job'[d].op = "rotate_recovery_code" /\ job'[d].n = Fresh /\ job'[d].out = out
  BY <1>2, FlowJob
<1>4. Result(d, job'[d])
  BY <1>1, <1>3 DEF Result, out
<1>5. \A f \in DOMAIN out \cap Stamped : Stamp(f, out[f]) = Fresh
  BY <1>1 DEF Stamp, out
<1> QED
  BY <1>2, <1>4, <1>5, FlowOrderly

\* enroll_prf.
LEMMA EnrollPrfOrderly ==
  ASSUME TypeOK, Orderly, NEW d \in Device, NEW pp, NEW sk, EnrollPrf(d, pp, sk)
  PROVE  Orderly'
<1> DEFINE w == WrapWithKek(AukOf(server.wpp), PrfKek(d), "webauthn-prf", Fresh)
           out == [wprf |-> w]
<1>1. Factor(w) = d /\ w.blob.nonce = Fresh
  BY WrapParts DEF PrfKek
<1>2. Flow(d, "enroll_prf", out) /\ held' = held
  BY DEF EnrollPrf
<1> HIDE DEF w, out
<1>3. job'[d].op = "enroll_prf" /\ job'[d].n = Fresh /\ job'[d].out = out
  BY <1>2, FlowJob
<1>4. Result(d, job'[d])
  BY <1>1, <1>3 DEF Result, out
<1>5. \A f \in DOMAIN out \cap Stamped : Stamp(f, out[f]) = Fresh
  BY <1>1 DEF Stamp, out
<1> QED
  BY <1>2, <1>4, <1>5, FlowOrderly

\* rotate_identity: the device keeps the secret it read and the new one.
LEMMA RotateIdentityOrderly ==
  ASSUME TypeOK, Orderly, NEW d \in Device, NEW pp, NEW sk, RotateIdentity(d, pp, sk)
  PROVE  Orderly'
<1> DEFINE blob == Seal(AukOf(server.wpp), Fresh, Fresh)
           pub == PublicOf(Fresh)
           out == [wid |-> blob, pub |-> pub]
<1>1. blob.pt = Fresh /\ blob.nonce = Fresh
  BY DEF Seal
<1>2. /\ Flow(d, "rotate_identity", out)
      /\ \A e \in Device : e # d => held'[e] = held[e]
      /\ held'[d] = {Fresh, server.wid.pt}
  BY DEF RotateIdentity, FreshIdentity, WrapIdentity, TypeOK
<1> HIDE DEF blob, pub, out
<1>3. job'[d].op = "rotate_identity" /\ job'[d].n = Fresh /\ job'[d].out = out
  BY <1>2, FlowJob
<1>4. Result(d, job'[d])
  BY <1>1, <1>3 DEF Result, out
<1>5. \A f \in DOMAIN out \cap Stamped : Stamp(f, out[f]) = Fresh
  BY <1>1 DEF Stamp, Stamped, out
<1>6. "wid" \in DOMAIN out
  BY DEF out
<1> QED
  BY <1>2, <1>4, <1>5, <1>6, FlowOrderly

\* amk_ensure, minting.
LEMMA AmkMintOrderly ==
  ASSUME TypeOK, Orderly, NEW d \in Device, NEW auk, AmkMint(d, auk), held' = held
  PROVE  Orderly'
<1> DEFINE blob == Seal(auk, Fresh, Fresh)
           pub == PublicOf(Fresh)
           out == [wamk |-> blob, amkPub |-> pub]
<1>1. blob.pt = Fresh /\ blob.nonce = Fresh
  BY DEF Seal
<1>2. Flow(d, "amk_mint", out) /\ server.wamk = None
  BY DEF AmkMint, FreshAmk, WrapSecret
<1> HIDE DEF blob, pub, out
<1>3. /\ job'[d].op = "amk_mint" /\ job'[d].n = Fresh /\ job'[d].out = out
      /\ job'[d].read = [f \in DOMAIN out |-> server[f]]
  BY <1>2, FlowJob
<1>4. Result(d, job'[d])
  BY <1>1, <1>2, <1>3 DEF Result, out
<1>5. \A f \in DOMAIN out \cap Stamped : Stamp(f, out[f]) = Fresh
  BY <1>1 DEF Stamp, Stamped, out
<1> QED
  BY <1>2, <1>4, <1>5, FlowOrderly

\* amk_ensure, loading: the result is what was read.
LEMMA AmkLoadOrderly ==
  ASSUME TypeOK, Orderly, NEW d \in Device, NEW auk, AmkLoad(d, auk), held' = held
  PROVE  Orderly'
<1> DEFINE w == server.wamk
           pub == PublicOf(w.pt)
           out == [wamk |-> w, amkPub |-> pub]
           seen == [f \in DOMAIN out |-> server[f]]
           j == [op |-> "amk_load", n |-> w.nonce, out |-> out, read |-> seen]
<1>1. /\ \A e \in Device : job'[e] = IF e = d THEN j ELSE job[e]
      /\ UNCHANGED <<server, signed, draws, past>>
      /\ w # None
  BY DEF AmkLoad, Pending, TypeOK
<1>2. seen.wamk = w /\ "wamk" \in Stamped
  BY DEF Stamped
<1>3. w.nonce \in past
  BY <1>1, <1>2 DEF Orderly, ServerOrderly, Stamp
<1> HIDE DEF seen, w, pub
<1>4. /\ job'[d].op = "amk_load" /\ job'[d].n = w.nonce
      /\ job'[d].out = out /\ job'[d].read = seen
  BY <1>1
<1>5. Result(d, job'[d])
  BY <1>1, <1>2, <1>4 DEF Result
<1>6. JobOrderly(d, job[d])'
  BY <1>1, <1>3, <1>4, <1>5 DEF JobOrderly
<1>7. draws \in Nat
  BY MaxDrawsAssumption DEF TypeOK
<1>8. /\ past' \subseteq 1 .. draws'
      /\ ~Registered' => past' = {}
      /\ \A f \in Stamped : server'[f] # None => Stamp(f, server'[f]) \in past'
      /\ \A e \in Device :
           /\ job[e] # None
           /\ job'[e] = job[e]
           /\ held'[e] = held[e] \/ job[e].op # "rotate_identity"
           => JobOrderly(e, job[e])'
  BY <1>1, <1>7, StaysOrderly
<1>9. ServerOrderly'
  BY <1>1, <1>8 DEF Orderly, ServerOrderly
<1>10. \A e \in Device : job'[e] # None => JobOrderly(e, job[e])'
  BY <1>1, <1>6, <1>8
<1>11. DrawsApart'
  BY <1>1, <1>4 DEF Orderly, DrawsApart
<1> QED
  BY <1>9, <1>10, <1>11 DEF Orderly

-----------------------------------------------------------------------------
(* A checking server: the environment.                                     *)

\* Every result has a sealed field, and a value of a sealed field is not None.
LEMMA ResultSealed ==
  ASSUME NEW d, NEW j, Result(d, j)
  PROVE  \E f \in DOMAIN j.out : f \in Stamped
  BY DEF Result, Core, Stamped

LEMMA SealedIsSome ==
  ASSUME NEW out, OutOK(out), NEW f \in DOMAIN out, f \in Stamped
  PROVE  out[f] # None
<1>1. f \in {"wpp", "wrec", "wprf"} \/ f \in {"wid", "wamk"}
  BY DEF Stamped
<1>2. out[f] \in WrappedAuk \/ out[f] \in Blob(DrawNumber)
  BY <1>1, FieldTypes DEF OutOK
<1> QED
  BY <1>2, NoneIsNoBlob

\* What an arriving upload does.
LEMMA StoreParts ==
  ASSUME Sound, Orderly, Checked, NEW d \in Device, Store(d)
  PROVE  /\ job[d] # None
         /\ JobOrderly(d, job[d]) /\ JobSound(job[d]) /\ OutOK(job[d].out)
         /\ DOMAIN job[d].read = DOMAIN job[d].out
         /\ \A f \in Field : server'[f] = IF f \in DOMAIN job[d].out
                                            THEN job[d].out[f] ELSE server[f]
         /\ job[d].op = "create_vault" => ~Registered
         /\ job[d].op # "create_vault" =>
              Registered /\ \A f \in DOMAIN job[d].out : server[f] = job[d].read[f]
         /\ past' = past \cup {job[d].n}
         /\ \A e \in Device : job'[e] # None => job'[e] = job[e]
         /\ UNCHANGED <<keys, codes, held, signed, draws>>
<1>1. job[d] # None
  BY DEF Store, Idle
<1>2. JobOrderly(d, job[d]) /\ JobSound(job[d])
  BY <1>1 DEF Sound, Orderly
<1>3. JobOK(job[d])
  BY <1>1 DEF Sound, TypeOK
<1>4. OutOK(job[d].out) /\ DOMAIN job[d].read = DOMAIN job[d].out
  BY <1>3 DEF JobOK, OutOK
<1>5. \A f \in Field : server'[f] = IF f \in DOMAIN job[d].out
                                      THEN job[d].out[f] ELSE server[f]
  BY DEF Store, Overlay
<1>6. /\ job[d].op = "create_vault" => ~Registered
      /\ job[d].op # "create_vault" =>
           Registered /\ \A f \in DOMAIN job[d].out : server[f] = job[d].read[f]
  BY <1>2 DEF Store, Accepts, JobSound
<1>7. \A e \in Device : job'[e] # None => job'[e] = job[e]
  BY DEF Store, Sound, TypeOK
<1> QED
  BY <1>1, <1>2, <1>4, <1>5, <1>6, <1>7 DEF Store

\* An upload of a draw is accepted once: repeated, it finds a later stamp than
\* what it read.
LEMMA AcceptedOnce ==
  ASSUME Sound, Orderly, Checked, NEW d \in Device, Store(d), job[d].op # "amk_load"
  PROVE  job[d].n \notin past /\ job[d].n \in 1 .. draws
<1> DEFINE j == job[d]
<1>1. /\ JobOrderly(d, j) /\ DOMAIN j.out \subseteq Field
      /\ j.op = "create_vault" => ~Registered
      /\ j.op # "create_vault" => \A f \in DOMAIN j.out : server[f] = j.read[f]
  BY StoreParts DEF OutOK
<1> HIDE DEF j
<1>2. PICK f \in DOMAIN j.out : f \in Stamped
  BY <1>1, ResultSealed DEF JobOrderly
<1>3. /\ j.n \in 1 .. draws
      /\ j.read[f] # None => Stamp(f, j.read[f]) < j.n
      /\ j.n \in past => server[f] # None /\ Stamp(f, server[f]) >= j.n
  BY <1>1, <1>2 DEF JobOrderly, j
<1>4. server[f] # None => Stamp(f, server[f]) \in 1 .. draws
  BY <1>2 DEF Orderly, ServerOrderly
<1>5. draws \in Nat
  BY MaxDrawsAssumption DEF Sound, TypeOK
<1>6. CASE j.op = "create_vault"
  BY <1>1, <1>2, <1>3, <1>6 DEF Registered, Vacant, j
<1>7. CASE j.op # "create_vault"
  <2>1. server[f] = j.read[f]
    BY <1>1, <1>7
  <2> QED
    BY <1>3, <1>4, <1>5, <2>1 DEF j
<1> QED
  BY <1>6, <1>7

\* Storing the AMK that was loaded changes nothing.
LEMMA LoadStoresNothing ==
  ASSUME Sound, Orderly, Checked, NEW d \in Device, Store(d), job[d].op = "amk_load"
  PROVE  UNCHANGED <<server, past>>
<1> DEFINE j == job[d]
<1>1. /\ JobOrderly(d, j) /\ JobSound(j)
      /\ \A f \in Field : server'[f] = IF f \in DOMAIN j.out THEN j.out[f] ELSE server[f]
      /\ Registered /\ \A f \in DOMAIN j.out : server[f] = j.read[f]
      /\ past' = past \cup {j.n}
  BY StoreParts
<1>2. past' = past
  BY <1>1 DEF JobOrderly
<1>3. server = [f \in Field |-> server[f]] /\ server' = [f \in Field |-> server'[f]]
  BY DEF Store, Overlay, Sound, TypeOK, RecordOK
<1> HIDE DEF j
<1>4. /\ DOMAIN j.out = {"wamk", "amkPub"}
      /\ j.out.wamk = j.read.wamk /\ j.out.wamk # None
  BY <1>1 DEF JobOrderly, Result, j
<1>5. server.wamk = j.out.wamk
  BY <1>1, <1>4
<1>6. j.out.amkPub = PublicOf(j.out.wamk.pt)
  BY <1>1, <1>4 DEF JobSound, OutSound, Paired, j
<1>7. server.amkPub = j.out.amkPub
  BY <1>1, <1>4, <1>5, <1>6 DEF Sound, ServerSound, PublicKeysMatch
<1>8. \A f \in Field : server'[f] = server[f]
  BY <1>1, <1>4, <1>5, <1>7
<1> QED
  BY <1>2, <1>3, <1>8

\* An AMK that is stored stays: no mint is accepted over it.
LEMMA AmkStays ==
  ASSUME Sound, Orderly, Checked, NEW d \in Device, Store(d), server.wamk # None
  PROVE  server'.wamk = server.wamk
<1>1. /\ Result(d, job[d])
      /\ server'.wamk = IF "wamk" \in DOMAIN job[d].out THEN job[d].out.wamk ELSE server.wamk
      /\ job[d].op # "create_vault" => \A f \in DOMAIN job[d].out : server[f] = job[d].read[f]
  BY StoreParts DEF JobOrderly, Field
<1>2. CASE job[d].op = "amk_load"
  BY <1>2, LoadStoresNothing
<1>3. CASE job[d].op # "amk_load"
  BY <1>1, <1>3 DEF Result, Core
<1> QED
  BY <1>2, <1>3

\* An upload that arrives keeps everything orderly: what it wrote is newer than
\* what any earlier draw would replace.
LEMMA StoreOrderly ==
  ASSUME Sound, Orderly, Checked, NEW d \in Device, Store(d)
  PROVE  Orderly'
<1>1. /\ JobOrderly(d, job[d]) /\ OutOK(job[d].out)
      /\ \A f \in Field : server'[f] = IF f \in DOMAIN job[d].out
                                         THEN job[d].out[f] ELSE server[f]
      /\ job[d].op = "create_vault" => ~Registered
      /\ job[d].op # "create_vault" =>
           Registered /\ \A f \in DOMAIN job[d].out : server[f] = job[d].read[f]
      /\ past' = past \cup {job[d].n}
      /\ \A e \in Device : job'[e] # None => job'[e] = job[e]
      /\ UNCHANGED <<keys, codes, held, signed, draws>>
  BY StoreParts
<1>2. draws \in Nat /\ Stamped \subseteq Field
  BY MaxDrawsAssumption DEF Sound, TypeOK, Stamped, Field
<1>3. DrawsApart'
  BY <1>1 DEF Orderly, DrawsApart
<1>4. CASE job[d].op = "amk_load"
  <2>1. UNCHANGED <<server, past>>
    BY <1>4, LoadStoresNothing
  <2>2. ServerOrderly'
    BY <1>1, <2>1 DEF Orderly, ServerOrderly, Registered
  <2>3. \A e \in Device : job'[e] # None => JobOrderly(e, job[e])'
    BY <1>1, <1>2, <2>1, StaysOrderly
  <2> QED
    BY <1>3, <2>2, <2>3 DEF Orderly
<1>5. CASE job[d].op # "amk_load"
  <2> DEFINE n == job[d].n
             out == job[d].out
             read == job[d].read
  <2>1. n \notin past /\ n \in 1 .. draws
    BY <1>5, AcceptedOnce
  <2>2. \A f \in Stamped : f \in DOMAIN out =>
          /\ server'[f] = out[f] /\ out[f] # None
          /\ Stamp(f, out[f]) = n
          /\ read[f] # None => Stamp(f, read[f]) < n
    BY <1>1, <1>2, <1>5, SealedIsSome DEF JobOrderly
  <2>3. \A f \in Stamped : f \notin DOMAIN out => server'[f] = server[f]
    BY <1>1, <1>2
  <2>4. Registered'
    <3>1. PICK f \in DOMAIN out : f \in Stamped
      BY <1>1, ResultSealed DEF JobOrderly
    <3>2. server'[f] # None /\ f \in Field
      BY <1>2, <2>2, <3>1
    <3> QED
      BY <3>2 DEF Registered, Vacant
  <2>5. signed' # {} => server'.wamk # None /\ signed' = {server'.wamk.pt}
    BY <1>1, AmkStays DEF Orderly, ServerOrderly
  <2>6. \A f \in Stamped : server'[f] # None => Stamp(f, server'[f]) \in past'
    BY <1>1, <2>2, <2>3 DEF Orderly, ServerOrderly
  <2>7. ServerOrderly'
    BY <1>1, <2>1, <2>4, <2>5, <2>6 DEF Orderly, ServerOrderly
  <2>8. ASSUME NEW e \in Device, job'[e] # None
        PROVE  JobOrderly(e, job[e])'
    <3> DEFINE k == job[e]
    <3>1. job'[e] = k /\ JobOrderly(e, k)
      BY <1>1, <2>8 DEF Orderly
    <3>2. ASSUME k.op # "amk_load", NEW f \in DOMAIN k.out \cap Stamped, k.n \in past'
          PROVE  server'[f] # None /\ Stamp(f, server'[f]) >= k.n
      <4>1. CASE e = d
        <5>1. server'[f] # None /\ Stamp(f, server'[f]) = n /\ k.n = n
          BY <2>2, <3>2, <4>1
        <5> QED
          BY <2>1, <5>1
      <4>2. CASE e # d
        <5>1. k.n # n
          BY <1>5, <2>8, <3>1, <3>2, <4>2 DEF Orderly, DrawsApart, Store, Idle
        <5>2. k.n \in past
          BY <1>1, <3>2, <5>1
        <5>3. server[f] # None /\ Stamp(f, server[f]) >= k.n /\ k.n \in 1 .. draws
          BY <3>1, <3>2, <5>2 DEF JobOrderly
        <5>4. Stamp(f, server[f]) \in 1 .. draws
          BY <5>3 DEF Orderly, ServerOrderly
        <5>5. CASE f \notin DOMAIN out
          BY <2>3, <3>2, <5>3, <5>5
        <5>6. CASE f \in DOMAIN out
          <6>1. job[d].op # "create_vault"
            BY <1>1, <1>2, <3>2, <5>3 DEF Registered, Vacant
          <6>2. server[f] = read[f]
            BY <1>1, <5>6, <6>1
          <6>3. Stamp(f, server[f]) < n /\ server'[f] # None /\ Stamp(f, server'[f]) = n
            BY <2>2, <3>2, <5>3, <5>6, <6>2
          <6> QED
            BY <1>2, <2>1, <5>3, <5>4, <6>3
        <5> QED
          BY <5>5, <5>6
      <4> QED
        BY <4>1, <4>2
    <3> HIDE DEF k
    <3>3. past \subseteq past'
      BY <1>1
    <3> QED
      BY <1>1, <3>1, <3>2, <3>3 DEF JobOrderly
  <2> QED
    BY <1>3, <2>7, <2>8 DEF Orderly
<1> QED
  BY <1>4, <1>5

\* The record stays, uploads are kept or dropped, and the memory of a device
\* that keeps one stays with it.
LEMMA QuietOrderly ==
  ASSUME TypeOK, Orderly, UNCHANGED <<server, past, draws>>,
         \A e \in Device : job'[e] # None => job'[e] = job[e] /\ held'[e] = held[e],
         signed' # signed => server.wamk # None /\ signed' = signed \cup {server.wamk.pt}
  PROVE  Orderly'
<1>1. draws \in Nat
  BY MaxDrawsAssumption DEF TypeOK
<1>2. /\ past' \subseteq 1 .. draws'
      /\ ~Registered' => past' = {}
      /\ \A f \in Stamped : server'[f] # None => Stamp(f, server'[f]) \in past'
      /\ \A e \in Device :
           /\ job[e] # None
           /\ job'[e] = job[e]
           /\ held'[e] = held[e] \/ job[e].op # "rotate_identity"
           => JobOrderly(e, job[e])'
  BY <1>1, StaysOrderly
<1>3. signed' # {} => server'.wamk # None /\ signed' = {server'.wamk.pt}
  BY DEF Orderly, ServerOrderly
<1>4. ServerOrderly'
  BY <1>2, <1>3 DEF ServerOrderly
<1>5. \A e \in Device : job'[e] # None => JobOrderly(e, job[e])'
  BY <1>2
<1>6. DrawsApart'
  BY DEF Orderly, DrawsApart
<1> QED
  BY <1>4, <1>5, <1>6 DEF Orderly

\* Unlocking a vault on a device with nothing pending, and signing.
LEMMA UseOrderly ==
  ASSUME TypeOK, Orderly, NEW d \in Device, NEW auk,
         \/ Idle(d) /\ UnwrapIdentity(d, auk)
         \/ AmkSignFromAuk(auk)
  PROVE  Orderly'
<1>1. CASE Idle(d) /\ UnwrapIdentity(d, auk)
  <2>1. \A e \in Device : job'[e] # None => job'[e] = job[e] /\ held'[e] = held[e]
    BY <1>1 DEF UnwrapIdentity, Idle, TypeOK
  <2>2. UNCHANGED <<server, past, draws, signed>>
    BY <1>1 DEF UnwrapIdentity
  <2> QED
    BY <2>1, <2>2, QuietOrderly
<1>2. CASE AmkSignFromAuk(auk)
  BY <1>2, QuietOrderly DEF AmkSignFromAuk, TypeOK
<1> QED
  BY <1>1, <1>2

\* Refusals, crashes and linked devices.
LEMMA DropOrderly ==
  ASSUME TypeOK, Orderly, NEW d \in Device,
         Refuse(d) \/ Crash(d) \/ \E sk \in SavedKeys : LinkDevice(d, sk)
  PROVE  Orderly'
<1>1. UNCHANGED <<server, signed, draws, past>>
  BY DEF Refuse, Crash, LinkDevice
<1>2. \A e \in Device : job'[e] # None => job'[e] = job[e] /\ held'[e] = held[e]
  <2>1. CASE Refuse(d)
    BY <2>1 DEF Refuse, TypeOK
  <2>2. CASE Crash(d)
    BY <2>2 DEF Crash, TypeOK
  <2>3. CASE \E sk \in SavedKeys : LinkDevice(d, sk)
    BY <2>3 DEF LinkDevice
  <2> QED
    BY <2>1, <2>2, <2>3
<1> QED
  BY <1>1, <1>2, QuietOrderly

-----------------------------------------------------------------------------
(* A checking server: every step.                                          *)

\* Finding or making the AMK keeps everything orderly.
LEMMA AmkEnsureOrderly ==
  ASSUME TypeOK, Orderly, NEW d \in Device, NEW auk, AmkEnsureFromAuk(d, auk)
  PROVE  Orderly'
  BY AmkMintOrderly, AmkLoadOrderly DEF AmkEnsureFromAuk

\* With Sound, Orderly is inductive: one step for each disjunct of Next.
LEMMA NextOrderly == Checked /\ Sound /\ Orderly /\ [Next]_vars => Orderly'
<1> SUFFICES ASSUME Checked, Sound, Orderly, [Next]_vars PROVE Orderly'
  OBVIOUS
<1>1. TypeOK
  BY DEF Sound
<1>2. CASE UNCHANGED vars
  BY <1>1, <1>2, QuietOrderly DEF vars
<1>3. CASE Next
  <2> PICK d \in Device :
        \/ \E pp \in Passphrase, profile \in Profile : CreateVault(d, pp, profile)
        \/ PassphraseFlow(d)
        \/ RecoveryFlow(d)
        \/ PrfFlow(d)
        \/ Environment(d)
    BY <1>3 DEF Next
  <2>1. CASE \E pp \in Passphrase, profile \in Profile : CreateVault(d, pp, profile)
    BY <1>1, <2>1, CreateVaultOrderly
  <2>2. CASE PassphraseFlow(d)
    <3> PICK pp \in Passphrase, sk \in keys[d] :
          \/ UnlockVault(d, pp, sk)
          \/ \E newPp \in Passphrase : ChangePassphrase(d, pp, sk, newPp)
          \/ RotateSecretKey(d, pp, sk)
          \/ RotateRecoveryCode(d, pp, sk)
          \/ RotateIdentity(d, pp, sk)
          \/ EnrollPrf(d, pp, sk)
          \/ AmkEnsure(d, pp, sk)
          \/ AmkSign(pp, sk)
      BY <2>2 DEF PassphraseFlow
    <3>1. CASE UnlockVault(d, pp, sk) \/ AmkSign(pp, sk)
      BY <1>1, <3>1, UseOrderly DEF UnlockVault, AmkSign
    <3>2. CASE \/ \E newPp \in Passphrase : ChangePassphrase(d, pp, sk, newPp)
               \/ RotateSecretKey(d, pp, sk)
      BY <1>1, <3>2, PassphraseChangesOrderly
    <3>3. CASE RotateRecoveryCode(d, pp, sk)
      BY <1>1, <3>3, RotateRecoveryCodeOrderly
    <3>4. CASE RotateIdentity(d, pp, sk)
      BY <1>1, <3>4, RotateIdentityOrderly
    <3>5. CASE EnrollPrf(d, pp, sk)
      BY <1>1, <3>5, EnrollPrfOrderly
    <3>6. CASE AmkEnsure(d, pp, sk)
      BY <1>1, <3>6, AmkEnsureOrderly DEF AmkEnsure
    <3> QED
      BY <3>1, <3>2, <3>3, <3>4, <3>5, <3>6
  <2>3. CASE RecoveryFlow(d)
    <3> PICK code \in codes :
          \/ UnlockRecovery(d, code)
          \/ \E sk \in keys[d], newPp \in Passphrase :
               ResetPassphrase(d, code, sk, newPp)
      BY <2>3 DEF RecoveryFlow
    <3>1. CASE UnlockRecovery(d, code)
      BY <1>1, <3>1, UseOrderly DEF UnlockRecovery
    <3>2. CASE \E sk \in keys[d], newPp \in Passphrase :
                 ResetPassphrase(d, code, sk, newPp)
      BY <1>1, <3>2, PassphraseChangesOrderly
    <3> QED
      BY <3>1, <3>2
  <2>4. CASE PrfFlow(d)
    <3>1. CASE UnlockPrf(d) \/ AmkSignPrf(d)
      BY <1>1, <3>1, UseOrderly DEF UnlockPrf, AmkSignPrf
    <3>2. CASE AmkEnsurePrf(d)
      BY <1>1, <3>2, AmkEnsureOrderly DEF AmkEnsurePrf
    <3> QED
      BY <2>4, <3>1, <3>2 DEF PrfFlow
  <2>5. CASE Environment(d)
    BY <1>1, <2>5, StoreOrderly, DropOrderly DEF Environment
  <2> QED
    BY <2>1, <2>2, <2>3, <2>4, <2>5
<1> QED
  BY <1>2, <1>3

\* Nothing is stored or pending before an account is registered.
LEMMA InitOrderly == Init => Orderly
<1> SUFFICES ASSUME Init PROVE Orderly
  OBVIOUS
<1>1. \A f \in Stamped : server[f] = None
  BY DEF Init, Vacant, Field, Stamped
<1> QED
  BY <1>1 DEF Init, Orderly, ServerOrderly, DrawsApart

-----------------------------------------------------------------------------
(* The theorems about a checking server.                                   *)

\* If the server checks writes, the stored fields are each sealed later than
\* whatever they replaced, and an upload is accepted once: the invariant the
\* theorems below are read off from.
THEOREM Order == Checked /\ Spec => []Orderly
<1>1. SUFFICES ASSUME Checked PROVE Spec => []Orderly
  OBVIOUS
<1>2. Sound /\ Orderly /\ [Next]_vars => Orderly'
  BY <1>1, NextOrderly
<1> QED
  BY <1>2, InitOrderly, Soundness, PTL DEF Spec

\* Once a device has signed with the AMK, the registered AMK public key
\* verifies the signature for ever: two devices that both find no AMK in
\* amk_ensure do not both install one, if the server checks writes.
THEOREM SignaturesAlwaysVerify == Checked /\ Spec => []SignaturesVerify
<1>1. SUFFICES ASSUME Checked PROVE Spec => []SignaturesVerify
  OBVIOUS
<1>2. Sound /\ Orderly => SignaturesVerify
  <2> SUFFICES ASSUME Sound, Orderly, NEW signer \in signed
               PROVE  server.amkPub = PublicOf(signer)
    BY DEF SignaturesVerify, Verifies
  <2>1. server.wamk # None /\ signer = server.wamk.pt
    BY DEF Orderly, ServerOrderly
  <2>2. Registered
    BY <2>1 DEF Registered, Vacant, Field
  <2> QED
    BY <2>1, <2>2, ReadSound
<1>3. Spec => []Orderly
  BY <1>1, Order
<1> QED
  BY <1>2, <1>3, Soundness, PTL

\* A replaced identity is in the memory of the device that replaced it, with
\* the new one, as rotate_identity returns both.
THEOREM ReplacedIdentityIsAlwaysHeld == Checked /\ Spec => ReplacedIdentityIsHeld
<1>1. SUFFICES ASSUME Checked PROVE Spec => ReplacedIdentityIsHeld
  OBVIOUS
<1>2. Sound /\ Orderly /\ [Next]_vars =>
        [Registered /\ server.wid' # server.wid =>
           \E d \in Device : {server.wid.pt, server'.wid.pt} \subseteq held[d]]_vars
  <2> SUFFICES ASSUME Sound, Orderly, Next, Registered, server'.wid # server.wid
               PROVE  \E d \in Device : {server.wid.pt, server'.wid.pt} \subseteq held[d]
    BY DEF vars
  <2>1. PICK d \in Device : Store(d)
    BY OnlyStoreWrites
  <2>2. /\ JobOrderly(d, job[d])
        /\ server'.wid = IF "wid" \in DOMAIN job[d].out THEN job[d].out.wid ELSE server.wid
        /\ job[d].op # "create_vault"
        /\ \A f \in DOMAIN job[d].out : server[f] = job[d].read[f]
    BY <1>1, <2>1, StoreParts DEF Field
  <2>3. /\ job[d].op = "rotate_identity" /\ job[d].out.wid.pt = job[d].n
        /\ "wid" \in DOMAIN job[d].out
    BY <2>2 DEF JobOrderly, Result
  <2>4. server'.wid.pt = job[d].n /\ server.wid.pt = job[d].read.wid.pt
    BY <2>2, <2>3
  <2> QED
    BY <2>2, <2>3, <2>4 DEF JobOrderly
<1>3. Spec => []Orderly
  BY <1>1, Order
<1> QED
  BY <1>2, <1>3, Soundness, PTL DEF Spec, ReplacedIdentityIsHeld

\* A recovery code that was stored once and no longer opens the wrap never
\* opens it again: "the old code stops working once the server replaces the
\* stored recovery wrap" (rotate_recovery_code), for good.
THEOREM RetiredCodeIsAlwaysDead == Checked /\ Spec => RetiredCodeStaysDead
<1>1. SUFFICES ASSUME Checked PROVE Spec => RetiredCodeStaysDead
  OBVIOUS
<1>2. Sound /\ Orderly /\ [Next]_vars =>
        [\A code \in codes \cap past :
           ~CanUnlockRecovery(code) => ~CanUnlockRecovery(code)']_vars
  <2> SUFFICES ASSUME Sound, Orderly, Next, NEW code \in codes \cap past,
                      ~CanUnlockRecovery(code), CanUnlockRecovery(code)'
               PROVE  FALSE
    BY DEF vars
  <2>1. PICK d \in Device : Store(d)
    BY OnlyStoreWrites DEF CanUnlockRecovery, Registered
  <2>2. /\ Result(d, job[d])
        /\ server'.wrec = IF "wrec" \in DOMAIN job[d].out THEN job[d].out.wrec ELSE server.wrec
        /\ job[d].op = "create_vault" => ~Registered
        /\ job[d].op # "create_vault" => Registered
    BY <1>1, <2>1, StoreParts DEF JobOrderly, Field
  <2>3. Registered
    BY DEF Orderly, ServerOrderly
  <2>4. server'.wrec # server.wrec
    BY <2>3 DEF CanUnlockRecovery
  <2>5. job[d].op = "rotate_recovery_code" /\ Secret(server'.wrec) = job[d].n
    BY <2>2, <2>3, <2>4 DEF Result
  <2>6. job[d].n \notin past
    BY <1>1, <2>1, <2>5, AcceptedOnce
  <2>7. Secret(server'.wrec) = code
    <3>1. server'.wrec.blob.key = RecoveryKek(code)
      BY DEF CanUnlockRecovery, UnwrapsWithKek, Opens
    <3> QED
      BY <3>1 DEF Secret, RecoveryKek
  <2> QED
    BY <2>5, <2>6, <2>7
<1>3. Spec => []Orderly
  BY <1>1, Order
<1> QED
  BY <1>2, <1>3, Soundness, PTL DEF Spec, RetiredCodeStaysDead

\* A Secret Key that was rotated away opens the vault again only by an upload
\* of reset_passphrase: change_passphrase and rotate_secret_key read the wrap
\* they replace, and the server checks that it is still the stored one.
THEOREM RetiredKeyOnlyResets == Checked /\ Spec => RetiredKeyReturnsOnlyByReset
<1>1. SUFFICES ASSUME Checked PROVE Spec => RetiredKeyReturnsOnlyByReset
  OBVIOUS
<1>2. Sound /\ Orderly /\ [Next]_vars =>
        [\A sk \in SavedKeys \cap past :
           ~OpensWithKey(sk) /\ Registered /\ OpensWithKey(sk)' =>
             \E d \in Device :
               /\ ~Idle(d)
               /\ job[d].op = "reset_passphrase"
               /\ server'.wpp = job[d].out.wpp]_vars
  <2> SUFFICES ASSUME Sound, Orderly, Next, NEW sk \in SavedKeys \cap past,
                      ~OpensWithKey(sk), Registered, OpensWithKey(sk)'
               PROVE  \E d \in Device :
                        /\ ~Idle(d)
                        /\ job[d].op = "reset_passphrase"
                        /\ server'.wpp = job[d].out.wpp
    BY DEF vars
  <2>1. PICK pp \in Passphrase : UnwrapsWithPassphrase(server'.wpp, pp, sk)
    BY DEF OpensWithKey, CanUnlockAuk
  <2>2. server'.wpp # server.wpp
    BY <2>1 DEF OpensWithKey, CanUnlockAuk
  <2>3. PICK d \in Device : Store(d)
    BY <2>2, OnlyStoreWrites
  <2>4. /\ job[d] # None /\ Result(d, job[d])
        /\ server'.wpp = IF "wpp" \in DOMAIN job[d].out THEN job[d].out.wpp ELSE server.wpp
        /\ job[d].op # "create_vault"
        /\ \A f \in DOMAIN job[d].out : server[f] = job[d].read[f]
    BY <1>1, <2>3, StoreParts DEF JobOrderly, Field
  <2>5. /\ "wpp" \in DOMAIN job[d].out
        /\ server'.wpp = job[d].out.wpp /\ server.wpp = job[d].read.wpp
    BY <2>2, <2>4
  <2>6. Secret(server'.wpp) = sk
    BY <2>1, WrapParts
  <2>7. job[d].op # "change_passphrase"
    <3> SUFFICES ASSUME job[d].op = "change_passphrase" PROVE FALSE
      OBVIOUS
    <3>1. Secret(server.wpp) = sk
      BY <2>4, <2>5, <2>6 DEF Result
    <3>2. server.wpp # None
      BY ReadSound, NoneIsNoBlob
    <3>3. Usable("wpp", server.wpp, SavedKeys, codes)
      BY <3>2 DEF Sound, ServerSound, Field
    <3>4. PICK p \in Passphrase, s \in SavedKeys : UnwrapsWithPassphrase(server.wpp, p, s)
      BY <3>3 DEF Usable
    <3>5. s = sk
      BY <3>1, <3>4, WrapParts
    <3> QED
      BY <3>4, <3>5 DEF OpensWithKey, CanUnlockAuk
  <2>8. job[d].op # "rotate_secret_key"
    <3> SUFFICES ASSUME job[d].op = "rotate_secret_key" PROVE FALSE
      OBVIOUS
    <3>1. sk = job[d].n
      BY <2>4, <2>5, <2>6 DEF Result
    <3>2. job[d].n \notin past
      BY <1>1, <2>3, AcceptedOnce
    <3> QED
      BY <3>1, <3>2
  <2>9. job[d].op = "reset_passphrase"
    BY <2>4, <2>5, <2>7, <2>8 DEF Result
  <2> QED
    BY <2>4, <2>5, <2>9 DEF Idle
<1>3. Spec => []Orderly
  BY <1>1, Order
<1> QED
  BY <1>2, <1>3, Soundness, PTL DEF Spec, RetiredKeyReturnsOnlyByReset

-----------------------------------------------------------------------------
(* A checking server implements Account.                                   *)

\* The factors of a usable wrap are ones the user has.
LEMMA UsableParts ==
  ASSUME NEW x, NEW saved, NEW written
  PROVE  /\ Usable("wpp", x, saved, written) =>
              Factor(x) \in Passphrase /\ Secret(x) \in saved
         /\ Usable("wrec", x, saved, written) => Secret(x) \in written
<1>1. ASSUME Usable("wpp", x, saved, written)
      PROVE  Factor(x) \in Passphrase /\ Secret(x) \in saved
  BY <1>1, WrapParts DEF Usable
<1>2. ASSUME Usable("wrec", x, saved, written)
      PROVE  Secret(x) \in written
  <2>1. PICK code \in written : UnwrapsWithKek(x, RecoveryKek(code))
    BY <1>2 DEF Usable
  <2>2. x.blob.key = RecoveryKek(code)
    BY <2>1 DEF UnwrapsWithKek, Opens
  <2>3. Secret(x) = code
    BY <2>2 DEF Secret, RecoveryKek
  <2> QED
    BY <2>1, <2>3
<1> QED
  BY <1>1, <1>2

\* A registered vault stands for an account.
LEMMA ViewIsAccount ==
  ASSUME Sound, Registered
  PROVE  AccountView = Credentials(server) /\ AccountView # None
<1>1. AccountView = Credentials(server)
  BY DEF AccountView
<1>2. /\ server.wpp \in WrappedAuk /\ server.wrec \in WrappedAuk
      /\ server.wid \in Blob(DrawNumber)
      /\ server.wprf # None => server.wprf \in WrappedAuk
      /\ server.wamk # None => server.wamk \in Blob(DrawNumber)
  BY ReadSound
<1>3. server.wpp # None /\ server.wrec # None
  BY <1>2, NoneIsNoBlob
<1>4. Usable("wpp", server.wpp, SavedKeys, codes) /\ Usable("wrec", server.wrec, SavedKeys, codes)
  BY <1>3 DEF Sound, ServerSound, Field
<1>5. SavedKeys \subseteq DrawNumber /\ codes \subseteq DrawNumber
  BY DEF Sound, TypeOK, SavedKeys
<1>6. /\ Factor(server.wpp) \in Passphrase
      /\ Secret(server.wpp) \in DrawNumber
      /\ Secret(server.wrec) \in DrawNumber
  BY <1>4, <1>5, UsableParts
<1>7. server.wpp.params \in Profile \cup {"zero"}
  BY <1>2 DEF WrappedAuk
<1>8. \A w \in WrappedAuk : Factor(w) \in Passphrase \cup Device \cup {None}
  BY DEF WrappedAuk, Blob, Kek, Factor
<1>9. server.wid.pt \in DrawNumber /\ (server.wamk # None => server.wamk.pt \in DrawNumber)
  BY <1>2 DEF Blob
<1>10. Credentials(server) \in AccountRecord
  BY <1>2, <1>6, <1>7, <1>8, <1>9 DEF Credentials, AccountRecord
<1> QED
  BY <1>1, <1>10, NoneIsNoAccount

\* An account with these credentials.
Acct(pp, sk, profile, code, passkey, identity, amk) ==
  [pp |-> pp, sk |-> sk, profile |-> profile, code |-> code,
   passkey |-> passkey, identity |-> identity, amk |-> amk]

\* The account is a function of five stored fields.
CredentialsOf(wpp, wrec, wprf, wid, wamk) ==
  Acct(Factor(wpp), Secret(wpp), wpp.params, Secret(wrec),
       IF wprf = None THEN None ELSE Factor(wprf), wid.pt,
       IF wamk = None THEN None ELSE wamk.pt)

\* An upload of a draw that is accepted is one operation of Account.
LEMMA StoreImplements ==
  ASSUME Sound, Orderly, Checked, NEW d \in Device, Store(d), job[d].op # "amk_load"
  PROVE  Abstract!Next
<1> DEFINE j == job[d]
           n == j.n
           out == j.out
           a == AccountView
<1>1. /\ Result(d, j) /\ JobSound(j) /\ OutOK(out)
      /\ \A f \in Field : server'[f] = IF f \in DOMAIN out THEN out[f] ELSE server[f]
      /\ j.op = "create_vault" => ~Registered
      /\ j.op # "create_vault" =>
           Registered /\ \A f \in DOMAIN out : server[f] = j.read[f]
      /\ past' = past \cup {n}
  BY StoreParts DEF JobOrderly
<1>2. n \in DrawNumber /\ n \notin past
  BY StoreParts, AcceptedOnce DEF Sound, TypeOK, JobOK
<1>3. \A x : AccountView' = x => Abstract!Become(x, n)
  BY <1>1, <1>2 DEF Abstract!Become
<1>4. AccountView' = CredentialsOf(server'.wpp, server'.wrec, server'.wprf, server'.wid, server'.wamk)
  <2>1. PICK f \in DOMAIN out : f \in Stamped
    BY <1>1, ResultSealed
  <2>2. server'[f] # None /\ f \in Field
    BY <1>1, <2>1, SealedIsSome DEF OutOK
  <2>3. Registered'
    BY <2>2 DEF Registered, Vacant
  <2> QED
    BY <2>3 DEF AccountView, Credentials, CredentialsOf, Acct
<1>5. /\ \A f \in DOMAIN out : Usable(f, out[f], SavedKeys, codes)
      /\ SavedKeys \subseteq DrawNumber
  <2>1. \E auk : OutSound(out, auk, SavedKeys, codes)
    BY <1>1 DEF JobSound
  <2>2. SavedKeys \subseteq DrawNumber
    BY DEF Sound, TypeOK, SavedKeys
  <2> QED
    BY <2>1, <2>2 DEF OutSound
<1>6. "wpp" \in DOMAIN out => Factor(out.wpp) \in Passphrase /\ Secret(out.wpp) \in DrawNumber
  BY <1>5, UsableParts
<1>7. {"wpp", "wrec", "wprf", "wid", "wamk"} \subseteq Field
  BY DEF Field
<1>8. j.op # "create_vault" =>
        /\ a = CredentialsOf(server.wpp, server.wrec, server.wprf, server.wid, server.wamk)
        /\ a # None
  BY <1>1, ViewIsAccount DEF Credentials, CredentialsOf, Acct
<1> HIDE DEF j, n, out, a
<1>9. CASE j.op = "create_vault"
  <2>1. /\ DOMAIN out = {"wpp", "wrec", "wid", "pub"}
        /\ out.wpp.params \in {"native", "constrained"}
        /\ Secret(out.wpp) = n /\ Secret(out.wrec) = n /\ out.wid.pt = n
    BY <1>1, <1>9 DEF Result, Core, Profile, n, out
  <2>2. /\ server'.wpp = out.wpp /\ server'.wrec = out.wrec /\ server'.wid = out.wid
        /\ server'.wprf = None /\ server'.wamk = None
    BY <1>1, <1>7, <1>9, <2>1 DEF Registered, Vacant
  <2>3. AccountView = None
    BY <1>1, <1>9 DEF AccountView
  <2>4. AccountView' = [pp |-> Factor(out.wpp), sk |-> n, profile |-> out.wpp.params, code |-> n,
                        passkey |-> None, identity |-> n, amk |-> None]
    BY <1>4, <2>1, <2>2 DEF CredentialsOf, Acct
  <2>5. Abstract!Open(Factor(out.wpp), out.wpp.params, n)
    BY <1>3, <2>3, <2>4 DEF Abstract!Open
  <2> QED
    BY <1>2, <1>6, <2>1, <2>5 DEF Abstract!Next
<1>10. CASE j.op \in {"change_passphrase", "reset_passphrase", "rotate_secret_key"}
  <2>1. /\ DOMAIN out = {"wpp"}
        /\ out.wpp.params = "constrained"
        /\ j.op = "change_passphrase" => Secret(out.wpp) = Secret(server.wpp)
        /\ j.op = "rotate_secret_key" => Factor(out.wpp) = Factor(server.wpp) /\ Secret(out.wpp) = n
    BY <1>1, <1>10 DEF Result, n, out
  <2>2. /\ server'.wpp = out.wpp /\ server'.wrec = server.wrec /\ server'.wid = server.wid
        /\ server'.wprf = server.wprf /\ server'.wamk = server.wamk
    BY <1>1, <1>7, <2>1
  <2> DEFINE K == IF server.wprf = None THEN None ELSE Factor(server.wprf)
             M == IF server.wamk = None THEN None ELSE server.wamk.pt
             pp == Factor(server.wpp)
             sk == Secret(server.wpp)
             profile == server.wpp.params
             newPp == Factor(out.wpp)
             newSk == Secret(out.wpp)
             code == Secret(server.wrec)
             identity == server.wid.pt
  <2>3. a = Acct(pp, sk, profile, code, K, identity, M) /\ AccountView # None
    BY <1>8, <1>10 DEF CredentialsOf, a
  <2>4. AccountView' = Acct(newPp, newSk, "constrained", code, K, identity, M)
    BY <1>4, <2>1, <2>2 DEF CredentialsOf
  <2>5. CASE j.op = "change_passphrase"
    <3>1. AccountView' = [a EXCEPT !.pp = Factor(out.wpp), !.profile = "constrained"]
      <4>1. newSk = sk
        BY <2>1, <2>5
      <4> HIDE DEF K, M, pp, sk, profile, newPp, newSk, code, identity
      <4>2. [a EXCEPT !.pp = newPp, !.profile = "constrained"]
              = Acct(newPp, sk, "constrained", code, K, identity, M)
        <5> DEFINE b == [a EXCEPT !.pp = newPp]
        <5>1. [a EXCEPT !.pp = newPp, !.profile = "constrained"]
                = [b EXCEPT !.profile = "constrained"]
          OBVIOUS
        <5>2. b = Acct(newPp, sk, profile, code, K, identity, M)
          BY <2>3 DEF Acct
        <5> HIDE DEF b
        <5> QED
          BY <5>1, <5>2 DEF Acct
      <4> QED
        BY <2>4, <4>1, <4>2 DEF newPp
    <3>2. Abstract!ChangePassphrase(Factor(out.wpp), n)
      BY <1>3, <2>3, <3>1 DEF Abstract!ChangePassphrase, a
    <3> QED
      BY <1>2, <1>6, <2>1, <3>2 DEF Abstract!Next
  <2>6. CASE j.op = "reset_passphrase"
    <3>1. AccountView' = [a EXCEPT !.pp = Factor(out.wpp), !.sk = Secret(out.wpp),
                                   !.profile = "constrained"]
      <4> HIDE DEF K, M, pp, sk, profile, newPp, newSk, code, identity
      <4>1. [a EXCEPT !.pp = newPp, !.sk = newSk, !.profile = "constrained"]
              = Acct(newPp, newSk, "constrained", code, K, identity, M)
        <5> DEFINE b == [a EXCEPT !.pp = newPp]
                   c == [b EXCEPT !.sk = newSk]
        <5>1. [a EXCEPT !.pp = newPp, !.sk = newSk, !.profile = "constrained"]
                = [c EXCEPT !.profile = "constrained"]
          OBVIOUS
        <5>2. b = Acct(newPp, sk, profile, code, K, identity, M)
          BY <2>3 DEF Acct
        <5> HIDE DEF b
        <5>3. c = Acct(newPp, newSk, profile, code, K, identity, M)
          BY <5>2 DEF Acct
        <5> HIDE DEF c
        <5> QED
          BY <5>1, <5>3 DEF Acct
      <4> QED
        BY <2>4, <4>1 DEF newPp, newSk
    <3>2. Abstract!ResetPassphrase(Factor(out.wpp), Secret(out.wpp), n)
      BY <1>3, <2>3, <3>1 DEF Abstract!ResetPassphrase, a
    <3> QED
      BY <1>2, <1>6, <2>1, <3>2 DEF Abstract!Next
  <2>7. CASE j.op = "rotate_secret_key"
    <3>1. AccountView' = [a EXCEPT !.sk = n, !.profile = "constrained"]
      <4>1. newPp = pp /\ newSk = n
        BY <2>1, <2>7
      <4> HIDE DEF K, M, pp, sk, profile, newPp, newSk, code, identity
      <4>2. [a EXCEPT !.sk = n, !.profile = "constrained"]
              = Acct(pp, n, "constrained", code, K, identity, M)
        <5> DEFINE b == [a EXCEPT !.sk = n]
        <5>1. [a EXCEPT !.sk = n, !.profile = "constrained"]
                = [b EXCEPT !.profile = "constrained"]
          OBVIOUS
        <5>2. b = Acct(pp, n, profile, code, K, identity, M)
          BY <2>3 DEF Acct
        <5> HIDE DEF b
        <5> QED
          BY <5>1, <5>2 DEF Acct
      <4> QED
        BY <2>4, <4>1, <4>2
    <3>2. Abstract!RotateSecretKey(n)
      BY <1>3, <2>3, <3>1 DEF Abstract!RotateSecretKey, a
    <3> QED
      BY <1>2, <3>2 DEF Abstract!Next
  <2> QED
    BY <1>10, <2>5, <2>6, <2>7
<1>11. CASE j.op = "rotate_recovery_code"
  <2>1. DOMAIN out = {"wrec"} /\ Secret(out.wrec) = n
    BY <1>1, <1>11 DEF Result, n, out
  <2>2. /\ server'.wpp = server.wpp /\ server'.wrec = out.wrec /\ server'.wid = server.wid
        /\ server'.wprf = server.wprf /\ server'.wamk = server.wamk
    BY <1>1, <1>7, <2>1
  <2>3. AccountView' = [a EXCEPT !.code = n] /\ AccountView # None
    BY <1>4, <1>8, <1>11, <2>1, <2>2 DEF CredentialsOf, Acct, a
  <2>4. Abstract!RotateRecoveryCode(n)
    BY <1>3, <2>3 DEF Abstract!RotateRecoveryCode, a
  <2> QED
    BY <1>2, <2>4 DEF Abstract!Next
<1>12. CASE j.op = "rotate_identity"
  <2>1. DOMAIN out = {"wid", "pub"} /\ out.wid.pt = n
    BY <1>1, <1>12 DEF Result, n, out
  <2>2. /\ server'.wpp = server.wpp /\ server'.wrec = server.wrec /\ server'.wid = out.wid
        /\ server'.wprf = server.wprf /\ server'.wamk = server.wamk
    BY <1>1, <1>7, <2>1
  <2>3. AccountView' = [a EXCEPT !.identity = n] /\ AccountView # None
    BY <1>4, <1>8, <1>12, <2>1, <2>2 DEF CredentialsOf, Acct, a
  <2>4. Abstract!RotateIdentity(n)
    BY <1>3, <2>3 DEF Abstract!RotateIdentity, a
  <2> QED
    BY <1>2, <2>4 DEF Abstract!Next
<1>13. CASE j.op = "enroll_prf"
  <2>1. DOMAIN out = {"wprf"} /\ Factor(out.wprf) = d
    BY <1>1, <1>13 DEF Result, out
  <2>2. out.wprf # None
    BY <1>1, <2>1, SealedIsSome DEF Stamped, out
  <2>3. /\ server'.wpp = server.wpp /\ server'.wrec = server.wrec /\ server'.wid = server.wid
        /\ server'.wprf = out.wprf /\ server'.wamk = server.wamk
    BY <1>1, <1>7, <2>1
  <2>4. AccountView' = [a EXCEPT !.passkey = d] /\ AccountView # None
    BY <1>4, <1>8, <1>13, <2>1, <2>2, <2>3 DEF CredentialsOf, Acct, a
  <2>5. Abstract!EnrollPrf(d, n)
    BY <1>3, <2>4 DEF Abstract!EnrollPrf, a
  <2> QED
    BY <1>2, <2>5 DEF Abstract!Next
<1>14. CASE j.op = "amk_mint"
  <2>1. DOMAIN out = {"wamk", "amkPub"} /\ out.wamk.pt = n /\ server.wamk = None
    BY <1>1, <1>14 DEF Result, n, out
  <2>2. out.wamk # None
    BY <1>1, <2>1, SealedIsSome DEF Stamped, out
  <2>3. /\ server'.wpp = server.wpp /\ server'.wrec = server.wrec /\ server'.wid = server.wid
        /\ server'.wprf = server.wprf /\ server'.wamk = out.wamk
    BY <1>1, <1>7, <2>1
  <2>4. AccountView' = [a EXCEPT !.amk = n] /\ AccountView # None /\ AccountView.amk = None
    BY <1>4, <1>8, <1>14, <2>1, <2>2, <2>3 DEF CredentialsOf, Acct, a
  <2>5. Abstract!MintAmk(n)
    BY <1>3, <2>4 DEF Abstract!MintAmk, a
  <2> QED
    BY <1>2, <2>5 DEF Abstract!Next
<1> QED
  BY <1>1, <1>9, <1>10, <1>11, <1>12, <1>13, <1>14 DEF Result, j

\* Every accepted upload is one whole operation of Account on the credentials
\* of that moment, and nothing else changes them: with a server that checks
\* writes, the flows of src/flows.rs are atomic although each reads and stores
\* in two steps.
THEOREM FlowsAreAtomic == Checked /\ Spec => ImplementsAccount
<1>1. SUFFICES ASSUME Checked PROVE Spec => ImplementsAccount
  OBVIOUS
<1>2. Init => Abstract!Init
  BY DEF Init, Abstract!Init, AccountView, Registered
<1>3. Sound /\ Orderly /\ [Next]_vars => [Abstract!Next]_(Abstract!avars)
  <2> SUFFICES ASSUME Sound, Orderly, [Next]_vars
               PROVE  [Abstract!Next]_(Abstract!avars)
    OBVIOUS
  <2>1. CASE UNCHANGED <<server, past>>
    BY <2>1 DEF Abstract!avars, AccountView, Registered
  <2>2. CASE \E d \in Device : Store(d)
    <3> PICK d \in Device : Store(d)
      BY <2>2
    <3>1. CASE job[d].op = "amk_load"
      BY <1>1, <2>1, <3>1, LoadStoresNothing
    <3>2. CASE job[d].op # "amk_load"
      BY <1>1, <3>2, StoreImplements
    <3> QED
      BY <3>1, <3>2
  <2> QED
    BY <2>1, <2>2, OnlyStoreWrites DEF vars
<1>4. Spec => []Orderly
  BY <1>1, Order
<1> QED
  BY <1>2, <1>3, <1>4, Soundness, PTL DEF Spec, ImplementsAccount, Abstract!Spec
=============================================================================
