------------------------------ MODULE Backups -------------------------------
(***************************************************************************)
(* Encrypted vault backups: src/backup.rs and its two flows.               *)
(*                                                                         *)
(* A backup is one byte string, MAGIC || salt || m || t || p || sealed     *)
(* data, kept anywhere and for long.  The header is not authenticated: the *)
(* salt and the KDF parameters decide the key, the magic is compared.      *)
(* Lengths are scaled: a u32 parameter is one byte here, and the triples   *)
(* of the two profiles are told apart by it.                               *)
(***************************************************************************)
EXTENDS Blobs

CONSTANTS
  Passphrase,
  SaltLen,
  MaxBackups,   \* bound: backups exported
  MaxDecay     \* bound: faults while stored

ASSUME BackupsAssumption ==
  /\ Noise \subseteq Byte /\ Byte \subseteq 0 .. 255
  /\ {NonceLen, TagLen, DataLen, SaltLen} \subseteq Nat \ {0}
  /\ None \notin Passphrase
  /\ {MaxBackups, MaxDecay} \subseteq Nat

VARIABLES
  exported,    \* the backups made
  file,        \* the file to import, as it is now, or None
  decay,       \* how many faults there were
  attempt      \* the passphrase tried and what import_backup returned, or None

backupVars == <<exported, file, decay, attempt>>

-----------------------------------------------------------------------------
BackupMagic == <<80, 1>>
MagicLen == Len(BackupMagic)
HeaderLen == MagicLen + SaltLen + 3

\* (m_kib, t, p)
Params(profile) == IF profile = "native" THEN <<2, 2, 1>> ELSE <<1, 1, 1>>
KnownParams == {Params("native"), Params("constrained")}

\* HKDF of Argon2id of the passphrase.
DeriveKek(passphrase, salt, params) ==
  [passphrase |-> passphrase, salt |-> salt, params |-> params]

SealedBackups == {exported[n].sealed : n \in DOMAIN exported}

InitBackups ==
  /\ exported = <<>>
  /\ file = None
  /\ decay = 0
  /\ attempt = None

\* Mutant: leaves out one parameter.
HeaderShort(salt) == BackupMagic \o salt \o SubSeq(Params("constrained"), 1, 2)

Header(salt) == BackupMagic \o salt \o Params("constrained")

\* Always under the constrained profile.
ExportBackup(passphrase) ==
  /\ file = None
  /\ Len(exported) < MaxBackups
  /\ \E salt \in RandomBytes(SaltLen), nonce \in RandomBytes(NonceLen) :
       LET kek  == DeriveKek(passphrase, salt, Params("constrained"))
           blob == SealedBlob(nonce)
       IN  exported' = Append(exported,
             [bytes  |-> Header(salt) \o blob,
              sealed |-> [key |-> kek, blob |-> blob, data |-> Len(exported) + 1]])
  /\ UNCHANGED <<file, decay, attempt>>

\* Mutant: does not look at the length.
RecognisesAnyLength(data) == Slice(data, 0, MagicLen) = BackupMagic

Recognises(data) ==
  /\ Len(data) >= HeaderLen + NonceLen + TagLen
  /\ Slice(data, 0, MagicLen) = BackupMagic

Salt(data) == Slice(data, MagicLen, MagicLen + SaltLen)

\* Mutant: begins in the salt.
StoredParamsEarly(data) == Slice(data, MagicLen + SaltLen - 1, HeaderLen - 1)

StoredParams(data) == Slice(data, MagicLen + SaltLen, HeaderLen)

\* Mutant: takes what it does not know for the constrained profile.
ProfileParamsLenient(data) ==
  IF StoredParams(data) = Params("native") THEN Params("native")
                                           ELSE Params("constrained")

\* The parameters to derive with, None if they are no profile's.
ProfileParams(data) ==
  IF StoredParams(data) \in KnownParams THEN StoredParams(data) ELSE <<>>

ImportBackup(data, passphrase) ==
  IF ~Recognises(data) THEN Err("decode")
  ELSE IF Panic \in {Salt(data), StoredParams(data)} THEN Err("panic")
  ELSE IF ProfileParams(data) = <<>> THEN Err("decode")
  ELSE OpenBlob(DeriveKek(passphrase, Salt(data), ProfileParams(data)),
                Slice(data, HeaderLen, Len(data)), SealedBackups)

\* The flow: every error becomes "wrong passphrase or corrupted backup".
Import(passphrase) ==
  /\ file # None /\ attempt = None
  /\ LET r == ImportBackup(file, passphrase)
     IN  attempt' = [passphrase |-> passphrase,
                     result |-> IF r.tag \in {"ok", "panic"} THEN r ELSE Err("flow")]
  /\ UNCHANGED <<exported, file, decay>>

-----------------------------------------------------------------------------
(* Where the file is kept (external).                                      *)

Keep(n) ==
  /\ file = None
  /\ file' = exported[n].bytes
  /\ UNCHANGED <<exported, decay, attempt>>

Decay ==
  /\ file # None /\ attempt = None
  /\ decay < MaxDecay
  /\ decay' = decay + 1
  /\ file' \in Damaged(file, {exported[n].bytes : n \in DOMAIN exported})
  /\ UNCHANGED <<exported, attempt>>

NextBackups ==
  \/ \E passphrase \in Passphrase : ExportBackup(passphrase) \/ Import(passphrase)
  \/ \E n \in DOMAIN exported : Keep(n)
  \/ Decay

BackupsSpec == InitBackups /\ [][NextBackups]_backupVars

-----------------------------------------------------------------------------
(* Properties.                                                             *)

\* Type invariant.
BackupsTypeOK ==
  /\ Len(exported) <= MaxBackups
  /\ \A n \in DOMAIN exported :
       /\ exported[n].bytes \in Seq(0 .. 255)
       /\ Len(exported[n].bytes) = HeaderLen + NonceLen + DataLen + TagLen
  /\ file # None => file \in Seq(0 .. 255)
  /\ decay \in 0 .. MaxDecay
  /\ attempt # None => attempt.result.tag \in {"ok", "flow", "panic"}

\* What a restore returns is a backup as it was exported, byte for byte, to
\* who knows its passphrase: the header is not authenticated, and yet no
\* change of it, and no mixture of two backups, opens.
RestoresOnlyWhole ==
  attempt # None /\ attempt.result.tag = "ok" =>
    \E n \in DOMAIN exported :
      /\ file = exported[n].bytes
      /\ attempt.passphrase = exported[n].sealed.key.passphrase
      /\ attempt.result.value = exported[n].sealed.data

\* A backup that is whole is restored with its passphrase alone, whatever
\* became of the vault it was taken from.
WholeRestores ==
  attempt # None =>
    \A n \in DOMAIN exported :
      file = exported[n].bytes /\ attempt.passphrase = exported[n].sealed.key.passphrase =>
        attempt.result.tag = "ok"

\* However it was damaged, a file is refused, never read out of bounds.
ImportNeverPanics == attempt # None => attempt.result.tag # "panic"
=============================================================================
