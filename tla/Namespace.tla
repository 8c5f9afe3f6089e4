------------------------------ MODULE Namespace ------------------------------
(***************************************************************************)
(* A protected folder: src/nscrypto.rs, and its wrappers in src/flows.rs,  *)
(* called by several devices of one user.                                  *)
(*                                                                         *)
(* The folder has one namespace key (NK), wrapped under the passphrase and *)
(* under a recovery code, "which is just another passphrase".  A wrap does *)
(* not hold the salt it was made with: the caller keeps it beside them.  A *)
(* stored value is text under any number of layers, each sealed under an   *)
(* NK, with or without the prefix "pns1.".                                 *)
(*                                                                         *)
(* The core keeps no state.  Of the caller and the store (external) it is  *)
(* assumed that one salt serves both wraps, as in the test of a recovery   *)
(* code (nscrypto.rs:262); that a recovery code is saved before its wrap   *)
(* is uploaded; that a folder is set up once; and that a value is replaced *)
(* only if it is still what was read.                                      *)
(***************************************************************************)
EXTENDS Naturals, Sequences

CONSTANTS
  None,
  Device,
  Passphrase,
  Name,         \* the values of the folder
  Text,         \* what may be written in them
  Prefixed,     \* those texts that begin with "pns1." themselves
  MaxDraws,     \* bound: draws of randomness
  MaxLosses,    \* bound: prefixes lost
  MaxCrashes    \* bound: crashes

Length == {16, 32}

Wrap ==
  [key : [credential : Passphrase \union Nat, salt : Nat],
   nk  : [draw : Nat, length : Length]]

Folder == [salt : Nat, wrap : Wrap, recWrap : Wrap]

ASSUME NamespaceAssumption ==
  /\ {MaxDraws, MaxLosses, MaxCrashes} \subseteq Nat
  /\ None \notin Folder
  /\ Prefixed \subseteq Text

VARIABLES
  folder,    \* the stored salt and the two wraps, or None
  values,    \* the stored values
  nk,        \* per device: the NK in its memory, or None
  job,       \* per device: what it has computed and not stored, or None
  codes,     \* the recovery codes the user has saved
  draws,     \* draws of randomness so far
  losses, crashes,
  written    \* history: per name the text whose writing was accepted last

vars == <<folder, values, nk, job, codes, draws, losses, crashes, written>>

-----------------------------------------------------------------------------
(* nscrypto.rs.  A random string is named by its draw.  An NK comes to the *)
(* core with some length.                                                  *)

Nk(draw, length) == [draw |-> draw, length |-> length]

\* derive_key: PBKDF2 of the credential and the salt, both.
DeriveKey(credential, salt) == [credential |-> credential, salt |-> salt]

\* Any NK is wrapped, of whatever length.
WrapNk(key, credential, salt) == [key |-> DeriveKey(credential, salt), nk |-> key]

Unwraps(wrap, credential, salt) == wrap.key = DeriveKey(credential, salt)

\* Mutant: a byte goes missing.
UnwrapNkTrimmed(wrap) == [wrap.nk EXCEPT !.length = @ - 1]

UnwrapNk(wrap) == wrap.nk

\* nk_key: nothing is protected or read with an NK of another length.
NkKey(key) == key.length = 32

Plain(text) == [layers |-> <<>>, text |-> text]

\* protect_value.  What it is given is text to it, a protected value too.
ProtectValue(key, value) ==
  [value EXCEPT !.layers = <<[nk |-> key, marked |-> TRUE]>> \o @]

\* Mutant: insists on the prefix.
UnprotectsPrefixed(key, value) ==
  NkKey(key) /\ value.layers # <<>> /\ Head(value.layers) = [nk |-> key, marked |-> TRUE]

\* unprotect_value succeeds: with its prefix or without, the outermost layer
\* was sealed under this key.
Unprotects(key, value) ==
  NkKey(key) /\ value.layers # <<>> /\ Head(value.layers).nk = key

UnprotectValue(value) == [value EXCEPT !.layers = Tail(@)]

\* Sealed, with the prefix on.
Marked(value) == value.layers # <<>> /\ Head(value.layers).marked

\* is_protected_blob looks for the prefix and at nothing else.
IsProtectedBlob(value) == Marked(value) \/ (value.layers = <<>> /\ value.text \in Prefixed)

-----------------------------------------------------------------------------
(* The devices.                                                            *)

Idle(d) == job[d] = None

Fresh == draws + 1

Draw == draws < MaxDraws /\ draws' = Fresh

\* The device computes, from what is stored now, what it will store.
Compute(d, op, out) ==
  /\ Idle(d)
  /\ job' = [job EXCEPT ![d] = [op |-> op, out |-> out]]
  /\ UNCHANGED <<folder, values, losses, crashes, written>>

\* random_nk, random_salt, random_ns_recovery_code, and wrap_nk twice.
Enable(d, passphrase, length) ==
  /\ folder = None
  /\ Draw
  /\ Compute(d, "enable",
       [salt    |-> Fresh,
        wrap    |-> WrapNk(Nk(Fresh, length), passphrase, Fresh),
        recWrap |-> WrapNk(Nk(Fresh, length), Fresh, Fresh)])
  /\ codes' = codes \union {Fresh}
  /\ UNCHANGED nk

Opens(passphrase) == folder # None /\ Unwraps(folder.wrap, passphrase, folder.salt)

OpensByCode(code) ==
  folder # None /\ code \in codes /\ Unwraps(folder.recWrap, code, folder.salt)

\* unwrap_nk, under either credential.
Unlock(d) ==
  /\ \/ /\ \E passphrase \in Passphrase : Opens(passphrase)
        /\ nk' = [nk EXCEPT ![d] = UnwrapNk(folder.wrap)]
     \/ /\ \E code \in codes : OpensByCode(code)
        /\ nk' = [nk EXCEPT ![d] = UnwrapNk(folder.recWrap)]
  /\ UNCHANGED <<folder, values, job, codes, draws, losses, crashes, written>>

\* Mutant: wraps under a new salt.
ChangePassphraseNewSalt(d, passphrase, new) ==
  /\ Opens(passphrase)
  /\ Draw
  /\ Compute(d, "wrap", WrapNk(UnwrapNk(folder.wrap), new, Fresh))
  /\ UNCHANGED <<nk, codes>>

\* unwrap_nk, and wrap_nk under the same salt.
ChangePassphrase(d, passphrase, new) ==
  /\ Opens(passphrase)
  /\ Compute(d, "wrap", WrapNk(UnwrapNk(folder.wrap), new, folder.salt))
  /\ UNCHANGED <<nk, codes, draws>>

ResetPassphrase(d, code, new) ==
  /\ OpensByCode(code)
  /\ Compute(d, "wrap", WrapNk(UnwrapNk(folder.recWrap), new, folder.salt))
  /\ UNCHANGED <<nk, codes, draws>>

RotateCode(d, passphrase) ==
  /\ Opens(passphrase)
  /\ Draw
  /\ Compute(d, "recWrap", WrapNk(UnwrapNk(folder.wrap), Fresh, folder.salt))
  /\ codes' = codes \union {Fresh}
  /\ UNCHANGED nk

\* What the device will store under this name, if it is still as it was read.
ComputeValue(d, op, name, value) ==
  /\ Compute(d, op, [name |-> name, read |-> values[name], value |-> value])
  /\ UNCHANGED <<nk, codes, draws>>

\* Before there is a protected folder, or before the device knows of it.
WritePlain(d, name, text) ==
  /\ folder = None
  /\ ComputeValue(d, "write", name, Plain(text))

Write(d, name, text) ==
  /\ nk[d] # None /\ NkKey(nk[d])
  /\ ComputeValue(d, "write", name, ProtectValue(nk[d], Plain(text)))

\* A value that is not protected yet, or does not look it.
Protect(d, name) ==
  /\ nk[d] # None /\ NkKey(nk[d])
  /\ ~IsProtectedBlob(values[name])
  /\ ComputeValue(d, "protect", name, ProtectValue(nk[d], values[name]))

-----------------------------------------------------------------------------
(* The store, the way to it, and crashes.                                  *)

\* A folder is set up once, the wraps are replaced, a value only as read.
StoreFolder(op, out) ==
  /\ folder' = CASE op = "enable"  -> IF folder = None THEN out ELSE folder
                 [] op = "wrap"    -> [folder EXCEPT !.wrap = out]
                 [] op = "recWrap" -> [folder EXCEPT !.recWrap = out]
  /\ UNCHANGED <<values, written>>

StoreValue(op, out) ==
  /\ IF values[out.name] = out.read
       THEN /\ values' = [values EXCEPT ![out.name] = out.value]
            /\ written' = IF op = "write"
                            THEN [written EXCEPT ![out.name] = out.value.text] ELSE written
       ELSE UNCHANGED <<values, written>>
  /\ UNCHANGED folder

Store(d) ==
  /\ ~Idle(d)
  /\ IF job[d].op \in {"write", "protect"} THEN StoreValue(job[d].op, job[d].out)
                                           ELSE StoreFolder(job[d].op, job[d].out)
  /\ job' = [job EXCEPT ![d] = None]
  /\ UNCHANGED <<nk, codes, draws, losses, crashes>>

\* The device is locked, or goes down with what it has not stored.
Crash(d) ==
  /\ crashes < MaxCrashes
  /\ crashes' = crashes + 1
  /\ job' = [job EXCEPT ![d] = None]
  /\ nk' = [nk EXCEPT ![d] = None]
  /\ UNCHANGED <<folder, values, codes, draws, losses, written>>

\* A protected value loses its prefix, which unprotect_value "tolerates".
LosePrefix(name) ==
  /\ losses < MaxLosses
  /\ Marked(values[name])
  /\ values' = [values EXCEPT ![name].layers[1].marked = FALSE]
  /\ losses' = losses + 1
  /\ UNCHANGED <<folder, nk, job, codes, draws, crashes, written>>

-----------------------------------------------------------------------------
Init ==
  /\ folder = None
  /\ written \in [Name -> Text]
  /\ values = [name \in Name |-> Plain(written[name])]
  /\ nk = [d \in Device |-> None]
  /\ job = [d \in Device |-> None]
  /\ codes = {} /\ draws = 0 /\ losses = 0 /\ crashes = 0

Next ==
  \/ \E d \in Device :
       \/ Unlock(d) \/ Store(d) \/ Crash(d)
       \/ \E passphrase \in Passphrase :
            \/ RotateCode(d, passphrase)
            \/ \E length \in Length : Enable(d, passphrase, length)
            \/ \E new \in Passphrase : ChangePassphrase(d, passphrase, new)
            \/ \E code \in codes : ResetPassphrase(d, code, passphrase)
       \/ \E name \in Name :
            \/ Protect(d, name)
            \/ \E text \in Text : WritePlain(d, name, text) \/ Write(d, name, text)
  \/ \E name \in Name : LosePrefix(name)

Spec == Init /\ [][Next]_vars

\* A device that runs stores what it computed; a user who comes back unlocks the
\* folder again and again, and its values are looked at again and again.
FairSpec ==
  /\ Spec
  /\ \A d \in Device : WF_vars(Store(d)) /\ SF_vars(Unlock(d))
  /\ \A d \in Device, name \in Name : SF_vars(Protect(d, name))
=============================================================================
